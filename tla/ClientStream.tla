----------------------------- MODULE ClientStream -----------------------------
(***************************************************************************)
(* One request of a client, from its arrival to its last byte:             *)
(* handleChatCompletions and handleResponses (internal/app/server.go), the *)
(* SSE writer (sse.go), the gate that keeps tool calls out of a streamed   *)
(* text (messages.go), and the lines of the upstream answer they are fed   *)
(* with (gemini.go, conversation.go).                                      *)
(*                                                                         *)
(* A text is a sequence of letters: "a" is any text, "_" white space, "f"  *)
(* a code fence, "t" after a fence the word that makes it a tool call, "g" *)
(* a body of a tool call that parses, "x" after a fence the marker of code *)
(* that upstream ran, "D" a document or a picture.  A line of the answer   *)
(* carries the text so far, so the next one repeats and extends it, unless *)
(* the model rewrites what it said.                                        *)
(*                                                                         *)
(* Requests do not touch one another here: what they share is modelled by  *)
(* CookiePool, ProxyPool, UpstreamCall and Conversation.                   *)
(***************************************************************************)
EXTENDS Integers, Sequences, FiniteSets, SequencesExt

CONSTANTS
  Queries,        \* what a client may ask
  Answers,        \* what upstream may say
  Rewrites,       \* what it may say instead, half-way
  Thoughts,       \* the reasoning before it
  RetryAttempts,  \* retry_attempts
  MaxChanges,     \* bound: how often the pool gains or loses its accounts
  None

Letters == {"a", "_", "f", "t", "g", "x", "D"}

(* bad: n above 1, an unknown model, an empty prompt, ...; multi: the      *)
(* request goes through callGeminiConv; long: above max_prompt_bytes.      *)
Asks == [api : {"chat", "responses"}, stream : BOOLEAN, tools : BOOLEAN, bad : BOOLEAN,
         files : {"none", "visual", "audio"}, product : {"none", "canvas", "media"},
         multi : BOOLEAN, long : BOOLEAN]

ASSUME QueriesAssumption == Queries \subseteq Asks
ASSUME TextsAssumption ==
  Answers \cup Rewrites \cup Thoughts \subseteq Seq(Letters) \ {<<>>}
ASSUME BudgetAssumption == RetryAttempts \in 1..10
ASSUME ChangesAssumption == MaxChanges \in Nat

VARIABLES
  pool,    \* whether the pool has an account for this request
  changes, \* how often that changed
  req,     \* the request
  stage,
  call,    \* locals of streamGenerateWithFiles or streamGenerateConv
  line,    \* the answer as it comes in
  tracker, \* the two deltaTrackers
  gate,    \* toolFenceGate
  out,     \* what has been written to the client
  rows,    \* statuses of the rows recordRequest wrote
  answer   \* history: the text of the answer, once it is known

streamVars == <<pool, changes, req, stage, call, line, tracker, gate, out, rows, answer>>
account == <<pool, changes>>

-----------------------------------------------------------------------------
(* Texts *)

Trim(s) ==
  LET ink == {i \in DOMAIN s : s[i] # "_"}
  IN IF ink = {} THEN <<>> ELSE SubSeq(s, Min(ink), Max(ink))

Fences(s, i) == {j \in i..Len(s) : s[j] = "f"}
Opens(s, word, i) == i < Len(s) /\ s[i] = "f" /\ s[i + 1] = word

(* A block of s runs from a fence with the word to the next fence: what is *)
(* between them is its body, a block never closed is text.                 *)
Closed(s, word, i) == Opens(s, word, i) /\ Fences(s, i + 2) # {}
Close(s, i) == Min(Fences(s, i + 2))

(* What is gathered on the way through a text: piece[i] at i, then what is *)
(* gathered from to[i] on.                                                 *)
Gather(piece, to) ==
  LET n == Len(piece)
      from[i \in 1 .. n + 2] == IF i > n THEN <<>> ELSE piece[i] \o from[to[i]]
  IN from[1]

(* Past a block, or a letter; code that was run takes the line end with it. *)
Onward(s, word) ==
  [i \in DOMAIN s |->
     IF ~Closed(s, word, i) THEN i + 1
     ELSE IF word = "x" /\ Close(s, i) < Len(s) /\ s[Close(s, i) + 1] = "_" THEN Close(s, i) + 2
     ELSE Close(s, i) + 1]

(* s without its blocks, and the blocks that parse.                        *)
Without(s, word) ==
  Gather([i \in DOMAIN s |-> IF Closed(s, word, i) THEN <<>> ELSE <<s[i]>>], Onward(s, word))
Blocks(s, word) ==
  LET parses(i) == Closed(s, word, i) /\ Trim(SubSeq(s, i + 2, Close(s, i) - 1)) = <<"g">>
  IN Gather([i \in DOMAIN s |-> IF parses(i) THEN <<i>> ELSE <<>>], Onward(s, word))

cleanGeminiText(s) == Trim(Without(s, "x"))

(* An answer that is nothing but code is shown as an ordinary code block.  *)
extractResponseText(s) ==
  IF cleanGeminiText(s) # <<>> THEN cleanGeminiText(s)
  ELSE Trim(Gather([i \in DOMAIN s |-> IF s[i] = "x" THEN <<>> ELSE <<s[i]>>],
                   [i \in DOMAIN s |-> i + 1]))

(* parseToolCalls: a body that does not parse is dropped with its fence.   *)
ToolText(s) == Trim(Without(s, "t"))
ToolCalls(s) == Len(Blocks(s, "t"))

remainingOf(full, emitted) ==
  IF IsPrefix(emitted, full) THEN SubSeq(full, Len(emitted) + 1, Len(full)) ELSE <<>>

-----------------------------------------------------------------------------
(* toolFenceGate *)

NewGate == [buf |-> <<>>, inFence |-> FALSE, sent |-> <<>>]

partialPrefixLen(s) == IF s # <<>> /\ Last(s) = "f" THEN 1 ELSE 0

(* Each turn of the loop lets through what comes before the next tool call *)
(* and drops the call, up to one that is not closed yet: that is held, as  *)
(* is half a fence at the end.                                             *)
Settle(s, inFence) ==
  LET From(j) == SubSeq(s, j, Len(s))
      Held(j) == [buf |-> From(j), inFence |-> TRUE, sent |-> <<>>]
      from[j \in 1 .. Len(s) + 1] ==
        LET open == {i \in j..Len(s) : Opens(s, "t", i)}
            i == Min(open)
            last == Len(s) - partialPrefixLen(From(j))
            rest == IF Fences(s, i + 2) = {} THEN Held(i + 2) ELSE from[Close(s, i) + 1]
        IN IF open = {}
           THEN [buf |-> From(last + 1), inFence |-> FALSE, sent |-> SubSeq(s, j, last)]
           ELSE [rest EXCEPT !.sent = SubSeq(s, j, i - 1) \o @]
  IN IF ~inFence THEN from[1]
     ELSE IF Fences(s, 1) = {} THEN Held(1) ELSE from[Min(Fences(s, 1)) + 1]

PushGate(g, delta) ==
  LET s == Settle(g.buf \o delta, g.inFence) IN [s EXCEPT !.sent = g.sent \o @]

-----------------------------------------------------------------------------
(* What the client is sent: events, each with the index of its output item *)
(* (0 where there is none); equal deltas in a row are logged once.         *)

Silent == [log |-> <<>>, started |-> FALSE, msgIndex |-> None, nextIdx |-> 0,
           heard |-> <<>>, thought |-> <<>>]

Puts(o, names, idx) ==
  [o EXCEPT !.log = @ \o [i \in DOMAIN names |-> <<names[i], idx>>]]
Streams(o, name, idx) ==
  IF o.log # <<>> /\ Last(o.log) = <<name, idx>> THEN o ELSE Puts(o, <<name>>, idx)
Json(o, status) == Puts(o, <<"json">>, status)

(* sse.go *)

Start(o) == IF o.started THEN o ELSE Puts([o EXCEPT !.started = TRUE], <<"role">>, 0)
SendReasoning(o, d) ==
  IF d = <<>> THEN o
  ELSE Streams([Start(o) EXCEPT !.thought = @ \o d], "reasoning", 0)
SendContent(o, d) ==
  IF d = <<>> THEN o ELSE Streams([Start(o) EXCEPT !.heard = @ \o d], "content", 0)
SendToolCalls(o) == Puts(Start(o), <<"tool_calls">>, 0)
Finish(o) == Puts(Start(o), <<"finish", "[DONE]">>, 0)
Fail(o) == Puts(Start(o), <<"error", "[DONE]">>, 0)

(* handleResponses *)
Created(o) == Puts([o EXCEPT !.started = TRUE], <<"created">>, 0)

(* Deviation: its index is not taken.                                      *)
EnsureShared(o) ==
  IF o.msgIndex # None THEN o
  ELSE Puts([o EXCEPT !.msgIndex = o.nextIdx], <<"item added", "part added">>, o.nextIdx)

EnsureMsg(o) ==
  IF o.msgIndex # None THEN o
  ELSE Puts([o EXCEPT !.msgIndex = o.nextIdx, !.nextIdx = @ + 1],
            <<"item added", "part added">>, o.nextIdx)
EmitDelta(o, d) ==
  LET e == EnsureMsg(o) IN Streams([e EXCEPT !.heard = @ \o d], "delta", e.msgIndex)
CallEvents == <<"item added", "arguments done", "item done">>
CallItems(o, n) ==
  [o EXCEPT !.nextIdx = @ + n,
            !.log = @ \o [i \in 1 .. 3 * n |->
                            <<CallEvents[((i - 1) % 3) + 1], o.nextIdx + (i - 1) \div 3>>]]
MessageItem(o) ==
  LET e == EnsureMsg(o)
  IN Puts(e, <<"text done", "part done", "item done">>, e.msgIndex)
Completed(o) == Puts(o, <<"completed">>, 0)
Failed(o) == Puts(o, <<"failed">>, 0)

(* The writer the deltas go to.                                            *)
Chat == req.api = "chat"
Write(o, d) ==
  IF d = <<>> THEN o ELSE IF Chat THEN SendContent(o, d) ELSE EmitDelta(o, d)

-----------------------------------------------------------------------------
(* The request *)

(* files: uploaded; over: the posted prompt is above the budget.           *)
NoCall == [acct |-> FALSE, attempt |-> 0, files |-> FALSE, over |-> FALSE]

(* plan: what upstream is saying, up to at; text: the last text that is    *)
(* not blank; any: a content frame came; thought: the longest reasoning;   *)
(* steady: every text extended the one before.                             *)
NoLine == [plan |-> <<>>, at |-> 0, text |-> <<>>, any |-> FALSE, thought |-> <<>>,
           steady |-> TRUE]
Fresh == [text |-> <<>>, thought |-> <<>>]

StreamInit ==
  /\ pool \in BOOLEAN
  /\ changes = 0
  /\ req = None
  /\ stage = "idle"
  /\ call = NoCall
  /\ line = NoLine
  /\ tracker = Fresh
  /\ gate = NewGate
  /\ out = Silent
  /\ rows = <<>>
  /\ answer = None

(* Accounts are added, disabled and revoked by others between the look the *)
(* handler takes at the pool and the call's own.                           *)
PoolChanges ==
  /\ stage = "call"
  /\ changes < MaxChanges
  /\ pool' = ~pool
  /\ changes' = changes + 1
  /\ UNCHANGED <<req, stage, call, line, tracker, gate, out, rows, answer>>

(* rejectUnsupported and the checks before it: a picture needs an account. *)
rejectUnsupported(r) ==
  \/ r.bad
  \/ r.files = "audio"
  \/ r.files = "visual" /\ ~pool

Reject(r) ==
  /\ stage = "idle"
  /\ rejectUnsupported(r)
  /\ req' = r
  /\ out' = Json(out, 400)
  /\ stage' = "done"
  /\ UNCHANGED <<account, call, line, tracker, gate, rows, answer>>

(* The stream of the Responses interface is open before the call is made.  *)
Accept(r) ==
  /\ stage = "idle"
  /\ ~rejectUnsupported(r)
  /\ req' = r
  /\ out' = IF r.stream /\ r.api = "responses" THEN Created(out) ELSE out
  /\ stage' = "call"
  /\ UNCHANGED <<account, call, line, tracker, gate, rows, answer>>

(* The error branch of both handlers; too long is a 400, no slot a 429.    *)
Status(kind) == CASE kind = "long" -> 400 [] kind = "limit" -> 429 [] kind = "upstream" -> 502
(* Deviation: an open stream is ended by a status.                         *)
ErrorAsStatus(o, kind) == Json(o, Status(kind))

Error(o, kind) ==
  IF ~req.stream THEN Json(o, Status(kind))
  ELSE IF ~Chat THEN Failed(o)
  ELSE IF o.started THEN Fail(o) ELSE Json(o, Status(kind))

Fails(kind) ==
  /\ out' = Error(out, kind)
  /\ rows' = Append(rows, 502)
  /\ stage' = "done"

Conversing == req.multi /\ req.files = "none" /\ req.product = "none"

-----------------------------------------------------------------------------
(* The call: streamGenerateWithFiles or streamGenerateConv *)

NoSlot ==
  /\ stage = "call"
  /\ Fails("limit")
  /\ UNCHANGED <<account, req, call, line, tracker, gate, answer>>

(* The account comes from the pool as it is now, or the model needs none   *)
(* and anonymous_first spares it; one that fails leaves the request, with  *)
(* fallback_anon, anonymous.                                               *)
Pick ==
  /\ stage = "call"
  /\ \E a \in BOOLEAN :
       /\ a => pool
       /\ call' = [call EXCEPT !.acct = a]
  /\ stage' = "prepare"
  /\ UNCHANGED <<account, req, line, tracker, gate, out, rows, answer>>

(* No token for the account, no session for an anonymous conversation, or  *)
(* an upload that fails.                                                   *)
PrepareFails ==
  /\ stage = "prepare"
  /\ Fails("upstream")
  /\ UNCHANGED <<account, req, call, line, tracker, gate, answer>>

(* Deviation: what was asked for with an account is sent without one.      *)
PrepareAnyway ==
  /\ stage = "prepare"
  /\ call' = [call EXCEPT !.files = req.files = "visual" \/ req.long,
                          !.over = req.long /\ Conversing]
  /\ stage' = "post"
  /\ UNCHANGED <<account, req, line, tracker, gate, out, rows, answer>>

(* Pictures and, above the budget, the prompt itself become attachments of *)
(* the account; without one the request ends here.  A conversation does    *)
(* not look at the budget.                                                 *)
Prepare ==
  /\ stage = "prepare"
  /\ IF req.files = "visual" /\ ~call.acct
     THEN Fails("upstream") /\ UNCHANGED call
     ELSE IF req.long /\ ~Conversing /\ ~call.acct
     THEN Fails("long") /\ UNCHANGED call
     ELSE /\ call' = [call EXCEPT !.files = req.files = "visual" \/ (req.long /\ ~Conversing),
                                  !.over = req.long /\ Conversing]
          /\ stage' = "post"
          /\ UNCHANGED <<out, rows>>
  /\ UNCHANGED <<account, req, line, tracker, gate, answer>>

Post ==
  /\ stage = "post"
  /\ \E plan \in Answers : line' = [NoLine EXCEPT !.plan = plan]
  /\ call' = [call EXCEPT !.attempt = @ + 1]
  /\ stage' = "reading"
  /\ UNCHANGED <<account, req, tracker, gate, out, rows, answer>>

(* deltaTracker.Push: what a text adds to the longest one passed on.       *)
Delta(full, emitted) ==
  IF Len(full) > Len(emitted) /\ IsPrefix(emitted, full)
  THEN SubSeq(full, Len(emitted) + 1, Len(full)) ELSE <<>>

(* onDelta: with tools the text goes through the gate.                     *)
PassOn(d) ==
  IF req.tools
  THEN LET g == PushGate(gate, d)
       IN /\ gate' = g
          /\ out' = Write(out, SubSeq(g.sent, Len(gate.sent) + 1, Len(g.sent)))
  ELSE out' = Write(out, d) /\ UNCHANGED gate

(* lineCB for a text.                                                      *)
Text(t, steady) ==
  LET clean == cleanGeminiText(t)
      d == IF req.stream THEN Delta(clean, tracker.text) ELSE <<>>
  IN /\ line' = [line EXCEPT !.text = IF Trim(t) = <<>> THEN @ ELSE t, !.any = TRUE,
                             !.steady = steady /\ IsPrefix(tracker.text, clean),
                             !.plan = IF steady THEN @ ELSE t, !.at = Len(t)]
     /\ tracker' = [tracker EXCEPT !.text = IF d = <<>> THEN @ ELSE clean]
     /\ IF d = <<>> THEN UNCHANGED <<gate, out>> ELSE PassOn(d)
     /\ UNCHANGED <<account, req, stage, call, rows, answer>>

ReadText ==
  /\ stage = "reading"
  /\ \E n \in line.at + 1 .. Len(line.plan) : Text(SubSeq(line.plan, 1, n), line.steady)

ReadRewritten ==
  /\ stage = "reading"
  /\ line.steady /\ line.at > 0
  /\ \E t \in Rewrites : Text(t, FALSE)

(* lineCB for the reasoning, which comes before the text.                  *)
ReadThought ==
  /\ stage = "reading"
  /\ line.at = 0
  /\ \E r \in Thoughts :
       LET d == IF req.stream /\ Chat THEN Delta(r, tracker.thought) ELSE <<>>
       IN /\ Len(r) > Len(line.thought)
          /\ line' = [line EXCEPT !.thought = r, !.any = TRUE]
          /\ tracker' = [tracker EXCEPT !.thought = IF d = <<>> THEN @ ELSE r]
          /\ out' = SendReasoning(out, d)
  /\ UNCHANGED <<account, req, stage, call, gate, rows, answer>>

Spoken == tracker.text # <<>> \/ tracker.thought # <<>>

(* A network error, a status, or an answer without a content frame.        *)
PostFails ==
  /\ stage = "reading"
  /\ IF Spoken \/ call.attempt = RetryAttempts
     THEN Fails("upstream")
     ELSE stage' = "post" /\ UNCHANGED <<out, rows>>
  /\ line' = NoLine
  /\ UNCHANGED <<account, req, call, tracker, gate, answer>>

-----------------------------------------------------------------------------
(* The answer: callGemini or callGeminiConv, then the handler *)

(* Deviation: the tail is taken from what the tracker passed on.           *)
SentByTracker == tracker.text

sentText == IF req.stream /\ req.tools THEN gate.sent ELSE tracker.text

Output(o, text, calls) ==
  LET o2 == CallItems(o, calls)
  IN Completed(IF text # <<>> \/ calls = 0 THEN MessageItem(o2) ELSE o2)

(* The tails, then the tool calls and the end; the reasoning first.        *)
Closing(o, text, calls) ==
  LET told == IF Chat THEN SendReasoning(o, remainingOf(line.thought, tracker.thought)) ELSE o
      full == Write(told, remainingOf(text, sentText))
  IN IF Chat THEN Finish(IF calls > 0 THEN SendToolCalls(full) ELSE full)
     ELSE Output(full, text, calls)

Succeeds(text, calls) ==
  /\ answer' = text
  /\ rows' = Append(rows, 200)
  /\ out' = IF req.stream THEN Closing(out, text, calls)
            ELSE [Json(out, 200) EXCEPT !.heard = text, !.thought = line.thought]
  /\ stage' = "done"

Ends ==
  /\ stage = "reading"
  /\ line.any
  /\ UNCHANGED <<account, req, call, line, tracker, gate>>

Extracted == IF line.text = <<>> THEN <<>> ELSE extractResponseText(line.text)
Parsed == IF req.tools THEN ToolText(Extracted) ELSE Extracted
Calls == IF req.tools THEN ToolCalls(Extracted) ELSE 0

(* A conversation fails when parsing leaves nothing, callGemini when there *)
(* was nothing to parse.                                                   *)
Answer ==
  /\ Ends
  /\ req.product = "none"
  /\ IF IF Conversing THEN Parsed = <<>> /\ Calls = 0 ELSE Extracted = <<>>
     THEN Fails("upstream") /\ UNCHANGED answer
     ELSE Succeeds(Parsed, Calls)

(* The document follows the text unless it contains it.                    *)
Canvas ==
  /\ Ends
  /\ req.product = "canvas"
  /\ \/ Fails("upstream") /\ UNCHANGED answer
     \/ Succeeds(IF Extracted = <<>> THEN <<"D">> ELSE Extracted \o <<"_", "D">>, 0)
     \/ Succeeds(<<"D">> \o Extracted \o <<"D">>, 0)

Media ==
  /\ Ends
  /\ req.product = "media"
  /\ \/ Fails("upstream") /\ UNCHANGED answer
     \/ Succeeds(IF Extracted = <<>> THEN <<"D">> ELSE Extracted \o <<"_", "D">>, 0)

Done == stage = "done" /\ UNCHANGED streamVars

StreamNext ==
  \/ PoolChanges
  \/ \E r \in Queries : Reject(r) \/ Accept(r)
  \/ NoSlot \/ Pick \/ PrepareFails \/ Prepare \/ Post
  \/ ReadText \/ ReadRewritten \/ ReadThought \/ PostFails
  \/ Answer \/ Canvas \/ Media
  \/ Done

StreamSpec == StreamInit /\ [][StreamNext]_streamVars

-----------------------------------------------------------------------------
(* Properties *)

(* Types; the gate never holds back more than a fence or half of one.      *)
StreamTypeOK ==
  /\ pool \in BOOLEAN /\ changes \in 0..MaxChanges
  /\ req \in Queries \cup {None}
  /\ stage \in {"idle", "call", "prepare", "post", "reading", "done"}
  /\ call \in [acct : BOOLEAN, attempt : 0..RetryAttempts, files : BOOLEAN, over : BOOLEAN]
  /\ line.at \in Nat /\ line.any \in BOOLEAN /\ line.steady \in BOOLEAN
  /\ DOMAIN tracker = {"text", "thought"}
  /\ gate.inFence \in BOOLEAN
  /\ gate.inFence => Fences(gate.buf, 1) = {}
  /\ ~gate.inFence => gate.buf \in {<<>>, <<"f">>}
  /\ out.msgIndex \in Nat \cup {None} /\ out.nextIdx \in Nat
  /\ rows \in {<<>>, <<200>>, <<502>>}

Named(names) == {i \in DOMAIN out.log : out.log[i][1] \in names}
Endings == {"json", "[DONE]", "completed", "failed"}

(* What every client relies on (sse.go:9-14): a request is answered either *)
(* by one JSON body or by one stream, never a status inside a stream; the  *)
(* stream of a chat opens with the role and thinks before it speaks; and   *)
(* the end comes once, is the last thing sent, and is a success exactly    *)
(* when the one row recordRequest wrote says so.                           *)
OneEnding ==
  /\ Named(Endings) = IF stage = "done" THEN {Len(out.log)} ELSE {}
  /\ Named({"json"}) # {} => Len(out.log) = 1
  /\ out.log # <<>> /\ Chat /\ Named({"json"}) = {} =>
       /\ Named({"role"}) = {1}
       /\ \A i \in Named({"reasoning"}), j \in Named({"content", "tool_calls"}) : i < j
       /\ \A i \in Named({"content"}), j \in Named({"tool_calls"}) : i < j
  /\ stage = "done" /\ ~rejectUnsupported(req) /\ changes = 0 => rows # <<>>
  /\ rows = <<200>> <=> \/ Named({"finish", "completed"}) # {}
                        \/ Named({"json"}) # {} /\ out.log[1][2] = 200

(* The rule strict clients enforce (server.go:584-586): text and arguments *)
(* only for an item that has been announced, under an index of its own,    *)
(* counted from 0, and nothing for an item that is finished.               *)
ItemsAnnounced ==
  req # None /\ ~Chat =>
    LET added == Named({"item added"})
        Index(i) == out.log[i][2]
    IN /\ \A i \in added : Index(i) = Cardinality({j \in added : j < i})
       /\ \A i \in Named({"part added", "delta", "arguments done", "text done",
                          "part done", "item done"}) :
            \E j \in added : j < i /\ Index(j) = Index(i)
       /\ \A i \in Named({"item done"}) : \A j \in DOMAIN out.log :
            j > i /\ Index(j) = Index(i) => out.log[j][1] \notin {"delta", "item done"}

(* Attachments exist for an account only: whatever happens to the pool     *)
(* between the handler's look at it and the call's choice, a picture or a  *)
(* prompt turned into a file is never posted without one (gemini.go:477).  *)
FilesHaveAccount == call.files => call.acct

Streamed == stage = "done" /\ rows = <<200>> /\ req.stream /\ line.steady /\ req.product # "canvas"

(* A streamed text is the answer the same request gets without streaming,  *)
(* wherever the lines are cut and however often the call was repeated: no  *)
(* word of a tool call in it, none twice and none missing, but for white   *)
(* space at its ends.  Excepted: what came when the model rewrote itself,  *)
(* and what the gate still held when all it had let through began with     *)
(* white space, see StreamMatchesAnswer.  It needs that no tools are       *)
(* offered with pictures and that reasoning extends what came before of it *)
(* (PlainTools and Chained in RequestProofs).                              *)
StreamIsAnswer ==
  Streamed =>
    /\ IsPrefix(Trim(out.heard), answer)
    /\ (sentText # <<>> => sentText[1] # "_") => Trim(out.heard) = answer
    /\ Chat => out.thought = line.thought

(* What the test of the gate and the parser calls the criterion that both  *)
(* agree (toolgate_test.go:83-84), and its neighbour that nothing held is  *)
(* lost (:101), without the exception.                                     *)
StreamMatchesAnswer == Streamed => Trim(out.heard) = answer

(* server.go:586-587: the message item is announced lazily so that a turn  *)
(* of tool calls alone sends no empty message.                             *)
NoEmptyMessage ==
  stage = "done" /\ rows = <<200>> /\ answer = <<>> /\ Named({"arguments done"}) # {}
    => Named({"part added"}) = {}
=============================================================================
