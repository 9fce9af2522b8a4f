------------------------------ MODULE MediaJobs ------------------------------
(***************************************************************************)
(* Pictures and videos: the job table of internal/app/videos.go and the    *)
(* goroutines that fill it, runImageRequest (images.go), and what both     *)
(* wait for: a call that generates (gemini.go) and then fetches what was   *)
(* generated from the history of the conversation (media.go).              *)
(*                                                                         *)
(* The clock is each call's own: seconds since its first post.  What a     *)
(* download brings is "new", "echo" (the picture the client sent) or       *)
(* "empty" (HTTP 200 without a body).                                      *)
(***************************************************************************)
EXTENDS Integers, Sequences, FiniteSets, SequencesExt

CONSTANTS
  Callers,       \* one video job or one picture request each
  Plans,         \* what they ask for
  Slots,         \* concurrent calls the exits have room for
  Posts,         \* the retry budget of a media call
  Budget,        \* mediaTimeoutSec
  Floor, Reserve, \* what is left at least for fetching, and kept for the download
  MaxPolls,      \* polls of one call
  TextOnlyFor,   \* how long a mere text is waited for
  Spare, SpareWithFiles, MaxTries, \* tries beyond the pictures wanted, and at all
  MaxRestarts,  \* bound
  None

Batches(video) ==
  IF video THEN {<<"new">>, <<"empty">>} ELSE {<<"new">>, <<"echo">>, <<"echo", "new">>}
Arts == {"new", "echo", "empty"}
Bodies == {"failed", "link", "refused", "text", "other"}
Results == {"limit", "upstream", "refused", "text only", "nothing", "download", "ok",
            "panic", "model"}
Asks == [tool : {"video", "image"}, files : BOOLEAN, want : 1..4]

ASSUME CallersAssumption == IsFiniteSet(Callers)
ASSUME NoneAssumption == None \notin Nat \cup Results \cup Arts
ASSUME PlansAssumption == Plans \subseteq [Callers -> Asks]
ASSUME BudgetAssumption ==
  /\ {Posts, MaxPolls, Slots, MaxTries} \subseteq Nat \ {0}
  /\ {Budget, TextOnlyFor, Spare, SpareWithFiles} \subseteq Nat
  /\ Reserve \in Nat /\ Floor \in Nat /\ Reserve < Floor /\ Floor <= Budget

VARIABLES
  plan,
  jobs,     \* videoJobs: caller -> [status, error, mp4]
  old,      \* jobs created more than two hours ago
  pc,
  call,     \* the locals of the call and of the loop around it
  inflight, \* slots taken
  row,      \* the row recordRequest wrote: its status
  answer,   \* what a picture request was answered: status and pictures
  polled,   \* history: when the call polled and what it got
  restarts

vars == <<plan, jobs, old, pc, call, inflight, row, answer, polled, restarts>>
table == <<jobs, old>>
client == <<answer, restarts>>

(* tries, arts, echoes and failed belong to the loop of runImageRequest;   *)
(* posts, spent, limit, polls and since to one call; result and batch are  *)
(* what it returned: the kind of its error, or the pictures or videos.     *)
NewLoop == [tries |-> 0, arts |-> <<>>, echoes |-> 0, failed |-> None,
            posts |-> 0, spent |-> 0, limit |-> 0, polls |-> 0, since |-> None, result |-> None,
            batch |-> <<>>]

Init ==
  /\ plan \in Plans
  /\ jobs = <<>>
  /\ old = {}
  /\ pc = [c \in Callers |-> "idle"]
  /\ call = [c \in Callers |-> NewLoop]
  /\ inflight = 0
  /\ row = [c \in Callers |-> None]
  /\ answer = [c \in Callers |-> None]
  /\ polled = [c \in Callers |-> <<>>]
  /\ restarts = 0

IsVideo(c) == plan[c].tool = "video"
Goto(c, label) == pc' = [pc EXCEPT ![c] = label]
(* A goroutine ends, and its locals with it.                               *)
Ends(c) ==
  /\ Goto(c, "done")
  /\ call' = [call EXCEPT ![c] = NewLoop]
  /\ polled' = [polled EXCEPT ![c] = <<>>]
Calling == {"post", "poll", "download"}
Terminal == {"completed", "failed"}

-----------------------------------------------------------------------------
(* The job table *)

(* Deviation: finished jobs make room for a new one.                       *)
PurgeFinished == {j \in DOMAIN jobs : jobs[j].status \in Terminal}

(* putVideoJob: jobs of more than two hours ago leave.                     *)
Purged == {j \in DOMAIN jobs : j \in old}

(* POST /v1/videos.                                                        *)
Create(c) ==
  /\ pc[c] = "idle" /\ IsVideo(c)
  /\ jobs' = [j \in (DOMAIN jobs \ Purged) \cup {c} |->
                IF j = c THEN [status |-> "queued", error |-> None, mp4 |-> None] ELSE jobs[j]]
  /\ old' = old \ Purged
  /\ Goto(c, "queued")
  /\ UNCHANGED <<plan, call, inflight, row, client, polled>>

(* Two hours have passed; a call is over long before.                      *)
Age(j) ==
  /\ j \in DOMAIN jobs /\ j \notin old /\ pc[j] = "done"
  /\ old' = old \cup {j}
  /\ UNCHANGED <<plan, jobs, pc, call, inflight, row, client, polled>>

(* The goroutine writes its job, in the table or not.                      *)
SetJob(c, field, value) ==
  jobs' = IF c \in DOMAIN jobs THEN [jobs EXCEPT ![c][field] = value] ELSE jobs

Run(c) ==
  /\ pc[c] = "queued"
  /\ SetJob(c, "status", "in_progress")
  /\ Goto(c, "resolve")
  /\ UNCHANGED <<plan, old, call, inflight, row, client, polled>>

(* Deviation: the goroutine returns without a word.                        *)
ResolveSilently(c) ==
  /\ pc[c] = "resolve"
  /\ Goto(c, "try") \/ Goto(c, "done")
  /\ UNCHANGED <<plan, table, call, inflight, row, client, polled>>

(* resolveModel: without an account there is no video model, and no row.   *)
Resolve(c) ==
  /\ pc[c] = "resolve"
  /\ \/ Goto(c, "try") /\ UNCHANGED call
     \/ Goto(c, "finish") /\ call' = [call EXCEPT ![c].result = "model"]
  /\ UNCHANGED <<plan, table, inflight, row, client, polled>>

Record(c, status) == row' = [row EXCEPT ![c] = status]
Got(c) == call[c].batch # <<>>

RecordVideo(c) ==
  /\ pc[c] = "returned" /\ IsVideo(c)
  /\ Record(c, IF Got(c) THEN 200 ELSE 502)
  /\ polled' = [polled EXCEPT ![c] = <<>>]
  /\ Goto(c, "finish")
  /\ UNCHANGED <<plan, table, call, inflight, client>>

(* finishVideoJob; a job is read without its lock, so a failure shows      *)
(* before its reason does.                                                 *)
Finish(c) ==
  /\ pc[c] = "finish"
  /\ IF Got(c)
     THEN /\ jobs' = IF c \in DOMAIN jobs
                     THEN [jobs EXCEPT ![c] = [status |-> "completed", error |-> None,
                                               mp4 |-> Head(call[c].batch)]]
                     ELSE jobs
          /\ Ends(c)
     ELSE /\ SetJob(c, "status", "failed")
          /\ Goto(c, "reason")
          /\ UNCHANGED <<call, polled>>
  /\ UNCHANGED <<plan, old, inflight, row, client>>

Reason(c) ==
  /\ pc[c] = "reason"
  /\ SetJob(c, "error", call[c].result)
  /\ Ends(c)
  /\ UNCHANGED <<plan, old, inflight, row, client>>

(* GET /v1/videos/{id}, then GET /v1/videos/{id}/content.                  *)
Read(c) == IF c \in DOMAIN jobs THEN jobs[c].status ELSE "404"
Content(c) ==
  IF c \notin DOMAIN jobs THEN "404"
  ELSE IF jobs[c].status = "completed" /\ jobs[c].mp4 # "empty" THEN "content" ELSE "not ready"

(* The process is killed: the table and all that runs are gone.            *)
Restart ==
  /\ restarts < MaxRestarts
  /\ restarts' = restarts + 1
  /\ jobs' = <<>> /\ old' = {} /\ inflight' = 0
  /\ pc' = [c \in Callers |-> IF pc[c] = "idle" THEN "idle" ELSE "lost"]
  /\ call' = [c \in Callers |-> IF pc[c] \in {"done", "lost"} THEN call[c] ELSE NewLoop]
  /\ polled' = [c \in Callers |-> <<>>]
  /\ UNCHANGED <<plan, row, answer>>

-----------------------------------------------------------------------------
(* One call: streamGenerateWithFiles with a media model *)

(* Between two calls there is only the loop.                               *)
Loop(c) == [NewLoop EXCEPT !.tries = call[c].tries, !.arts = call[c].arts,
                           !.echoes = call[c].echoes, !.failed = call[c].failed]

(* The call returns: its locals are gone, its slot is released by defer.   *)
Back(c, result, batch) ==
  /\ call' = [call EXCEPT ![c] = [Loop(c) EXCEPT !.result = result, !.batch = batch]]
  /\ inflight' = inflight - 1
  /\ Goto(c, "returned")
Returns(c, result) == Back(c, result, <<>>)

NoSlot(c) ==
  /\ pc[c] = "try"
  /\ inflight = Slots
  /\ call' = [call EXCEPT ![c].result = "limit", ![c].batch = <<>>]
  /\ Goto(c, "returned")
  /\ UNCHANGED <<plan, table, inflight, row, client, polled>>

TakeSlot(c) ==
  /\ pc[c] = "try"
  /\ inflight < Slots
  /\ inflight' = inflight + 1
  /\ call' = [call EXCEPT ![c] = [Loop(c) EXCEPT !.posts = 1]]
  /\ Goto(c, "post")
  /\ UNCHANGED <<plan, table, row, client, polled>>

(* How long a post took; only a video minds.                               *)
Delays(c) == IF IsVideo(c) THEN {0, Budget} ELSE {0}

(* A network error or an answer without content is tried again at once;    *)
(* a post that waited for its whole time is not.                           *)
PostFails(c) ==
  /\ pc[c] = "post"
  /\ IF call[c].posts < Posts
     THEN \E d \in Delays(c) :
            /\ call' = [call EXCEPT ![c].posts = @ + 1, ![c].spent = @ + d]
            /\ UNCHANGED <<pc, inflight>>
     ELSE Returns(c, "upstream")
  /\ UNCHANGED <<plan, table, row, client, polled>>

PostTimesOut(c) ==
  /\ pc[c] = "post"
  /\ Returns(c, "upstream")
  /\ UNCHANGED <<plan, table, row, client, polled>>

(* When polling has to stop, on the clock of the call.                     *)
Limit(spent) ==
  LET left == Budget - spent
  IN spent + (IF left < Floor THEN Floor ELSE left) - Reserve

(* The answer came: pictures may be in it, everything else is polled for.  *)
PostAnswers(c) ==
  /\ pc[c] = "post"
  /\ \E d \in Delays(c) :
       LET spent == call[c].spent + d
       IN call' = [call EXCEPT ![c].spent = spent, ![c].limit = Limit(spent)]
  /\ \/ ~IsVideo(c) /\ Goto(c, "download")
     \/ Goto(c, "poll")
  /\ UNCHANGED <<plan, table, inflight, row, client, polled>>

Polls(c) ==
  /\ call[c].polls < MaxPolls
  /\ IsVideo(c) => call[c].spent <= call[c].limit

(* Deviation: one text starts the wait, whatever follows it.               *)
SinceFirst(c, body) ==
  IF body = "text" /\ call[c].since = None THEN call[c].spent ELSE call[c].since

(* textOnlySince: a poll that failed says nothing, any other body than a   *)
(* mere text starts anew.                                                  *)
Since(c, body) ==
  CASE body = "failed" -> call[c].since
    [] body = "text" -> IF call[c].since = None THEN call[c].spent ELSE call[c].since
    [] OTHER -> None

Waited(since, spent) == IF since = None THEN FALSE ELSE spent - since >= TextOnlyFor

(* pollHistoryRaw and what is made of it; then the call sleeps.            *)
Poll(c) ==
  /\ pc[c] = "poll"
  /\ Polls(c)
  /\ \E body \in IF IsVideo(c) THEN Bodies ELSE {"failed", "link"} :
       LET since == IF IsVideo(c) THEN Since(c, body) ELSE None
           verdict == body \in {"text", "other"} /\ Waited(since, call[c].spent)
       IN /\ polled' = [polled EXCEPT ![c] = Append(@, <<call[c].spent, body>>)]
          /\ CASE body = "link" -> /\ Goto(c, "download")
                                   /\ UNCHANGED <<call, inflight>>
               [] body = "refused" -> Returns(c, "refused")
               [] verdict -> Returns(c, "text only")
               [] OTHER -> /\ call' = [call EXCEPT ![c].polls = @ + 1, ![c].spent = @ + 1,
                                                   ![c].since = since]
                           /\ UNCHANGED <<pc, inflight>>
  /\ UNCHANGED <<plan, table, row, client>>

PollsOver(c) ==
  /\ pc[c] = "poll"
  /\ ~Polls(c)
  /\ Returns(c, "nothing")
  /\ UNCHANGED <<plan, table, row, client, polled>>

(* One of the downloads fails and all are lost, or the batch is there; of  *)
(* the videos the largest is kept.                                         *)
Download(c) ==
  /\ pc[c] = "download"
  /\ \/ Returns(c, "download")
     \/ \E batch \in Batches(IsVideo(c)) :
          /\ Contains(batch, "echo") => plan[c].files
          /\ Back(c, "ok", batch)
  /\ UNCHANGED <<plan, table, row, client, polled>>

(* Something in the call panics: the job's goroutine recovers, the server  *)
(* aborts the picture request; neither writes a row.                       *)
Panic(c) ==
  /\ pc[c] \in Calling
  /\ inflight' = inflight - 1
  /\ IF IsVideo(c)
     THEN /\ Goto(c, "finish")
          /\ call' = [call EXCEPT ![c] = [NewLoop EXCEPT !.result = "panic"]]
          /\ polled' = [polled EXCEPT ![c] = <<>>]
     ELSE Ends(c)
  /\ UNCHANGED <<plan, table, row, client>>

-----------------------------------------------------------------------------
(* runImageRequest *)

Request(c) ==
  /\ pc[c] = "idle" /\ ~IsVideo(c)
  /\ Goto(c, "try")
  /\ UNCHANGED <<plan, table, call, inflight, row, client, polled>>

Tries(k) == Min({k.want + (IF k.files THEN SpareWithFiles ELSE Spare), MaxTries})

(* isEchoArtifacts: only if nothing else came.                             *)
IsEcho(c, batch) == plan[c].files /\ \A i \in DOMAIN batch : batch[i] = "echo"

(* Deviation: what came is a picture.                                      *)
CollectAnything(c) ==
  IF Got(c) THEN [call[c] EXCEPT !.tries = @ + 1, !.failed = None, !.arts = @ \o call[c].batch]
  ELSE [call[c] EXCEPT !.tries = IF call[c].arts # <<>> THEN MaxTries ELSE @ + 1,
                       !.failed = call[c].result]

(* One turn of the loop: an echo is thrown away, an error counts as a try  *)
(* and ends the loop once there is a picture.                              *)
Collect(c) ==
  IF ~Got(c)
  THEN [call[c] EXCEPT !.tries = IF call[c].arts # <<>> THEN MaxTries ELSE @ + 1,
                       !.failed = call[c].result]
  ELSE IF IsEcho(c, call[c].batch)
  THEN [call[c] EXCEPT !.tries = @ + 1, !.failed = None, !.echoes = @ + 1]
  ELSE [call[c] EXCEPT !.tries = @ + 1, !.failed = None, !.arts = @ \o call[c].batch]

imageStatus(failed) == IF failed = "limit" THEN 429 ELSE 502

(* The loop goes on, or the request is answered and recorded.              *)
Returned(c) ==
  LET k == Collect(c) IN
  /\ pc[c] = "returned" /\ ~IsVideo(c)
  /\ call' = [call EXCEPT ![c] = [k EXCEPT !.result = None, !.batch = <<>>]]
  /\ IF k.tries < Tries(plan[c]) /\ Len(k.arts) < plan[c].want
     THEN Goto(c, "try") /\ UNCHANGED <<row, answer>>
     ELSE LET status == IF k.arts # <<>> THEN 200
                        ELSE IF k.failed # None THEN imageStatus(k.failed) ELSE 502
          IN /\ Record(c, status)
             /\ answer' = [answer EXCEPT ![c] = [status |-> status, data |-> k.arts]]
             /\ Goto(c, "done")
  /\ polled' = [polled EXCEPT ![c] = <<>>]
  /\ UNCHANGED <<plan, table, inflight, restarts>>

-----------------------------------------------------------------------------
Step(c) ==
  \/ Run(c) \/ Resolve(c) \/ RecordVideo(c) \/ Finish(c) \/ Reason(c)
  \/ NoSlot(c) \/ TakeSlot(c) \/ PostFails(c) \/ PostTimesOut(c) \/ PostAnswers(c)
  \/ Poll(c) \/ PollsOver(c) \/ Download(c) \/ Panic(c) \/ Returned(c)

Next ==
  \/ \E c \in Callers : Create(c) \/ Request(c) \/ Step(c) \/ Age(c)
  \/ Restart

Spec == Init /\ [][Next]_vars

(* Goroutines run, posts, polls and downloads have time limits.            *)
FairSpec == Spec /\ \A c \in Callers : WF_vars(Step(c))

-----------------------------------------------------------------------------
(* Properties *)

(* Types; a job in the table is one its caller created and has not lost.   *)
TypeOK ==
  /\ plan \in Plans
  /\ DOMAIN jobs \subseteq {c \in Callers : IsVideo(c) /\ pc[c] \notin {"idle", "lost"}}
  /\ \A c \in DOMAIN jobs :
       /\ jobs[c].status \in {"queued", "in_progress"} \cup Terminal
       /\ pc[c] = "done" => jobs[c].status \in Terminal
       /\ jobs[c].error # None => jobs[c].status = "failed"
       /\ jobs[c].mp4 # None <=> jobs[c].status = "completed"
  /\ old \subseteq DOMAIN jobs
  /\ inflight \in 0..Slots
  /\ \A c \in Callers : call[c].posts \in 0..Posts /\ call[c].polls \in 0..MaxPolls

(* A call has its slot from the first post to the last byte of what it     *)
(* fetches, minutes later, and gives it back however it ends, a panic      *)
(* while a response is parsed included (gemini.go 374, videos.go 106).     *)
SlotsAreCalls == inflight = Cardinality({c \in Callers : pc[c] \in Calling})

(* The row in the statistics says what the client is told: success for a   *)
(* job that has a video and pictures that were delivered, an error for the *)
(* others; a job that failed before the call or by a panic has none.       *)
RowsAgree ==
  \A c \in Callers :
    /\ c \in DOMAIN jobs /\ jobs[c].status = "completed" => row[c] = 200
    /\ c \in DOMAIN jobs /\ jobs[c].status = "failed" => row[c] # 200
    /\ answer[c] # None => row[c] = answer[c].status

(* Whatever the tries brought in which order, a request that got a picture *)
(* answers with it, never with echoes alone, and gives up only when no try *)
(* is left (images.go 234-257, 265-275).                                   *)
PicturesDelivered ==
  \A c \in Callers :
    answer[c] # None =>
      /\ answer[c].status = 200 <=> answer[c].data # <<>>
      /\ answer[c].data # <<>> => \E i \in DOMAIN answer[c].data : answer[c].data[i] # "echo"
      /\ call[c].tries >= Tries(plan[c]) \/ Len(answer[c].data) >= plan[c].want

(* A call gives up on what it generated only for a reason.  That the model *)
(* only wrote a text is what it says after that was all the history showed *)
(* for TextOnlyFor, from poll to poll (media.go 270-286): a video that     *)
(* starts late is waited for.  That there is nothing it says only after it *)
(* asked, however much of the budget the posts took (gemini.go 797-800).   *)
VerdictJustified ==
  \A c \in Callers :
    LET verdict == IF pc[c] = "returned" THEN call[c].result ELSE None IN
    /\ verdict = "text only" =>
         \E i \in DOMAIN polled[c] :
           /\ Last(polled[c])[1] - polled[c][i][1] >= TextOnlyFor
           /\ \A j \in i..Len(polled[c]) : polled[c][j][2] \in {"text", "failed"}
    /\ verdict = "nothing" => polled[c] # <<>>

(* What a client who asks for its job is told only goes forward, through   *)
(* queued and in progress to one end that stays; the content is there from *)
(* then on or never; the job is not found only after a restart or after    *)
(* two hours (videos.go 40-51, 154-182).                                   *)
Rank == [s \in {"queued", "in_progress", "completed", "failed", "404"} |->
           CASE s = "queued" -> 1 [] s = "in_progress" -> 2 [] s = "404" -> 4 [] OTHER -> 3]
ToldForward ==
  [][\A c \in DOMAIN jobs :
       /\ Rank[Read(c)] <= Rank[Read(c)']
       /\ {Read(c), Read(c)'} # Terminal
       /\ Content(c) # "not ready" => Content(c)' \in {Content(c), "404"}
       /\ Read(c)' = "404" => c \in old \/ restarts' > restarts]_vars

(* A job ends, completed or failed, however the call ends; only a restart  *)
(* leaves its client with nothing.                                         *)
JobEnds ==
  \A c \in Callers :
    c \in DOMAIN jobs ~> (c \notin DOMAIN jobs \/ jobs[c].status \in Terminal)

(* False, and in no run: a completed job has its video (videos.go 7).  An  *)
(* empty download makes a job that is completed and "not ready" for good.  *)
CompletedHasContent == \A c \in DOMAIN jobs : Read(c) = "completed" => Content(c) = "content"
=============================================================================
