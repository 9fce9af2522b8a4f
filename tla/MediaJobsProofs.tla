--------------------------- MODULE MediaJobsProofs ---------------------------
(* Proofs about MediaJobs for every finite set of callers, every plan,     *)
(* number of slots, budget and number of tries, and any number of          *)
(* restarts.                                                               *)
EXTENDS MediaJobs, FiniteSetTheorems, TLAPS

Running == {"resolve", "try", "returned", "finish"} \cup Calling
Labels == {"idle", "queued", "reason", "done", "lost"} \cup Running

CallSet ==
  [tries : Nat, arts : Seq(Arts), echoes : Nat, failed : Results \cup {None},
   posts : 0..Posts, spent : Nat, limit : Int, polls : 0..MaxPolls, since : Nat \cup {None},
   result : Results \cup {None}, batch : Seq(Arts)]
JobSet ==
  [status : {"queued", "in_progress"} \cup Terminal, error : Results \cup {None},
   mp4 : Arts \cup {None}]

(* Where a caller stands, and what its locals hold then.                   *)
Placed(c) ==
  /\ pc[c] \in Labels /\ call[c] \in CallSet /\ polled[c] \in Seq(Nat \X Bodies)
  /\ pc[c] \in {"queued", "resolve", "finish", "reason"} => IsVideo(c)
  /\ pc[c] \notin {"returned", "finish"} => call[c].batch = <<>>

(* A job is in the state its goroutine has written last.                   *)
JobInv(c) ==
  c \in DOMAIN jobs =>
    /\ jobs[c] \in JobSet
    /\ IsVideo(c) /\ pc[c] \notin {"idle", "lost"}
    /\ pc[c] = "queued" => jobs[c].status = "queued"
    /\ pc[c] \in Running => jobs[c].status = "in_progress"
    /\ pc[c] = "reason" => jobs[c].status = "failed"
    /\ pc[c] = "done" => jobs[c].status \in Terminal
    /\ jobs[c].error # None => jobs[c].status = "failed"
    /\ jobs[c].mp4 # None <=> jobs[c].status = "completed"

(* A row is written between the return of the call and the end of the job, *)
(* or together with the answer.                                            *)
RowInv(c) ==
  /\ IsVideo(c) /\ pc[c] \in {"idle", "queued", "resolve", "try", "returned"} \cup Calling => row[c] = None
  /\ IsVideo(c) /\ pc[c] = "finish" => (Got(c) <=> row[c] = 200)
  /\ pc[c] = "reason" => row[c] # 200
  /\ c \in DOMAIN jobs /\ jobs[c].status = "completed" => row[c] = 200
  /\ c \in DOMAIN jobs /\ jobs[c].status = "failed" => row[c] # 200
  /\ answer[c] # None => pc[c] \in {"done", "lost"} /\ ~IsVideo(c) /\ row[c] = answer[c].status

(* What has been kept is not echoes alone, and an echo comes only to who   *)
(* sent a picture.                                                         *)
Genuine(arts) == arts # <<>> => \E i \in DOMAIN arts : arts[i] # "echo"
PictureInv(c) ==
  /\ Genuine(call[c].arts)
  /\ pc[c] = "returned" /\ Contains(call[c].batch, "echo") => plan[c].files
  /\ answer[c] # None =>
       /\ answer[c].status = 200 <=> answer[c].data # <<>>
       /\ Genuine(answer[c].data)
       /\ call[c].tries >= Tries(plan[c]) \/ Len(answer[c].data) >= plan[c].want

(* From a poll on, nothing but texts and failures has been seen.           *)
TextsSince(polls, i) == \A j \in i..Len(polls) : polls[j][2] \in {"text", "failed"}
WaitInv(c) ==
  /\ pc[c] = "post" => call[c].polls = 0 /\ call[c].since = None
  /\ pc[c] = "poll" =>
       /\ polled[c] = <<>> => /\ call[c].polls = 0 /\ call[c].since = None
                              /\ IsVideo(c) => call[c].spent <= call[c].limit
       /\ call[c].since # None =>
            \E i \in DOMAIN polled[c] : polled[c][i][1] = call[c].since /\ TextsSince(polled[c], i)
  /\ pc[c] = "returned" /\ call[c].result = "text only" =>
       \E i \in DOMAIN polled[c] :
         /\ polled[c][Len(polled[c])][1] - polled[c][i][1] >= TextOnlyFor
         /\ TextsSince(polled[c], i)
  /\ pc[c] = "returned" /\ call[c].result = "nothing" => polled[c] # <<>>

Good(c) == Placed(c) /\ JobInv(c) /\ RowInv(c) /\ PictureInv(c) /\ WaitInv(c)

Shapes ==
  /\ plan \in Plans /\ plan \in [Callers -> Asks]
  /\ DOMAIN pc = Callers /\ DOMAIN call = Callers /\ DOMAIN row = Callers
  /\ DOMAIN answer = Callers /\ DOMAIN polled = Callers
  /\ DOMAIN jobs \subseteq Callers /\ old \subseteq DOMAIN jobs /\ restarts \in Nat

Inv ==
  /\ Shapes
  /\ \A c \in Callers : Good(c)
  /\ SlotsAreCalls /\ inflight \in 0..Slots

-----------------------------------------------------------------------------
(* The values the constants leave room for.                                *)

LEMMA Numbers ==
  /\ Posts \in Nat /\ Posts >= 1 /\ MaxPolls \in Nat /\ MaxPolls >= 1
  /\ Slots \in Nat /\ MaxTries \in Nat /\ Budget \in Nat /\ TextOnlyFor \in Nat
  /\ Spare \in Nat /\ SpareWithFiles \in Nat
  /\ Reserve \in Nat /\ Floor \in Nat /\ Reserve < Floor
  BY BudgetAssumption

LEMMA NoneApart == None \notin Results /\ None \notin Nat /\ None \notin Arts
  BY NoneAssumption

(* The wait for the pictures of a call that was answered does not end      *)
(* before it begins: what is kept for the download is less than the least  *)
(* that is left.                                                           *)
LEMMA LimitLater == ASSUME NEW spent \in Nat PROVE Limit(spent) \in Int /\ spent <= Limit(spent)
  BY Numbers DEF Limit

(* The smaller of the two numbers of tries is a number.                    *)
LEMMA TriesNat == ASSUME NEW k \in Asks PROVE Tries(k) \in Nat /\ Tries(k) <= MaxTries
<1> DEFINE a == k.want + (IF k.files THEN SpareWithFiles ELSE Spare)
<1>1. a \in Nat
  BY Numbers DEF Asks
<1> HIDE DEF a
<1>2. \E x \in {a, MaxTries} : \A y \in {a, MaxTries} : x <= y
  BY <1>1, Numbers
<1>3. Min({a, MaxTries}) \in {a, MaxTries} /\ \A y \in {a, MaxTries} : Min({a, MaxTries}) <= y
  BY <1>2 DEF Min
<1>4. Tries(k) = Min({a, MaxTries})
  BY DEF Tries, a
<1> QED BY <1>1, <1>3, <1>4, Numbers

LEMMA PlanIs == ASSUME Shapes, NEW c \in Callers
                PROVE plan[c] \in Asks /\ IsVideo(c) \in BOOLEAN
  BY DEF Shapes, IsVideo

-----------------------------------------------------------------------------
(* The locals of a call.                                                   *)

(* The fields of any call.                                                 *)
LEMMA Fields ==
  ASSUME NEW k \in CallSet
  PROVE  /\ k.tries \in Nat /\ k.echoes \in Nat /\ k.spent \in Nat
         /\ k.posts \in 0..Posts /\ k.polls \in 0..MaxPolls
         /\ k.arts \in Seq(Arts) /\ k.batch \in Seq(Arts)
         /\ k.result \in Results \cup {None} /\ k.since \in Nat \cup {None}
  BY DEF CallSet

LEMMA NewLoopIs ==
  /\ NewLoop \in CallSet
  /\ NewLoop.tries = 0 /\ NewLoop.arts = <<>> /\ NewLoop.posts = 0 /\ NewLoop.polls = 0
  /\ NewLoop.since = None /\ NewLoop.result = None /\ NewLoop.batch = <<>>
  BY Numbers DEF NewLoop, CallSet

LEMMA SetResult ==
  ASSUME NEW k \in CallSet, NEW v \in Results \cup {None}
  PROVE  /\ [k EXCEPT !.result = v] \in CallSet
         /\ [k EXCEPT !.result = v].result = v
         /\ [k EXCEPT !.result = v].arts = k.arts
         /\ [k EXCEPT !.result = v].batch = k.batch
         /\ [k EXCEPT !.result = v].tries = k.tries
  BY DEF CallSet

LEMMA SetBatch ==
  ASSUME NEW k \in CallSet, NEW v \in Seq(Arts)
  PROVE  /\ [k EXCEPT !.batch = v] \in CallSet
         /\ [k EXCEPT !.batch = v].batch = v
         /\ [k EXCEPT !.batch = v].arts = k.arts
         /\ [k EXCEPT !.batch = v].result = k.result
         /\ [k EXCEPT !.batch = v].tries = k.tries
  BY DEF CallSet

(* Between two calls: what the loop keeps, and nothing of a call.          *)
LEMMA LoopIs ==
  ASSUME NEW c, call[c] \in CallSet
  PROVE  /\ Loop(c) \in CallSet
         /\ Loop(c).arts = call[c].arts /\ Loop(c).tries = call[c].tries
         /\ Loop(c).posts = 0 /\ Loop(c).polls = 0 /\ Loop(c).since = None
         /\ Loop(c).result = None /\ Loop(c).batch = <<>> /\ Loop(c).spent = 0
<1> DEFINE k1 == [NewLoop EXCEPT !.tries = call[c].tries]
           k2 == [k1 EXCEPT !.arts = call[c].arts]
           k3 == [k2 EXCEPT !.echoes = call[c].echoes]
           k4 == [k3 EXCEPT !.failed = call[c].failed]
<1>1. /\ k1 \in CallSet /\ k1.tries = call[c].tries /\ k1.posts = 0 /\ k1.polls = 0
      /\ k1.since = None /\ k1.result = None /\ k1.batch = <<>> /\ k1.spent = 0
  <2>1. call[c].tries \in Nat
    BY DEF CallSet
  <2> DEFINE t == call[c].tries
  <2> HIDE DEF t
  <2>2. k1 = [NewLoop EXCEPT !.tries = t]
    BY DEF t
  <2> HIDE DEF k1
  <2>3. t \in Nat
    BY <2>1 DEF t
  <2>4. NewLoop \in CallSet /\ NewLoop.spent = 0
    BY NewLoopIs DEF NewLoop
  <2>5. /\ k1 \in CallSet /\ k1.tries = t /\ k1.posts = 0 /\ k1.polls = 0
        /\ k1.since = None /\ k1.result = None /\ k1.batch = <<>> /\ k1.spent = 0
    BY <2>2, <2>3, <2>4, NewLoopIs DEF CallSet
  <2> QED BY <2>5 DEF t
<1> HIDE DEF k1
<1>2. /\ k2 \in CallSet /\ k2.tries = k1.tries /\ k2.posts = 0 /\ k2.polls = 0
      /\ k2.since = None /\ k2.result = None /\ k2.batch = <<>> /\ k2.spent = 0
      /\ k2.arts = call[c].arts
  BY <1>1 DEF CallSet
<1> HIDE DEF k2
<1>3. /\ k3 \in CallSet /\ k3.tries = k2.tries /\ k3.posts = 0 /\ k3.polls = 0
      /\ k3.since = None /\ k3.result = None /\ k3.batch = <<>> /\ k3.spent = 0
      /\ k3.arts = k2.arts
  BY <1>2 DEF CallSet
<1> HIDE DEF k3
<1>4. /\ k4 \in CallSet /\ k4.tries = k3.tries /\ k4.posts = 0 /\ k4.polls = 0
      /\ k4.since = None /\ k4.result = None /\ k4.batch = <<>> /\ k4.spent = 0
      /\ k4.arts = k3.arts
  BY <1>3 DEF CallSet
<1>5. Loop(c) = k4
  BY DEF Loop, k1, k2, k3, k4
<1> HIDE DEF k4
<1> QED BY <1>1, <1>2, <1>3, <1>4, <1>5

-----------------------------------------------------------------------------
(* A step of one caller does not reach another one.                        *)

At(f, g, c) == DOMAIN g = DOMAIN f /\ \A d \in DOMAIN f \ {c} : g[d] = f[d]
Only(c) ==
  /\ plan' = plan /\ restarts' = restarts
  /\ At(pc, pc', c) /\ At(call, call', c) /\ At(row, row', c)
  /\ At(answer, answer', c) /\ At(polled, polled', c)
  /\ DOMAIN jobs' \subseteq DOMAIN jobs \cup {c}
  /\ \A d \in DOMAIN jobs' \ {c} : jobs'[d] = jobs[d]
  /\ old' \subseteq DOMAIN jobs'

LEMMA Set1 == ASSUME NEW f, NEW g, NEW c, NEW v, g = [f EXCEPT ![c] = v] PROVE At(f, g, c)
  BY DEF At
LEMMA Set0 == ASSUME NEW f, NEW g, NEW c, g = f PROVE At(f, g, c)
  BY DEF At

LEMMA ShapesKept == ASSUME Shapes, NEW c \in Callers, Only(c) PROVE Shapes'
  BY DEF Shapes, Only, At

LEMMA Untouched ==
  ASSUME NEW d \in Callers, Good(d), plan' = plan,
         pc'[d] = pc[d], call'[d] = call[d], row'[d] = row[d], answer'[d] = answer[d],
         polled'[d] = polled[d],
         d \in DOMAIN jobs' => d \in DOMAIN jobs /\ jobs'[d] = jobs[d]
  PROVE  Good(d)'
<1>1. Placed(d)'
  BY DEF Good, Placed, IsVideo
<1>2. JobInv(d)'
  BY DEF Good, JobInv, IsVideo
<1>3. RowInv(d)'
  BY DEF Good, RowInv, IsVideo, Got
<1>4. PictureInv(d)'
  BY DEF Good, PictureInv
<1>5. WaitInv(d)'
  BY DEF Good, WaitInv, IsVideo
<1> QED BY <1>1, <1>2, <1>3, <1>4, <1>5 DEF Good

LEMMA OthersGood ==
  ASSUME Shapes, NEW c \in Callers, Only(c), NEW d \in Callers, d # c, Good(d)
  PROVE  Good(d)'
<1>1. /\ plan' = plan
      /\ pc'[d] = pc[d] /\ call'[d] = call[d] /\ row'[d] = row[d] /\ answer'[d] = answer[d]
      /\ polled'[d] = polled[d]
  BY DEF Shapes, Only, At
<1>2. d \in DOMAIN jobs' => d \in DOMAIN jobs /\ jobs'[d] = jobs[d]
  BY DEF Only
<1> QED BY <1>1, <1>2, Untouched

LEMMA GoodKept ==
  ASSUME Shapes, NEW c \in Callers, Only(c), \A d \in Callers : Good(d), Good(c)'
  PROVE  Shapes' /\ \A d \in Callers : Good(d)'
<1>1. ASSUME NEW d \in Callers, d # c PROVE Good(d)'
  BY <1>1, OthersGood
<1> QED BY <1>1, ShapesKept

-----------------------------------------------------------------------------
(* The slots that are taken.                                               *)

InCall == {c \in Callers : pc[c] \in Calling}

LEMMA InCallFinite == IsFiniteSet(InCall) /\ Cardinality(InCall) \in Nat
<1>1. InCall \subseteq Callers
  BY DEF InCall
<1>2. IsFiniteSet(InCall)
  BY <1>1, CallersAssumption, FS_Subset
<1> QED BY <1>2, FS_CardinalityType

SlotsInv == SlotsAreCalls /\ inflight \in 0..Slots

LEMMA SlotsSame ==
  ASSUME Shapes, SlotsInv, NEW c \in Callers, Only(c), inflight' = inflight,
         pc[c] \in Calling <=> pc'[c] \in Calling
  PROVE  SlotsInv'
<1>1. \A d \in Callers : pc'[d] \in Calling <=> pc[d] \in Calling
  BY DEF Only, At, Shapes
<1>2. {d \in Callers : pc'[d] \in Calling} = {d \in Callers : pc[d] \in Calling}
  BY <1>1
<1> QED BY <1>2 DEF SlotsInv, SlotsAreCalls

LEMMA SlotTaken ==
  ASSUME Shapes, SlotsInv, NEW c \in Callers, Only(c), inflight < Slots,
         inflight' = inflight + 1, pc[c] \notin Calling, pc'[c] \in Calling
  PROVE  SlotsInv'
<1>1. \A d \in Callers : pc'[d] \in Calling <=> (pc[d] \in Calling \/ d = c)
  BY DEF Only, At, Shapes
<1>2. InCall' = InCall \cup {c}
  BY <1>1 DEF InCall
<1>3. c \notin InCall
  BY DEF InCall
<1>4. Cardinality(InCall \cup {c}) = Cardinality(InCall) + 1
  BY <1>3, InCallFinite, FS_AddElement
<1>5. inflight = Cardinality(InCall)
  BY DEF SlotsInv, SlotsAreCalls, InCall
<1>6. inflight' = Cardinality(InCall')
  BY <1>2, <1>4, <1>5
<1>7. inflight' \in 0..Slots
  BY Numbers DEF SlotsInv
<1> QED BY <1>6, <1>7 DEF SlotsInv, SlotsAreCalls, InCall

LEMMA SlotReturned ==
  ASSUME Shapes, SlotsInv, NEW c \in Callers, Only(c), inflight' = inflight - 1,
         pc[c] \in Calling, pc'[c] \notin Calling
  PROVE  SlotsInv'
<1>1. \A d \in Callers : pc'[d] \in Calling <=> (pc[d] \in Calling /\ d # c)
  BY DEF Only, At, Shapes
<1>2. InCall' = InCall \ {c}
  BY <1>1 DEF InCall
<1>3. c \in InCall
  BY DEF InCall
<1>4. Cardinality(InCall \ {c}) = Cardinality(InCall) - 1
  BY <1>3, InCallFinite, FS_RemoveElement
<1>5. inflight = Cardinality(InCall)
  BY DEF SlotsInv, SlotsAreCalls, InCall
<1>6. inflight' = Cardinality(InCall')
  BY <1>2, <1>4, <1>5
<1>7. IsFiniteSet(InCall \ {c})
  BY InCallFinite, FS_RemoveElement
<1>8. Cardinality(InCall \ {c}) \in Nat
  BY <1>7, FS_CardinalityType
<1>9. inflight' \in 0..Slots
  BY <1>4, <1>5, <1>8, Numbers DEF SlotsInv
<1> QED BY <1>6, <1>9 DEF SlotsInv, SlotsAreCalls, InCall

-----------------------------------------------------------------------------
(* The job table.                                                          *)

LEMMA JobSetIs ==
  /\ [status |-> "queued", error |-> None, mp4 |-> None] \in JobSet
  /\ \A a \in Arts : [status |-> "completed", error |-> None, mp4 |-> a] \in JobSet
  /\ \A j \in JobSet : /\ j.status \in {"queued", "in_progress"} \cup Terminal
                       /\ j.error \in Results \cup {None} /\ j.mp4 \in Arts \cup {None}
  BY DEF JobSet, Terminal

LEMMA SetStatus ==
  ASSUME Shapes, NEW c, NEW v \in {"queued", "in_progress"} \cup Terminal,
         c \in DOMAIN jobs => jobs[c] \in JobSet, SetJob(c, "status", v)
  PROVE  /\ DOMAIN jobs' = DOMAIN jobs
         /\ \A d \in DOMAIN jobs \ {c} : jobs'[d] = jobs[d]
         /\ c \in DOMAIN jobs => /\ jobs'[c] \in JobSet /\ jobs'[c].status = v
                                 /\ jobs'[c].error = jobs[c].error
                                 /\ jobs'[c].mp4 = jobs[c].mp4
<1>1. CASE c \notin DOMAIN jobs
  BY <1>1 DEF SetJob
<1>2. CASE c \in DOMAIN jobs
  <2> DEFINE r == [jobs[c] EXCEPT !["status"] = v]
  <2>1. jobs' = [jobs EXCEPT ![c] = r]
    BY <1>2 DEF SetJob
  <2>2. r \in JobSet /\ r.status = v /\ r.error = jobs[c].error /\ r.mp4 = jobs[c].mp4
    BY <1>2 DEF JobSet
  <2> HIDE DEF r
  <2> QED BY <1>2, <2>1, <2>2
<1> QED BY <1>1, <1>2

LEMMA SetError ==
  ASSUME Shapes, NEW c, NEW v \in Results \cup {None},
         c \in DOMAIN jobs => jobs[c] \in JobSet, SetJob(c, "error", v)
  PROVE  /\ DOMAIN jobs' = DOMAIN jobs
         /\ \A d \in DOMAIN jobs \ {c} : jobs'[d] = jobs[d]
         /\ c \in DOMAIN jobs => /\ jobs'[c] \in JobSet /\ jobs'[c].error = v
                                 /\ jobs'[c].status = jobs[c].status
                                 /\ jobs'[c].mp4 = jobs[c].mp4
<1>1. CASE c \notin DOMAIN jobs
  BY <1>1 DEF SetJob
<1>2. CASE c \in DOMAIN jobs
  <2> DEFINE r == [jobs[c] EXCEPT !["error"] = v]
  <2>1. jobs' = [jobs EXCEPT ![c] = r]
    BY <1>2 DEF SetJob
  <2>2. r \in JobSet /\ r.error = v /\ r.status = jobs[c].status /\ r.mp4 = jobs[c].mp4
    BY <1>2 DEF JobSet
  <2> HIDE DEF r
  <2> QED BY <1>2, <2>1, <2>2
<1> QED BY <1>1, <1>2

(* A new job is queued, whatever was purged to make room.                  *)
LEMMA CreateKeeps ==
  ASSUME Shapes, SlotsInv, NEW c \in Callers, Good(c), Create(c)
  PROVE  Only(c) /\ Good(c)' /\ SlotsInv'
<1> DEFINE fresh == [status |-> "queued", error |-> None, mp4 |-> None]
<1>1. /\ DOMAIN jobs' = (DOMAIN jobs \ Purged) \cup {c} /\ jobs'[c] = fresh
      /\ \A d \in DOMAIN jobs' \ {c} : jobs'[d] = jobs[d]
  BY DEF Create
<1>2. old' \subseteq DOMAIN jobs'
  BY <1>1 DEF Create, Shapes
<1>3. /\ plan' = plan /\ restarts' = restarts /\ inflight' = inflight
      /\ pc' = [pc EXCEPT ![c] = "queued"]
      /\ call' = call /\ row' = row /\ answer' = answer /\ polled' = polled
  BY DEF Create, Goto, client
<1>4. Only(c)
  BY <1>1, <1>2, <1>3, Set1, Set0 DEF Only
<1>5. pc[c] = "idle" /\ pc'[c] = "queued" /\ IsVideo(c)
  BY <1>3 DEF Create, Shapes
<1>6. SlotsInv'
  BY <1>3, <1>4, <1>5, SlotsSame DEF Calling
<1>7. fresh \in JobSet /\ fresh.status = "queued" /\ fresh.error = None /\ fresh.mp4 = None
  BY JobSetIs
<1> HIDE DEF fresh
<1>8. Placed(c)'
  BY <1>3, <1>5 DEF Good, Placed, IsVideo, Labels
<1>9. JobInv(c)'
  BY <1>1, <1>3, <1>5, <1>7 DEF JobInv, IsVideo, Running, Calling, Terminal
<1>10. row[c] = None
  BY <1>5 DEF Good, RowInv
<1>11. answer[c] = None
  BY <1>5 DEF Good, RowInv
<1>12. RowInv(c)'
  BY <1>1, <1>3, <1>5, <1>7, <1>10, <1>11 DEF RowInv, IsVideo
<1>13. PictureInv(c)' /\ WaitInv(c)'
  BY <1>3, <1>5, <1>11 DEF Good, PictureInv, WaitInv
<1> QED BY <1>4, <1>6, <1>8, <1>9, <1>12, <1>13 DEF Good

(* Time passes over a job that has ended.                                  *)
LEMMA AgeKeeps ==
  ASSUME Shapes, SlotsInv, NEW c \in Callers, Good(c), Age(c)
  PROVE  Only(c) /\ Good(c)' /\ SlotsInv'
<1>1. /\ plan' = plan /\ restarts' = restarts /\ inflight' = inflight /\ jobs' = jobs
      /\ pc' = pc /\ call' = call /\ row' = row /\ answer' = answer /\ polled' = polled
  BY DEF Age, client
<1>2. old' \subseteq DOMAIN jobs'
  BY <1>1 DEF Age, Shapes
<1>3. Only(c)
  BY <1>1, <1>2, Set0 DEF Only
<1>4. SlotsInv'
  BY <1>1, <1>3, SlotsSame
<1>5. Good(c)'
  BY <1>1, Untouched
<1> QED BY <1>3, <1>4, <1>5

(* A step that is only the goroutine's own, and leaves the table alone.    *)
LEMMA OnlyIs ==
  ASSUME Shapes, NEW c \in Callers, plan' = plan, restarts' = restarts, table' = table,
         At(pc, pc', c), At(call, call', c), At(row, row', c), At(answer, answer', c),
         At(polled, polled', c)
  PROVE  Only(c)
  BY DEF Only, table, Shapes

(* The job is in progress from its goroutine's first step on.              *)
LEMMA RunKeeps ==
  ASSUME Shapes, SlotsInv, NEW c \in Callers, Good(c), Run(c)
  PROVE  Only(c) /\ Good(c)' /\ SlotsInv'
<1>1. /\ plan' = plan /\ restarts' = restarts /\ inflight' = inflight /\ old' = old
      /\ pc' = [pc EXCEPT ![c] = "resolve"]
      /\ call' = call /\ row' = row /\ answer' = answer /\ polled' = polled
  BY DEF Run, Goto, client
<1>2. pc[c] = "queued" /\ pc'[c] = "resolve" /\ IsVideo(c)
  BY <1>1 DEF Run, Shapes, Good, Placed
<1>3. c \in DOMAIN jobs => jobs[c] \in JobSet
  BY DEF Good, JobInv
<1>4. /\ DOMAIN jobs' = DOMAIN jobs
      /\ \A d \in DOMAIN jobs \ {c} : jobs'[d] = jobs[d]
      /\ c \in DOMAIN jobs => /\ jobs'[c] \in JobSet /\ jobs'[c].status = "in_progress"
                              /\ jobs'[c].error = jobs[c].error /\ jobs'[c].mp4 = jobs[c].mp4
  BY <1>3, SetStatus DEF Run
<1>5. old' \subseteq DOMAIN jobs'
  BY <1>1, <1>4 DEF Shapes
<1>6. Only(c)
  BY <1>1, <1>4, <1>5, Set1, Set0 DEF Only
<1>7. SlotsInv'
  BY <1>1, <1>2, <1>6, SlotsSame DEF Calling
<1>8. Placed(c)'
  BY <1>1, <1>2 DEF Good, Placed, IsVideo, Labels, Running
<1>9. c \in DOMAIN jobs => jobs[c].status = "queued" /\ jobs[c].error = None /\ jobs[c].mp4 = None
  BY <1>2 DEF Good, JobInv
<1>10. JobInv(c)'
  BY <1>1, <1>2, <1>4, <1>9 DEF JobInv, IsVideo, Terminal
<1>11. row[c] = None /\ answer[c] = None
  BY <1>2 DEF Good, RowInv
<1>12. RowInv(c)'
  BY <1>1, <1>2, <1>4, <1>11 DEF RowInv, IsVideo
<1>13. PictureInv(c)' /\ WaitInv(c)'
  BY <1>1, <1>2, <1>11 DEF Good, PictureInv, WaitInv
<1> QED BY <1>6, <1>7, <1>8, <1>10, <1>12, <1>13 DEF Good

(* Without a model the job ends before there is a call.                    *)
LEMMA ResolveKeeps ==
  ASSUME Shapes, SlotsInv, NEW c \in Callers, Good(c), Resolve(c)
  PROVE  Only(c) /\ Good(c)' /\ SlotsInv'
<1>1. /\ plan' = plan /\ restarts' = restarts /\ inflight' = inflight /\ table' = table
      /\ jobs' = jobs
      /\ row' = row /\ answer' = answer /\ polled' = polled
      /\ pc[c] = "resolve"
  BY DEF Resolve, client, table
<1>2. IsVideo(c) /\ row[c] = None /\ answer[c] = None /\ call[c] \in CallSet /\ call[c].batch = <<>>
  BY <1>1 DEF Good, Placed, RowInv
<1> DEFINE k == [call[c] EXCEPT !.result = "model"]
<1>3. k \in CallSet /\ k.batch = <<>> /\ k.arts = call[c].arts /\ k.tries = call[c].tries
  BY <1>2, SetResult DEF Results
<1>4. \/ pc' = [pc EXCEPT ![c] = "try"] /\ call' = call
      \/ pc' = [pc EXCEPT ![c] = "finish"] /\ call' = [call EXCEPT ![c] = k]
  BY DEF Resolve, Goto
<1> HIDE DEF k
<1>5. Only(c)
  <2>1. /\ At(pc, pc', c) /\ At(call, call', c) /\ At(row, row', c) /\ At(answer, answer', c)
        /\ At(polled, polled', c)
    BY <1>1, <1>4, Set1, Set0
  <2> QED BY <1>1, <2>1, OnlyIs
<1>6. /\ pc'[c] \in {"try", "finish"} /\ call'[c] \in CallSet /\ call'[c].batch = <<>>
      /\ call'[c].arts = call[c].arts /\ call'[c].tries = call[c].tries
  BY <1>2, <1>3, <1>4 DEF Shapes
<1>7. SlotsInv'
  BY <1>1, <1>5, <1>6, SlotsSame DEF Calling
<1>8. Placed(c)'
  BY <1>1, <1>2, <1>6 DEF Good, Placed, IsVideo, Labels, Running
<1>9. JobInv(c)'
  BY <1>1, <1>2, <1>6 DEF Good, JobInv, IsVideo, Running
<1>10. RowInv(c)'
  BY <1>1, <1>2, <1>6, NoneApart DEF Good, RowInv, IsVideo, Got
<1>11. PictureInv(c)' /\ WaitInv(c)'
  BY <1>1, <1>2, <1>6 DEF Good, PictureInv, WaitInv
<1> QED BY <1>5, <1>7, <1>8, <1>9, <1>10, <1>11 DEF Good

(* The row of a video says whether the call brought one.                   *)
LEMMA RecordVideoKeeps ==
  ASSUME Shapes, SlotsInv, NEW c \in Callers, Good(c), RecordVideo(c)
  PROVE  Only(c) /\ Good(c)' /\ SlotsInv'
<1>1. /\ plan' = plan /\ restarts' = restarts /\ inflight' = inflight /\ table' = table
      /\ jobs' = jobs /\ call' = call /\ answer' = answer
      /\ pc' = [pc EXCEPT ![c] = "finish"]
      /\ row' = [row EXCEPT ![c] = IF Got(c) THEN 200 ELSE 502]
      /\ polled' = [polled EXCEPT ![c] = <<>>]
      /\ pc[c] = "returned" /\ IsVideo(c)
  BY DEF RecordVideo, Record, Goto, client, table
<1>2. /\ pc'[c] = "finish" /\ row'[c] = (IF Got(c) THEN 200 ELSE 502) /\ polled'[c] = <<>>
      /\ Got(c)' = Got(c)
  BY <1>1 DEF Shapes, Got
<1>3. Only(c)
  <2>1. At(pc, pc', c) /\ At(polled, polled', c)
    BY <1>1, Set1
  <2>2. At(call, call', c) /\ At(answer, answer', c)
    BY <1>1, Set0
  <2>3. At(row, row', c)
    BY <1>1 DEF At
  <2> QED BY <1>1, <2>1, <2>2, <2>3, OnlyIs
<1>4. SlotsInv'
  BY <1>1, <1>2, <1>3, SlotsSame DEF Calling
<1>5. Placed(c)'
  BY <1>1, <1>2 DEF Good, Placed, IsVideo, Labels, Running
<1>6. JobInv(c)'
  BY <1>1, <1>2 DEF Good, JobInv, IsVideo, Running
<1>7. answer[c] = None
  BY <1>1 DEF Good, RowInv
<1>8. c \in DOMAIN jobs => jobs[c].status = "in_progress"
  BY <1>1 DEF Good, JobInv, Running
<1>9. RowInv(c)'
  BY <1>1, <1>2, <1>7, <1>8 DEF RowInv, IsVideo, Calling
<1>10. PictureInv(c)' /\ WaitInv(c)'
  BY <1>1, <1>2, <1>7 DEF Good, PictureInv, WaitInv
<1> QED BY <1>3, <1>4, <1>5, <1>6, <1>9, <1>10 DEF Good

(* The end of a job: its video, or the failure that a reason follows.      *)
LEMMA FinishKeeps ==
  ASSUME Shapes, SlotsInv, NEW c \in Callers, Good(c), Finish(c)
  PROVE  Only(c) /\ Good(c)' /\ SlotsInv'
<1>1. /\ plan' = plan /\ restarts' = restarts /\ inflight' = inflight /\ old' = old
      /\ row' = row /\ answer' = answer /\ pc[c] = "finish"
  BY DEF Finish, client
<1>2. IsVideo(c) /\ answer[c] = None /\ call[c] \in CallSet /\ (Got(c) <=> row[c] = 200)
  BY <1>1 DEF Good, Placed, RowInv
<1>3. c \in DOMAIN jobs => /\ jobs[c] \in JobSet /\ jobs[c].status = "in_progress"
                           /\ jobs[c].error = None /\ jobs[c].mp4 = None
  BY <1>1 DEF Good, JobInv, Running
<1>4. CASE Got(c)
  <2> DEFINE done == [status |-> "completed", error |-> None, mp4 |-> Head(call[c].batch)]
  <2>1. Head(call[c].batch) \in Arts
    BY <1>2, <1>4 DEF Got, CallSet
  <2>2. done \in JobSet /\ done.status = "completed" /\ done.error = None /\ done.mp4 # None
    BY <2>1, JobSetIs, NoneApart
  <2>3. /\ pc' = [pc EXCEPT ![c] = "done"] /\ call' = [call EXCEPT ![c] = NewLoop]
        /\ polled' = [polled EXCEPT ![c] = <<>>]
        /\ jobs' = IF c \in DOMAIN jobs THEN [jobs EXCEPT ![c] = done] ELSE jobs
    BY <1>4 DEF Finish, Ends, Goto
  <2> HIDE DEF done
  <2>4. /\ pc'[c] = "done" /\ call'[c] = NewLoop /\ polled'[c] = <<>>
        /\ DOMAIN jobs' = DOMAIN jobs
        /\ \A d \in DOMAIN jobs \ {c} : jobs'[d] = jobs[d]
        /\ c \in DOMAIN jobs => jobs'[c] = done
    BY <2>3 DEF Shapes
  <2>5. old' \subseteq DOMAIN jobs'
    BY <1>1, <2>4 DEF Shapes
  <2>6. Only(c)
    BY <1>1, <2>3, <2>4, <2>5, Set1, Set0 DEF Only
  <2>7. SlotsInv'
    BY <1>1, <2>4, <2>6, SlotsSame DEF Calling
  <2>8. Placed(c)'
    BY <1>1, <2>4, NewLoopIs DEF Placed, IsVideo, Labels
  <2>10. plan' = plan
    BY <1>1
  <2>11. JobInv(c)'
    BY <1>2, <2>2, <2>4, <2>10 DEF JobInv, IsVideo, Running, Calling, Terminal
  <2>12. RowInv(c)'
    BY <1>1, <1>2, <1>4, <2>2, <2>4 DEF RowInv, IsVideo, Calling
  <2>13. PictureInv(c)' /\ WaitInv(c)'
    BY <1>1, <1>2, <2>4, NewLoopIs DEF PictureInv, WaitInv, Genuine
  <2> QED BY <2>6, <2>7, <2>8, <2>11, <2>12, <2>13 DEF Good
<1>5. CASE ~Got(c)
  <2>1. /\ pc' = [pc EXCEPT ![c] = "reason"] /\ call' = call /\ polled' = polled
        /\ SetJob(c, "status", "failed")
    BY <1>5 DEF Finish, Goto
  <2>2. /\ DOMAIN jobs' = DOMAIN jobs
        /\ \A d \in DOMAIN jobs \ {c} : jobs'[d] = jobs[d]
        /\ c \in DOMAIN jobs => /\ jobs'[c] \in JobSet /\ jobs'[c].status = "failed"
                                /\ jobs'[c].error = jobs[c].error /\ jobs'[c].mp4 = jobs[c].mp4
    BY <1>3, <2>1, SetStatus DEF Terminal
  <2>3. pc'[c] = "reason" /\ call'[c] = call[c] /\ polled'[c] = polled[c]
    BY <2>1 DEF Shapes
  <2>4. old' \subseteq DOMAIN jobs'
    BY <1>1, <2>2 DEF Shapes
  <2>5. Only(c)
    BY <1>1, <2>1, <2>2, <2>4, Set1, Set0 DEF Only
  <2>6. SlotsInv'
    BY <1>1, <2>3, <2>5, SlotsSame DEF Calling
  <2>7. call[c].batch = <<>>
    BY <1>5 DEF Got
  <2>8. Placed(c)'
    BY <1>1, <1>2, <2>3, <2>7 DEF Good, Placed, IsVideo, Labels
  <2>9. JobInv(c)'
    BY <1>1, <1>2, <1>3, <2>2, <2>3 DEF JobInv, IsVideo, Running, Calling, Terminal
  <2>10. row[c] # 200
    BY <1>2, <1>5
  <2>11. RowInv(c)'
    BY <1>1, <1>2, <2>2, <2>3, <2>10 DEF RowInv, IsVideo, Calling
  <2>12. PictureInv(c)' /\ WaitInv(c)'
    BY <1>1, <1>2, <2>3 DEF Good, PictureInv, WaitInv
  <2> QED BY <2>5, <2>6, <2>8, <2>9, <2>11, <2>12 DEF Good
<1> QED BY <1>4, <1>5

LEMMA ReasonKeeps ==
  ASSUME Shapes, SlotsInv, NEW c \in Callers, Good(c), Reason(c)
  PROVE  Only(c) /\ Good(c)' /\ SlotsInv'
<1>1. /\ plan' = plan /\ restarts' = restarts /\ inflight' = inflight /\ old' = old
      /\ row' = row /\ answer' = answer /\ pc[c] = "reason"
      /\ pc' = [pc EXCEPT ![c] = "done"] /\ call' = [call EXCEPT ![c] = NewLoop]
      /\ polled' = [polled EXCEPT ![c] = <<>>]
      /\ SetJob(c, "error", call[c].result)
  BY DEF Reason, Ends, Goto, client
<1>2. IsVideo(c) /\ answer[c] = None /\ call[c] \in CallSet /\ row[c] # 200
  BY <1>1 DEF Good, Placed, RowInv
<1>3. c \in DOMAIN jobs => jobs[c] \in JobSet /\ jobs[c].status = "failed" /\ jobs[c].mp4 = None
  BY <1>1 DEF Good, JobInv
<1>4. call[c].result \in Results \cup {None}
  BY <1>2 DEF CallSet
<1>5. /\ DOMAIN jobs' = DOMAIN jobs
      /\ \A d \in DOMAIN jobs \ {c} : jobs'[d] = jobs[d]
      /\ c \in DOMAIN jobs => /\ jobs'[c] \in JobSet /\ jobs'[c].status = "failed"
                              /\ jobs'[c].mp4 = None
  BY <1>1, <1>3, <1>4, SetError
<1>6. pc'[c] = "done" /\ call'[c] = NewLoop /\ polled'[c] = <<>>
  BY <1>1 DEF Shapes
<1>7. old' \subseteq DOMAIN jobs'
  BY <1>1, <1>5 DEF Shapes
<1>8. Only(c)
  BY <1>1, <1>5, <1>7, Set1, Set0 DEF Only
<1>9. SlotsInv'
  BY <1>1, <1>6, <1>8, SlotsSame DEF Calling
<1>10. Placed(c)'
  BY <1>6, NewLoopIs DEF Placed, IsVideo, Labels
<1>11. JobInv(c)'
  BY <1>1, <1>2, <1>5, <1>6 DEF JobInv, IsVideo, Running, Calling, Terminal
<1>12. RowInv(c)'
  BY <1>1, <1>2, <1>5, <1>6 DEF RowInv, IsVideo, Calling
<1>13. PictureInv(c)' /\ WaitInv(c)'
  BY <1>1, <1>2, <1>6, NewLoopIs DEF PictureInv, WaitInv, Genuine
<1> QED BY <1>8, <1>9, <1>10, <1>11, <1>12, <1>13 DEF Good

-----------------------------------------------------------------------------
(* One call.                                                               *)

(* Without a slot there is no call, only a result.                         *)
LEMMA NoSlotKeeps ==
  ASSUME Shapes, SlotsInv, NEW c \in Callers, Good(c), NoSlot(c)
  PROVE  Only(c) /\ Good(c)' /\ SlotsInv'
<1> DEFINE k1 == [call[c] EXCEPT !.result = "limit"]
           none == <<>>
           k2 == [k1 EXCEPT !.batch = none]
<1>1. /\ plan' = plan /\ restarts' = restarts /\ inflight' = inflight /\ table' = table
      /\ jobs' = jobs /\ row' = row /\ answer' = answer /\ polled' = polled
      /\ pc[c] = "try" /\ pc' = [pc EXCEPT ![c] = "returned"]
  BY DEF NoSlot, client, table, Goto
<1>2. call' = [call EXCEPT ![c] = k2]
  BY DEF NoSlot, Shapes
<1>3. call[c] \in CallSet
  BY DEF Good, Placed
<1>4. k1 \in CallSet /\ k1.result = "limit" /\ k1.arts = call[c].arts /\ k1.tries = call[c].tries
  BY <1>3, SetResult DEF Results
<1>0. none \in Seq(Arts)
  OBVIOUS
<1> HIDE DEF k1, none
<1>5. /\ k2 \in CallSet /\ k2.result = "limit" /\ k2.batch = none
      /\ k2.arts = call[c].arts /\ k2.tries = call[c].tries
  BY <1>0, <1>4, SetBatch
<1> HIDE DEF k2
<1> USE DEF none
<1>6. pc'[c] = "returned" /\ call'[c] = k2
  BY <1>1, <1>2 DEF Shapes
<1>7. Only(c)
  <2>1. /\ At(pc, pc', c) /\ At(call, call', c) /\ At(row, row', c) /\ At(answer, answer', c)
        /\ At(polled, polled', c)
    BY <1>1, <1>2, Set1, Set0
  <2> QED BY <1>1, <2>1, OnlyIs
<1>8. SlotsInv'
  BY <1>1, <1>6, <1>7, SlotsSame DEF Calling
<1>9. Placed(c)'
  BY <1>1, <1>5, <1>6 DEF Good, Placed, IsVideo, Labels, Running
<1>10. JobInv(c)'
  BY <1>1, <1>6 DEF Good, JobInv, IsVideo, Running
<1>11. answer[c] = None
  BY <1>1 DEF Good, RowInv
<1>12. RowInv(c)'
  BY <1>1, <1>6, <1>11 DEF Good, RowInv, IsVideo
<1>13. ~Contains(<<>>, "echo")
  BY DEF Contains
<1>14. PictureInv(c)'
  BY <1>1, <1>5, <1>6, <1>11, <1>13 DEF Good, PictureInv
<1>15. WaitInv(c)'
  BY <1>5, <1>6 DEF WaitInv
<1> QED BY <1>7, <1>8, <1>9, <1>10, <1>12, <1>14, <1>15 DEF Good

(* A call that returns gives its slot back; what it says of the history is *)
(* so in what it polled.                                                   *)
Says(polls, result) ==
  /\ result = "text only" =>
       \E i \in DOMAIN polls : polls[Len(polls)][1] - polls[i][1] >= TextOnlyFor /\ TextsSince(polls, i)
  /\ result = "nothing" => polls # <<>>

LEMMA BackKeeps ==
  ASSUME Shapes, SlotsInv, NEW c \in Callers, Good(c), pc[c] \in Calling,
         plan' = plan, restarts' = restarts, table' = table, row' = row, answer' = answer,
         At(polled, polled', c), polled'[c] \in Seq(Nat \X Bodies),
         NEW result \in Results, NEW batch \in Seq(Arts),
         Contains(batch, "echo") => plan[c].files, Says(polled'[c], result),
         Back(c, result, batch)
  PROVE  Only(c) /\ Good(c)' /\ SlotsInv'
<1> DEFINE k0 == Loop(c)
           k1 == [k0 EXCEPT !.result = result]
           k2 == [k1 EXCEPT !.batch = batch]
<1>1. /\ pc' = [pc EXCEPT ![c] = "returned"] /\ inflight' = inflight - 1
      /\ call' = [call EXCEPT ![c] = k2]
  BY DEF Back, Goto
<1>2. jobs' = jobs
  BY DEF table
<1>3. call[c] \in CallSet
  BY DEF Good, Placed
<1>4. k0 \in CallSet /\ k0.arts = call[c].arts /\ k0.tries = call[c].tries
  BY <1>3, LoopIs
<1> HIDE DEF k0
<1>5. k1 \in CallSet /\ k1.result = result /\ k1.arts = call[c].arts /\ k1.tries = call[c].tries
  BY <1>4, SetResult
<1> HIDE DEF k1
<1>6. /\ k2 \in CallSet /\ k2.result = result /\ k2.batch = batch
      /\ k2.arts = call[c].arts /\ k2.tries = call[c].tries
  BY <1>5, SetBatch
<1> HIDE DEF k2
<1>7. pc'[c] = "returned" /\ call'[c] = k2
  BY <1>1 DEF Shapes
<1>8. Only(c)
  <2>1. At(pc, pc', c) /\ At(call, call', c) /\ At(row, row', c) /\ At(answer, answer', c)
    BY <1>1, Set1, Set0
  <2> QED BY <2>1, OnlyIs
<1>9. SlotsInv'
  BY <1>1, <1>7, <1>8, SlotReturned DEF Calling
<1>10. Placed(c)'
  BY <1>6, <1>7 DEF Placed, IsVideo, Labels, Running
<1>11. JobInv(c)'
  BY <1>2, <1>7 DEF Good, JobInv, IsVideo, Running
<1>12. answer[c] = None
  BY DEF Good, RowInv, Calling
<1>13. RowInv(c)'
  BY <1>2, <1>7, <1>12 DEF Good, RowInv, IsVideo
<1>14. PictureInv(c)'
  BY <1>6, <1>7, <1>12 DEF Good, PictureInv
<1>15. WaitInv(c)'
  BY <1>6, <1>7 DEF WaitInv, Says
<1> QED BY <1>8, <1>9, <1>10, <1>11, <1>13, <1>14, <1>15 DEF Good

(* A call begins with a slot and without anything of the call before.      *)
LEMMA TakeSlotKeeps ==
  ASSUME Shapes, SlotsInv, NEW c \in Callers, Good(c), TakeSlot(c)
  PROVE  Only(c) /\ Good(c)' /\ SlotsInv'
<1> DEFINE k0 == Loop(c)
           first == 1
           k1 == [k0 EXCEPT !.posts = first]
<1>1. /\ plan' = plan /\ restarts' = restarts /\ table' = table
      /\ jobs' = jobs /\ row' = row /\ answer' = answer /\ polled' = polled
      /\ pc[c] = "try" /\ pc' = [pc EXCEPT ![c] = "post"] /\ call' = [call EXCEPT ![c] = k1]
  BY DEF TakeSlot, client, table, Goto
<1>2. inflight < Slots /\ inflight' = inflight + 1
  BY DEF TakeSlot
<1>3. call[c] \in CallSet
  BY DEF Good, Placed
<1>4. /\ k0 \in CallSet /\ k0.arts = call[c].arts /\ k0.tries = call[c].tries
      /\ k0.polls = 0 /\ k0.since = None /\ k0.batch = <<>>
  BY <1>3, LoopIs
<1>0. first \in 0..Posts
  BY Numbers
<1> HIDE DEF k0, first
<1>5. /\ k1 \in CallSet /\ k1.arts = call[c].arts /\ k1.tries = call[c].tries
      /\ k1.polls = 0 /\ k1.since = None /\ k1.batch = <<>>
  BY <1>0, <1>4 DEF CallSet
<1> HIDE DEF k1
<1>6. pc'[c] = "post" /\ call'[c] = k1
  BY <1>1 DEF Shapes
<1>7. Only(c)
  <2>1. /\ At(pc, pc', c) /\ At(call, call', c) /\ At(row, row', c) /\ At(answer, answer', c)
        /\ At(polled, polled', c)
    BY <1>1, Set1, Set0
  <2> QED BY <1>1, <2>1, OnlyIs
<1>8. SlotsInv'
  BY <1>1, <1>2, <1>6, <1>7, SlotTaken DEF Calling
<1>9. Placed(c)'
  BY <1>1, <1>5, <1>6 DEF Good, Placed, IsVideo, Labels, Running, Calling
<1>10. JobInv(c)'
  BY <1>1, <1>6 DEF Good, JobInv, IsVideo, Running, Calling
<1>11. answer[c] = None
  BY <1>1 DEF Good, RowInv
<1>12. RowInv(c)'
  BY <1>1, <1>6, <1>11 DEF Good, RowInv, IsVideo
<1>13. PictureInv(c)'
  BY <1>1, <1>5, <1>6, <1>11 DEF Good, PictureInv
<1>14. WaitInv(c)'
  BY <1>5, <1>6 DEF WaitInv
<1> QED BY <1>7, <1>8, <1>9, <1>10, <1>12, <1>13, <1>14 DEF Good

(* A step within the call: only its own clock, counters and history move.  *)
LEMMA WithinKeeps ==
  ASSUME Shapes, SlotsInv, NEW c \in Callers, Good(c), pc[c] \in Calling,
         plan' = plan, restarts' = restarts, table' = table, row' = row, answer' = answer,
         inflight' = inflight,
         At(polled, polled', c), polled'[c] \in Seq(Nat \X Bodies),
         At(pc, pc', c), pc'[c] \in Calling,
         At(call, call', c), call'[c] \in CallSet, call'[c].batch = <<>>,
         call'[c].arts = call[c].arts, call'[c].tries = call[c].tries,
         WaitInv(c)'
  PROVE  Only(c) /\ Good(c)' /\ SlotsInv'
<1>1. jobs' = jobs
  BY DEF table
<1>2. At(row, row', c) /\ At(answer, answer', c)
  BY Set0
<1>3. Only(c)
  BY <1>2, OnlyIs
<1>4. SlotsInv'
  BY <1>3, SlotsSame
<1>5. answer[c] = None
  BY DEF Good, RowInv, Calling
<1>6. Placed(c)'
  BY DEF Placed, IsVideo, Labels, Running, Calling
<1>7. JobInv(c)'
  BY <1>1 DEF Good, JobInv, IsVideo, Running, Calling
<1>8. RowInv(c)'
  BY <1>1, <1>5 DEF Good, RowInv, IsVideo, Calling
<1>9. PictureInv(c)'
  BY <1>5 DEF Good, PictureInv, Calling
<1> QED BY <1>3, <1>4, <1>6, <1>7, <1>8, <1>9 DEF Good

LEMMA CallIs ==
  ASSUME NEW c \in Callers, Good(c), pc[c] \in Calling
  PROVE  /\ call[c] \in CallSet /\ call[c].batch = <<>> /\ polled[c] \in Seq(Nat \X Bodies)
         /\ ~Contains(call[c].batch, "echo")
  BY DEF Good, Placed, Calling, Contains

LEMMA DelayNat == ASSUME NEW c, NEW d \in Delays(c) PROVE d \in Nat
  BY Numbers DEF Delays

LEMMA NothingIn == <<>> \in Seq(Arts) /\ ~Contains(<<>>, "echo")
  BY DEF Contains

LEMMA PostFailsKeeps ==
  ASSUME Shapes, SlotsInv, NEW c \in Callers, Good(c), PostFails(c)
  PROVE  Only(c) /\ Good(c)' /\ SlotsInv'
<1>1. /\ plan' = plan /\ restarts' = restarts /\ table' = table
      /\ row' = row /\ answer' = answer /\ polled' = polled /\ pc[c] = "post"
  BY DEF PostFails, client
<1>2. pc[c] \in Calling
  BY <1>1 DEF Calling
<1>3. At(polled, polled', c) /\ polled'[c] \in Seq(Nat \X Bodies)
  BY <1>1, <1>2, CallIs, Set0
<1>4. CASE call[c].posts < Posts
  <2>1. PICK d \in Delays(c) :
          call' = [call EXCEPT ![c].posts = @ + 1, ![c].spent = @ + d]
    BY <1>4 DEF PostFails
  <2>2. pc' = pc /\ inflight' = inflight
    BY <1>4 DEF PostFails
  <2> DEFINE n == call[c].posts + 1
             k1 == [call[c] EXCEPT !.posts = n]
             s == k1.spent + d
             k2 == [k1 EXCEPT !.spent = s]
  <2>3. call' = [call EXCEPT ![c] = k2]
    BY <2>1 DEF Shapes
  <2>4. call[c] \in CallSet /\ n \in 0..Posts
    <3>1. call[c] \in CallSet
      BY <1>2, CallIs
    <3>2. call[c].posts \in 0..Posts
      BY <3>1, Fields
    <3> QED BY <1>4, <3>1, <3>2, Numbers
  <2> HIDE DEF n
  <2>5. /\ k1 \in CallSet /\ k1.batch = call[c].batch /\ k1.arts = call[c].arts
        /\ k1.tries = call[c].tries /\ k1.polls = call[c].polls /\ k1.since = call[c].since
    BY <2>4 DEF CallSet
  <2> HIDE DEF k1
  <2>6. s \in Nat
    BY <2>5, DelayNat DEF CallSet
  <2> HIDE DEF s
  <2>7. /\ k2 \in CallSet /\ k2.batch = k1.batch /\ k2.arts = k1.arts
        /\ k2.tries = k1.tries /\ k2.polls = k1.polls /\ k2.since = k1.since
    BY <2>5, <2>6 DEF CallSet
  <2> HIDE DEF k2
  <2>8. call'[c] = k2 /\ At(call, call', c) /\ At(pc, pc', c) /\ pc'[c] = "post"
    BY <1>1, <2>2, <2>3, Set1, Set0 DEF Shapes
  <2>9. call[c].polls = 0 /\ call[c].since = None
    BY <1>1 DEF Good, WaitInv
  <2>10. WaitInv(c)'
    BY <2>5, <2>7, <2>8, <2>9 DEF WaitInv
  <2>11. /\ call'[c] \in CallSet /\ call'[c].batch = <<>>
         /\ call'[c].arts = call[c].arts /\ call'[c].tries = call[c].tries /\ pc'[c] \in Calling
    BY <1>2, <2>5, <2>7, <2>8, CallIs DEF Calling
  <2> QED BY <1>1, <1>2, <1>3, <2>2, <2>8, <2>10, <2>11, WithinKeeps
<1>5. CASE ~(call[c].posts < Posts)
  <2>1. Back(c, "upstream", <<>>)
    BY <1>5 DEF PostFails, Returns
  <2>2. Says(polled'[c], "upstream") /\ "upstream" \in Results
    BY DEF Says, Results
  <2> QED BY <1>1, <1>2, <1>3, <2>1, <2>2, NothingIn, BackKeeps
<1> QED BY <1>4, <1>5

LEMMA PostTimesOutKeeps ==
  ASSUME Shapes, SlotsInv, NEW c \in Callers, Good(c), PostTimesOut(c)
  PROVE  Only(c) /\ Good(c)' /\ SlotsInv'
<1>1. /\ plan' = plan /\ restarts' = restarts /\ table' = table
      /\ row' = row /\ answer' = answer /\ polled' = polled /\ pc[c] = "post"
      /\ Back(c, "upstream", <<>>)
  BY DEF PostTimesOut, Returns, client
<1>2. pc[c] \in Calling
  BY <1>1 DEF Calling
<1>3. At(polled, polled', c) /\ polled'[c] \in Seq(Nat \X Bodies)
  BY <1>1, <1>2, CallIs, Set0
<1>4. Says(polled'[c], "upstream") /\ "upstream" \in Results
  BY DEF Says, Results
<1> QED BY <1>1, <1>2, <1>3, <1>4, NothingIn, BackKeeps

(* A call that was answered has time left to ask the history.              *)
LEMMA PostAnswersKeeps ==
  ASSUME Shapes, SlotsInv, NEW c \in Callers, Good(c), PostAnswers(c)
  PROVE  Only(c) /\ Good(c)' /\ SlotsInv'
<1>1. /\ plan' = plan /\ restarts' = restarts /\ table' = table /\ inflight' = inflight
      /\ row' = row /\ answer' = answer /\ polled' = polled /\ pc[c] = "post"
      /\ pc' = [pc EXCEPT ![c] = "download"] \/ pc' = [pc EXCEPT ![c] = "poll"]
  BY DEF PostAnswers, Goto, client
<1>2. pc[c] \in Calling
  BY <1>1 DEF Calling
<1>3. At(polled, polled', c) /\ polled'[c] \in Seq(Nat \X Bodies)
  BY <1>1, <1>2, CallIs, Set0
<1>4. PICK d \in Delays(c) :
        call' = [call EXCEPT ![c].spent = call[c].spent + d,
                             ![c].limit = Limit(call[c].spent + d)]
  BY DEF PostAnswers
<1> DEFINE s == call[c].spent + d
           l == Limit(s)
           k1 == [call[c] EXCEPT !.spent = s]
           k2 == [k1 EXCEPT !.limit = l]
<1>5. call' = [call EXCEPT ![c] = k2]
  BY <1>4 DEF Shapes
<1>6. call[c] \in CallSet /\ call[c].batch = <<>>
  BY <1>2, CallIs
<1>7. s \in Nat
  BY <1>6, DelayNat DEF CallSet
<1> HIDE DEF s
<1>8. l \in Int /\ s <= l
  BY <1>7, LimitLater
<1> HIDE DEF l
<1>9. /\ k1 \in CallSet /\ k1.batch = call[c].batch /\ k1.arts = call[c].arts
      /\ k1.tries = call[c].tries /\ k1.polls = call[c].polls /\ k1.since = call[c].since
      /\ k1.spent = s
  BY <1>6, <1>7 DEF CallSet
<1> HIDE DEF k1
<1>10. /\ k2 \in CallSet /\ k2.batch = k1.batch /\ k2.arts = k1.arts
       /\ k2.tries = k1.tries /\ k2.polls = k1.polls /\ k2.since = k1.since
       /\ k2.spent = s /\ k2.limit = l
  BY <1>8, <1>9 DEF CallSet
<1> HIDE DEF k2
<1>11. call'[c] = k2 /\ At(call, call', c) /\ At(pc, pc', c) /\ pc'[c] \in {"download", "poll"}
  BY <1>1, <1>5, Set1 DEF Shapes
<1>12. call[c].polls = 0 /\ call[c].since = None
  BY <1>1 DEF Good, WaitInv
<1>13. WaitInv(c)'
  BY <1>8, <1>9, <1>10, <1>11, <1>12 DEF WaitInv
<1>14. /\ call'[c] \in CallSet /\ call'[c].batch = <<>>
       /\ call'[c].arts = call[c].arts /\ call'[c].tries = call[c].tries /\ pc'[c] \in Calling
  BY <1>6, <1>9, <1>10, <1>11 DEF Calling
<1> QED BY <1>1, <1>2, <1>3, <1>11, <1>13, <1>14, WithinKeeps

(* The text the wait started with is in the history, and only texts and    *)
(* failures after it.                                                      *)
Started(polls, since) ==
  since # None => \E i \in DOMAIN polls : polls[i][1] = since /\ TextsSince(polls, i)

LEMMA StartedOn ==
  ASSUME NEW p \in Seq(Nat \X Bodies), NEW since \in Nat \cup {None}, Started(p, since),
         NEW s \in Nat, NEW body \in {"text", "failed"}
  PROVE  /\ Started(Append(p, <<s, body>>), since)
         /\ body = "text" => Started(Append(p, <<s, body>>), s)
<1> DEFINE q == Append(p, <<s, body>>)
<1>1. /\ Len(q) = Len(p) + 1 /\ q[Len(q)] = <<s, body>> /\ Len(p) \in Nat
      /\ \A j \in 1..Len(p) : q[j] = p[j]
      /\ DOMAIN q = 1..Len(q) /\ DOMAIN p = 1..Len(p)
  OBVIOUS
<1> HIDE DEF q
<1>2. ASSUME NEW i \in DOMAIN p, TextsSince(p, i) PROVE i \in DOMAIN q /\ TextsSince(q, i)
  <2>1. i \in 1..Len(p) /\ i \in DOMAIN q
    BY <1>1
  <2>2. ASSUME NEW j \in i..Len(q) PROVE q[j][2] \in {"text", "failed"}
    <3>1. CASE j = Len(q)
      BY <1>1, <3>1
    <3>2. CASE j # Len(q)
      <4>1. j \in i..Len(p) /\ j \in 1..Len(p)
        BY <1>1, <2>1, <3>2
      <4> QED BY <1>1, <1>2, <4>1 DEF TextsSince
    <3> QED BY <3>1, <3>2
  <2> QED BY <2>1, <2>2 DEF TextsSince
<1>3. Started(q, since)
  <2> SUFFICES ASSUME since # None PROVE Started(q, since)
    BY DEF Started
  <2>1. PICK i \in DOMAIN p : p[i][1] = since /\ TextsSince(p, i)
    BY DEF Started
  <2>2. i \in DOMAIN q /\ TextsSince(q, i) /\ q[i][1] = since
    BY <1>1, <1>2, <2>1
  <2> QED BY <2>2 DEF Started
<1>4. Started(q, s)
  <2>1. Len(q) \in DOMAIN q /\ q[Len(q)][1] = s
    BY <1>1
  <2>2. TextsSince(q, Len(q))
    BY <1>1 DEF TextsSince
  <2> QED BY <2>1, <2>2 DEF Started
<1> QED BY <1>3, <1>4 DEF q

LEMMA PollsIs == ASSUME NEW c \in Callers, Good(c), pc[c] = "poll"
                 PROVE Started(polled[c], call[c].since)
  BY DEF Good, WaitInv, Started

(* One poll, by what it got.                                               *)
LEMMA PollKeeps ==
  ASSUME Shapes, SlotsInv, NEW c \in Callers, Good(c), Poll(c)
  PROVE  Only(c) /\ Good(c)' /\ SlotsInv'
<1>1. /\ plan' = plan /\ restarts' = restarts /\ table' = table
      /\ row' = row /\ answer' = answer /\ pc[c] = "poll"
  BY DEF Poll, client
<1>2. pc[c] \in Calling /\ call[c].polls < MaxPolls
  BY <1>1 DEF Calling, Poll, Polls
<1> DEFINE s == call[c].spent
<1>3. PICK body \in (IF IsVideo(c) THEN Bodies ELSE {"failed", "link"}) :
        LET since == IF IsVideo(c) THEN Since(c, body) ELSE None
            verdict == body \in {"text", "other"} /\ Waited(since, call[c].spent)
        IN /\ polled' = [polled EXCEPT ![c] = Append(@, <<call[c].spent, body>>)]
           /\ CASE body = "link" -> /\ Goto(c, "download")
                                    /\ UNCHANGED <<call, inflight>>
                [] body = "refused" -> Returns(c, "refused")
                [] verdict -> Returns(c, "text only")
                [] OTHER -> /\ call' = [call EXCEPT ![c].polls = @ + 1, ![c].spent = @ + 1,
                                                    ![c].since = since]
                            /\ UNCHANGED <<pc, inflight>>
  BY DEF Poll
<1> DEFINE since == IF IsVideo(c) THEN Since(c, body) ELSE None
           verdict == body \in {"text", "other"} /\ Waited(since, s)
           q == Append(polled[c], <<s, body>>)
<1>4. /\ polled' = [polled EXCEPT ![c] = q]
      /\ body = "link" => Goto(c, "download") /\ UNCHANGED <<call, inflight>>
      /\ body = "refused" => Returns(c, "refused")
      /\ verdict => Returns(c, "text only")
      /\ body \notin {"link", "refused"} /\ ~verdict =>
           /\ call' = [call EXCEPT ![c].polls = @ + 1, ![c].spent = @ + 1, ![c].since = since]
           /\ UNCHANGED <<pc, inflight>>
  BY <1>3
<1>5. call[c] \in CallSet /\ call[c].batch = <<>> /\ polled[c] \in Seq(Nat \X Bodies)
  BY <1>2, CallIs
<1>6. s \in Nat /\ call[c].since \in Nat \cup {None}
  BY <1>5 DEF CallSet
<1>7. body \in Bodies /\ (body \in {"text", "other", "refused"} => IsVideo(c))
  BY DEF Bodies
<1>8. q \in Seq(Nat \X Bodies) /\ q # <<>> /\ Len(q) \in DOMAIN q /\ q[Len(q)][1] = s
  BY <1>5, <1>6, <1>7
<1>9. since \in Nat \cup {None} /\ Started(q, since)
  <2>1. Started(polled[c], call[c].since)
    BY <1>1, PollsIs
  <2>2. CASE since = None
    BY <2>2 DEF Started
  <2>3. CASE since # None
    <3>1. IsVideo(c) /\ since = Since(c, body)
      BY <2>3
    <3>2. \/ body = "failed" /\ since = call[c].since
          \/ body = "text" /\ since = call[c].since
          \/ body = "text" /\ since = s
      BY <2>3, <3>1 DEF Since
    <3> HIDE DEF since, s
    <3>3. body \in {"text", "failed"}
      BY <3>2
    <3>4. Started(q, call[c].since) /\ (body = "text" => Started(q, s))
      BY <1>5, <1>6, <2>1, <3>3, StartedOn DEF s
    <3> QED BY <1>6, <3>2, <3>4
  <2> QED BY <2>2, <2>3
<1>10. verdict => body = "text" /\ since # None /\ s - since >= TextOnlyFor
  BY <1>7 DEF Waited, Since
<1> HIDE DEF q, since, s, verdict
<1>11. At(polled, polled', c) /\ polled'[c] = q
  BY <1>4, Set1 DEF Shapes
<1>12. CASE body = "link"
  <2>1. pc' = [pc EXCEPT ![c] = "download"] /\ call' = call /\ inflight' = inflight
    BY <1>4, <1>12 DEF Goto
  <2>2. At(pc, pc', c) /\ At(call, call', c) /\ pc'[c] = "download"
    BY <2>1, Set1, Set0 DEF Shapes
  <2>3. WaitInv(c)'
    BY <2>2 DEF WaitInv
  <2>4. pc'[c] \in Calling
    BY <2>2 DEF Calling
  <2>5. call'[c] \in CallSet /\ call'[c].batch = <<>>
    BY <1>5, <2>1
  <2> QED BY <1>1, <1>2, <1>8, <1>11, <2>1, <2>2, <2>3, <2>4, <2>5, WithinKeeps
<1>13. CASE body = "refused"
  <2>1. Back(c, "refused", <<>>)
    BY <1>4, <1>13 DEF Returns
  <2>2. Says(polled'[c], "refused") /\ "refused" \in Results
    BY DEF Says, Results
  <2> QED BY <1>1, <1>2, <1>8, <1>11, <2>1, <2>2, NothingIn, BackKeeps
<1>14. CASE verdict
  <2>1. Back(c, "text only", <<>>)
    BY <1>4, <1>14 DEF Returns
  <2>2. PICK i \in DOMAIN q : q[i][1] = since /\ TextsSince(q, i)
    BY <1>9, <1>10, <1>14 DEF Started
  <2>3. q[Len(q)][1] - q[i][1] >= TextOnlyFor
    BY <1>8, <1>10, <1>14, <2>2
  <2>4. Says(polled'[c], "text only") /\ "text only" \in Results
    BY <1>11, <2>2, <2>3 DEF Says, Results
  <2> QED BY <1>1, <1>2, <1>8, <1>11, <2>1, <2>4, NothingIn, BackKeeps
<1>15. CASE body \notin {"link", "refused"} /\ ~verdict
  <2>1. /\ call' = [call EXCEPT ![c].polls = @ + 1, ![c].spent = @ + 1, ![c].since = since]
        /\ pc' = pc /\ inflight' = inflight
    BY <1>4, <1>15
  <2> DEFINE n == call[c].polls + 1
             k1 == [call[c] EXCEPT !.polls = n]
             t == k1.spent + 1
             k2 == [k1 EXCEPT !.spent = t]
             k3 == [k2 EXCEPT !.since = since]
  <2>2. call' = [call EXCEPT ![c] = k3]
    BY <2>1 DEF Shapes
  <2>3. n \in 0..MaxPolls
    <3>1. call[c].polls \in 0..MaxPolls
      BY <1>5, Fields
    <3> QED BY <1>2, <3>1, Numbers
  <2> HIDE DEF n
  <2>4. k1 \in CallSet /\ k1.batch = call[c].batch /\ k1.arts = call[c].arts /\ k1.tries = call[c].tries
    BY <1>5, <2>3 DEF CallSet
  <2> HIDE DEF k1
  <2>5. t \in Nat
    BY <2>4 DEF CallSet
  <2> HIDE DEF t
  <2>6. k2 \in CallSet /\ k2.batch = k1.batch /\ k2.arts = k1.arts /\ k2.tries = k1.tries
    BY <2>4, <2>5 DEF CallSet
  <2> HIDE DEF k2
  <2>7. k3 \in CallSet /\ k3.batch = k2.batch /\ k3.arts = k2.arts /\ k3.tries = k2.tries /\ k3.since = since
    BY <1>9, <2>6 DEF CallSet
  <2> HIDE DEF k3
  <2>8. At(pc, pc', c) /\ At(call, call', c) /\ pc'[c] = "poll" /\ call'[c] = k3
    BY <1>1, <2>1, <2>2, Set1, Set0 DEF Shapes
  <2>9. WaitInv(c)'
    BY <1>8, <1>9, <1>11, <2>7, <2>8 DEF WaitInv, Started
  <2>10. pc'[c] \in Calling
    BY <2>8 DEF Calling
  <2>11. /\ call'[c] \in CallSet /\ call'[c].batch = <<>>
         /\ call'[c].arts = call[c].arts /\ call'[c].tries = call[c].tries
    BY <1>5, <2>4, <2>6, <2>7, <2>8
  <2> QED BY <1>1, <1>2, <1>8, <1>11, <2>1, <2>8, <2>9, <2>10, <2>11, WithinKeeps
<1> QED BY <1>12, <1>13, <1>14, <1>15

(* The budget for asking is never empty before the first poll.             *)
LEMMA PollsOverKeeps ==
  ASSUME Shapes, SlotsInv, NEW c \in Callers, Good(c), PollsOver(c)
  PROVE  Only(c) /\ Good(c)' /\ SlotsInv'
<1>1. /\ plan' = plan /\ restarts' = restarts /\ table' = table
      /\ row' = row /\ answer' = answer /\ polled' = polled /\ pc[c] = "poll"
      /\ ~Polls(c) /\ Back(c, "nothing", <<>>)
  BY DEF PollsOver, Returns, client
<1>2. pc[c] \in Calling
  BY <1>1 DEF Calling
<1>3. At(polled, polled', c) /\ polled'[c] = polled[c] /\ polled[c] \in Seq(Nat \X Bodies)
  BY <1>1, <1>2, CallIs, Set0
<1>4. polled[c] # <<>>
  <2>1. SUFFICES ASSUME polled[c] = <<>> PROVE FALSE
    OBVIOUS
  <2>2. call[c].polls = 0 /\ (IsVideo(c) => call[c].spent <= call[c].limit)
    BY <1>1, <2>1 DEF Good, WaitInv
  <2>3. Polls(c)
    BY <2>2, Numbers DEF Polls
  <2> QED BY <1>1, <2>3
<1>5. Says(polled'[c], "nothing") /\ "nothing" \in Results
  BY <1>3, <1>4 DEF Says, Results
<1> QED BY <1>1, <1>2, <1>3, <1>5, NothingIn, BackKeeps

LEMMA BatchesIs ==
  ASSUME NEW video \in BOOLEAN, NEW batch \in Batches(video) PROVE batch \in Seq(Arts)
<1>1. <<"new">> \in Seq(Arts) /\ <<"empty">> \in Seq(Arts) /\ <<"echo">> \in Seq(Arts)
  BY DEF Arts
<1>2. <<"echo", "new">> \in Seq(Arts)
  BY DEF Arts
<1> QED BY <1>1, <1>2 DEF Batches

LEMMA DownloadKeeps ==
  ASSUME Shapes, SlotsInv, NEW c \in Callers, Good(c), Download(c)
  PROVE  Only(c) /\ Good(c)' /\ SlotsInv'
<1>1. /\ plan' = plan /\ restarts' = restarts /\ table' = table
      /\ row' = row /\ answer' = answer /\ polled' = polled /\ pc[c] = "download"
  BY DEF Download, client
<1>2. pc[c] \in Calling
  BY <1>1 DEF Calling
<1>3. At(polled, polled', c) /\ polled'[c] \in Seq(Nat \X Bodies)
  BY <1>1, <1>2, CallIs, Set0
<1>4. \/ Back(c, "download", <<>>)
      \/ \E batch \in Batches(IsVideo(c)) :
           (Contains(batch, "echo") => plan[c].files) /\ Back(c, "ok", batch)
  BY DEF Download, Returns
<1>5. /\ Says(polled'[c], "download") /\ Says(polled'[c], "ok")
      /\ "download" \in Results /\ "ok" \in Results
  BY DEF Says, Results
<1>6. CASE Back(c, "download", <<>>)
  BY <1>1, <1>2, <1>3, <1>5, <1>6, NothingIn, BackKeeps
<1>7. ASSUME NEW batch \in Batches(IsVideo(c)), Contains(batch, "echo") => plan[c].files,
             Back(c, "ok", batch)
      PROVE  Only(c) /\ Good(c)' /\ SlotsInv'
  <2>1. batch \in Seq(Arts)
    BY PlanIs, BatchesIs
  <2> QED BY <1>1, <1>2, <1>3, <1>5, <1>7, <2>1, BackKeeps
<1> QED BY <1>4, <1>6, <1>7

(* A panic ends the call and leaves no row.                                *)
LEMMA PanicKeeps ==
  ASSUME Shapes, SlotsInv, NEW c \in Callers, Good(c), Panic(c)
  PROVE  Only(c) /\ Good(c)' /\ SlotsInv'
<1> DEFINE k == [NewLoop EXCEPT !.result = "panic"]
<1>1. /\ plan' = plan /\ restarts' = restarts /\ table' = table
      /\ row' = row /\ answer' = answer /\ pc[c] \in Calling /\ inflight' = inflight - 1
  BY DEF Panic, client
<1>2. jobs' = jobs
  BY <1>1 DEF table
<1>3. k \in CallSet /\ k.batch = <<>> /\ k.arts = <<>>
  BY NewLoopIs, SetResult DEF Results
<1>4. \/ /\ IsVideo(c) /\ pc' = [pc EXCEPT ![c] = "finish"] /\ call' = [call EXCEPT ![c] = k]
         /\ polled' = [polled EXCEPT ![c] = <<>>]
      \/ /\ ~IsVideo(c) /\ pc' = [pc EXCEPT ![c] = "done"]
         /\ call' = [call EXCEPT ![c] = NewLoop] /\ polled' = [polled EXCEPT ![c] = <<>>]
  BY DEF Panic, Ends, Goto
<1> HIDE DEF k
<1>5. /\ At(pc, pc', c) /\ At(call, call', c) /\ At(polled, polled', c)
      /\ polled'[c] = <<>>
      /\ \/ IsVideo(c) /\ pc'[c] = "finish"
         \/ ~IsVideo(c) /\ pc'[c] = "done"
      /\ call'[c] \in CallSet /\ call'[c].batch = <<>> /\ call'[c].arts = <<>>
  BY <1>3, <1>4, NewLoopIs, Set1 DEF Shapes
<1>6. Only(c)
  BY <1>1, <1>5, Set0, OnlyIs
<1>7. pc'[c] \notin Calling
  BY <1>5 DEF Calling
<1>8. SlotsInv'
  BY <1>1, <1>6, <1>7, SlotReturned
<1>9. answer[c] = None
  BY <1>1 DEF Good, RowInv, Calling
<1>10. Placed(c)'
  BY <1>1, <1>5 DEF Placed, IsVideo, Labels, Running
<1>11. JobInv(c)'
  BY <1>1, <1>2, <1>5 DEF Good, JobInv, IsVideo, Running, Calling
<1>12. IsVideo(c) => row[c] = None
  BY <1>1 DEF Good, RowInv
<1>13. RowInv(c)'
  BY <1>1, <1>2, <1>5, <1>9, <1>12, NoneApart DEF Good, RowInv, JobInv, IsVideo, Got, Calling
<1>14. PictureInv(c)' /\ WaitInv(c)'
  BY <1>1, <1>5, <1>9 DEF PictureInv, WaitInv, Genuine
<1> QED BY <1>6, <1>8, <1>10, <1>11, <1>13, <1>14 DEF Good

-----------------------------------------------------------------------------
(* The loop of a picture request.                                          *)

LEMMA RequestKeeps ==
  ASSUME Shapes, SlotsInv, NEW c \in Callers, Good(c), Request(c)
  PROVE  Only(c) /\ Good(c)' /\ SlotsInv'
<1>1. /\ plan' = plan /\ restarts' = restarts /\ table' = table /\ inflight' = inflight
      /\ jobs' = jobs /\ call' = call
      /\ row' = row /\ answer' = answer /\ polled' = polled /\ pc[c] = "idle" /\ ~IsVideo(c)
      /\ pc' = [pc EXCEPT ![c] = "try"]
  BY DEF Request, Goto, client, table
<1>2. pc'[c] = "try"
  BY <1>1 DEF Shapes
<1>3. Only(c)
  <2>1. /\ At(pc, pc', c) /\ At(call, call', c) /\ At(row, row', c) /\ At(answer, answer', c)
        /\ At(polled, polled', c)
    BY <1>1, Set1, Set0
  <2> QED BY <1>1, <2>1, OnlyIs
<1>4. SlotsInv'
  BY <1>1, <1>2, <1>3, SlotsSame DEF Calling
<1>5. answer[c] = None
  BY <1>1 DEF Good, RowInv
<1>6. Placed(c)'
  BY <1>1, <1>2 DEF Good, Placed, IsVideo, Labels, Running
<1>7. JobInv(c)' /\ RowInv(c)'
  BY <1>1, <1>2, <1>5 DEF Good, JobInv, RowInv, IsVideo
<1>8. PictureInv(c)' /\ WaitInv(c)'
  BY <1>1, <1>2, <1>5 DEF Good, PictureInv, WaitInv
<1> QED BY <1>3, <1>4, <1>6, <1>7, <1>8 DEF Good

(* A batch that is not an echo has something in it that is not.            *)
LEMMA KeptBatch ==
  ASSUME NEW c, NEW batch \in Seq(Arts), batch # <<>>, ~IsEcho(c, batch),
         plan[c].files \in BOOLEAN, Contains(batch, "echo") => plan[c].files
  PROVE  Genuine(batch)
<1>1. CASE plan[c].files
  BY <1>1 DEF IsEcho, Genuine
<1>2. CASE ~plan[c].files
  <2>1. 1 \in DOMAIN batch
    OBVIOUS
  <2>2. batch[1] # "echo"
    BY <1>2, <2>1 DEF Contains
  <2> QED BY <2>1, <2>2 DEF Genuine
<1> QED BY <1>1, <1>2

LEMMA GenuineConcat ==
  ASSUME NEW a \in Seq(Arts), NEW b \in Seq(Arts), b # <<>>, Genuine(b)
  PROVE  a \o b \in Seq(Arts) /\ Genuine(a \o b)
<1>1. PICK i \in DOMAIN b : b[i] # "echo"
  BY DEF Genuine
<1>2. Len(a) + i \in DOMAIN (a \o b) /\ (a \o b)[Len(a) + i] = b[i]
  BY <1>1
<1> QED BY <1>1, <1>2 DEF Genuine

(* What a turn of the loop keeps is genuine.                               *)
LEMMA CollectIs ==
  ASSUME Shapes, NEW c \in Callers, Good(c), pc[c] = "returned"
  PROVE  Collect(c) \in CallSet /\ Genuine(Collect(c).arts)
<1> DEFINE l == call[c]
<1>1. /\ l \in CallSet /\ Genuine(l.arts) /\ plan[c].files \in BOOLEAN
      /\ Contains(l.batch, "echo") => plan[c].files
  BY PlanIs DEF Good, Placed, PictureInv, Asks
<1>2. /\ l.tries \in Nat /\ l.tries + 1 \in Nat /\ l.echoes + 1 \in Nat
      /\ l.result \in Results \cup {None} /\ l.arts \in Seq(Arts) /\ l.batch \in Seq(Arts)
  <2>1. l.tries \in Nat /\ l.echoes \in Nat
    BY <1>1, Fields
  <2>2. l.result \in Results \cup {None} /\ l.arts \in Seq(Arts) /\ l.batch \in Seq(Arts)
    BY <1>1, Fields
  <2> QED BY <2>1, <2>2
<1>3. CASE ~Got(c)
  <2> DEFINE t == IF l.arts # <<>> THEN MaxTries ELSE l.tries + 1
             r == l.result
             k1 == [l EXCEPT !.tries = t]
             k2 == [k1 EXCEPT !.failed = r]
  <2>1. Collect(c) = k2
    BY <1>3 DEF Collect
  <2>2. t \in Nat /\ r \in Results \cup {None}
    BY <1>2, Numbers
  <2> HIDE DEF t, r, l
  <2>3. k1 \in CallSet /\ k1.arts = l.arts
    BY <1>1, <2>2 DEF CallSet
  <2> HIDE DEF k1
  <2>4. k2 \in CallSet /\ k2.arts = l.arts
    BY <2>2, <2>3 DEF CallSet
  <2> HIDE DEF k2
  <2> QED BY <1>1, <2>1, <2>4
<1>4. CASE Got(c) /\ IsEcho(c, l.batch)
  <2> DEFINE t == l.tries + 1
             e == l.echoes + 1
             k1 == [l EXCEPT !.tries = t]
             k2 == [k1 EXCEPT !.failed = None]
             k3 == [k2 EXCEPT !.echoes = e]
  <2>1. Collect(c) = k3
    BY <1>4 DEF Collect
  <2>2. t \in Nat /\ e \in Nat
    BY <1>2
  <2> HIDE DEF t, e, l
  <2>3. k1 \in CallSet /\ k1.arts = l.arts
    BY <1>1, <2>2 DEF CallSet
  <2> HIDE DEF k1
  <2>4. k2 \in CallSet /\ k2.arts = l.arts
    BY <2>2, <2>3 DEF CallSet
  <2> HIDE DEF k2
  <2>5. k3 \in CallSet /\ k3.arts = l.arts
    BY <2>2, <2>4 DEF CallSet
  <2> HIDE DEF k3
  <2> QED BY <1>1, <2>1, <2>5
<1>5. CASE Got(c) /\ ~IsEcho(c, l.batch)
  <2> DEFINE t == l.tries + 1
             a == l.arts \o l.batch
             k1 == [l EXCEPT !.tries = t]
             k2 == [k1 EXCEPT !.failed = None]
             k3 == [k2 EXCEPT !.arts = a]
  <2>1. Collect(c) = k3
    BY <1>5 DEF Collect
  <2>2. t \in Nat /\ l.batch # <<>>
    BY <1>2, <1>5 DEF Got
  <2>3. Genuine(l.batch)
    BY <1>1, <1>2, <1>5, <2>2, KeptBatch
  <2>4. a \in Seq(Arts) /\ Genuine(a)
    BY <1>2, <2>2, <2>3, GenuineConcat
  <2> HIDE DEF t, a, l
  <2>5. k1 \in CallSet
    BY <1>1, <2>2 DEF CallSet
  <2> HIDE DEF k1
  <2>6. k2 \in CallSet
    BY <2>2, <2>5 DEF CallSet
  <2> HIDE DEF k2
  <2>7. k3 \in CallSet /\ k3.arts = a
    BY <2>4, <2>6 DEF CallSet
  <2> HIDE DEF k3
  <2> QED BY <2>1, <2>4, <2>7
<1> QED BY <1>3, <1>4, <1>5

(* A request is answered with all that was kept, and only when there is    *)
(* enough or no try is left.                                               *)
LEMMA ReturnedKeeps ==
  ASSUME Shapes, SlotsInv, NEW c \in Callers, Good(c), Returned(c)
  PROVE  Only(c) /\ Good(c)' /\ SlotsInv'
<1> DEFINE k == Collect(c)
           none == <<>>
           k1 == [k EXCEPT !.result = None]
           k2 == [k1 EXCEPT !.batch = none]
           more == k.tries < Tries(plan[c]) /\ Len(k.arts) < plan[c].want
           status == IF k.arts # <<>> THEN 200
                     ELSE IF k.failed # None THEN imageStatus(k.failed) ELSE 502
           reply == [status |-> status, data |-> k.arts]
<1>1. /\ plan' = plan /\ restarts' = restarts /\ table' = table /\ inflight' = inflight
      /\ pc[c] = "returned" /\ ~IsVideo(c)
  BY DEF Returned, table
<1>2. k \in CallSet /\ Genuine(k.arts)
  BY <1>1, CollectIs
<1>3. /\ call' = [call EXCEPT ![c] = k2] /\ polled' = [polled EXCEPT ![c] = <<>>]
      /\ \/ more /\ pc' = [pc EXCEPT ![c] = "try"] /\ row' = row /\ answer' = answer
         \/ /\ ~more /\ pc' = [pc EXCEPT ![c] = "done"]
            /\ row' = [row EXCEPT ![c] = status] /\ answer' = [answer EXCEPT ![c] = reply]
  BY DEF Returned, Goto, Record
<1>4. reply.status = status /\ reply.data = k.arts /\ (status = 200 <=> k.arts # <<>>)
  BY DEF imageStatus
<1>5. none \in Seq(Arts)
  OBVIOUS
<1>6. ~more => k.tries >= Tries(plan[c]) \/ Len(k.arts) >= plan[c].want
  <2>1. k.tries \in Nat /\ k.arts \in Seq(Arts)
    BY <1>2 DEF CallSet
  <2>2. Len(k.arts) \in Nat
    BY <2>1
  <2>3. Tries(plan[c]) \in Nat /\ plan[c].want \in Nat
    BY PlanIs, TriesNat DEF Asks
  <2> HIDE DEF k
  <2> QED BY <2>1, <2>2, <2>3
<1> HIDE DEF k, none, more, status, reply
<1>7. k1 \in CallSet /\ k1.arts = k.arts /\ k1.tries = k.tries
  BY <1>2, SetResult
<1> HIDE DEF k1
<1>8. k2 \in CallSet /\ k2.arts = k.arts /\ k2.tries = k.tries /\ k2.batch = none
  BY <1>5, <1>7, SetBatch
<1> HIDE DEF k2
<1>9. /\ call'[c] = k2 /\ polled'[c] = <<>>
      /\ \/ pc'[c] = "try" /\ row'[c] = row[c] /\ answer'[c] = answer[c]
         \/ ~more /\ pc'[c] = "done" /\ row'[c] = status /\ answer'[c] = reply
  BY <1>3 DEF Shapes
<1>10. Only(c)
  <2>1. /\ At(pc, pc', c) /\ At(call, call', c) /\ At(row, row', c) /\ At(answer, answer', c)
        /\ At(polled, polled', c)
    BY <1>3, Set1, Set0
  <2> QED BY <1>1, <2>1, OnlyIs
<1>11. SlotsInv'
  BY <1>1, <1>9, <1>10, SlotsSame DEF Calling
<1>12. jobs' = jobs /\ plan' = plan
  BY <1>1 DEF table
<1>13. Placed(c)'
  BY <1>8, <1>9 DEF Placed, Labels, Running, none
<1>14. answer[c] = None /\ c \notin DOMAIN jobs
  BY <1>1 DEF Good, RowInv, JobInv
<1>15. JobInv(c)'
  BY <1>12, <1>14 DEF JobInv
<1>16. RowInv(c)'
  BY <1>1, <1>4, <1>9, <1>12, <1>14 DEF RowInv, IsVideo
<1>17. PictureInv(c)'
  <2>1. Genuine(call'[c].arts)
    BY <1>2, <1>8, <1>9
  <2>2. pc'[c] # "returned"
    BY <1>9
  <2>3. CASE answer'[c] = answer[c]
    BY <1>14, <2>1, <2>2, <2>3 DEF PictureInv
  <2>4. CASE answer'[c] = reply /\ ~more
    BY <1>2, <1>4, <1>6, <1>8, <1>9, <1>12, <2>1, <2>2, <2>4 DEF PictureInv
  <2> QED BY <1>9, <2>3, <2>4
<1>18. WaitInv(c)'
  BY <1>9 DEF WaitInv
<1> QED BY <1>10, <1>11, <1>13, <1>15, <1>16, <1>17, <1>18 DEF Good

-----------------------------------------------------------------------------
(* A restart takes all that ran with it; rows and answers stay.            *)
LEMMA RestartKeeps ==
  ASSUME Inv, Restart
  PROVE  Inv'
<1>1. /\ restarts' = restarts + 1 /\ jobs' = <<>> /\ old' = {} /\ inflight' = 0
      /\ plan' = plan /\ row' = row /\ answer' = answer
      /\ pc' = [c \in Callers |-> IF pc[c] = "idle" THEN "idle" ELSE "lost"]
      /\ call' = [c \in Callers |-> IF pc[c] \in {"done", "lost"} THEN call[c] ELSE NewLoop]
      /\ polled' = [c \in Callers |-> <<>>]
  BY DEF Restart
<1>2. DOMAIN jobs' = {}
  BY <1>1
<1>3. Shapes'
  BY <1>1, <1>2 DEF Inv, Shapes
<1>4. ASSUME NEW c \in Callers PROVE Good(c)'
  <2>1. Good(c)
    BY DEF Inv
  <2>2. /\ pc'[c] = (IF pc[c] = "idle" THEN "idle" ELSE "lost")
        /\ call'[c] = (IF pc[c] \in {"done", "lost"} THEN call[c] ELSE NewLoop)
        /\ polled'[c] = <<>> /\ row'[c] = row[c] /\ answer'[c] = answer[c] /\ plan'[c] = plan[c]
    BY <1>1
  <2>3. call[c] \in CallSet /\ (pc[c] \in {"done", "lost"} => call[c].batch = <<>>)
    BY <2>1 DEF Good, Placed
  <2>4. Placed(c)'
    BY <2>2, <2>3, NewLoopIs DEF Placed, Labels
  <2>5. JobInv(c)'
    BY <1>2 DEF JobInv
  <2>6. RowInv(c)'
    BY <1>2, <2>1, <2>2 DEF Good, RowInv, IsVideo, Calling
  <2>7. answer[c] # None => pc[c] \in {"done", "lost"}
    BY <2>1 DEF Good, RowInv
  <2>8. PictureInv(c)'
    BY <2>1, <2>2, <2>7, NewLoopIs DEF Good, PictureInv, Genuine
  <2>9. WaitInv(c)'
    BY <2>2 DEF WaitInv
  <2> QED BY <2>4, <2>5, <2>6, <2>8, <2>9 DEF Good
<1> DEFINE S == {c \in Callers : pc'[c] \in Calling}
<1>5. S = {}
  BY <1>1 DEF Calling
<1> HIDE DEF S
<1>6. inflight' = Cardinality(S) /\ inflight' \in 0..Slots
  <2>1. Cardinality(S) = 0
    BY <1>5, FS_EmptySet
  <2> QED BY <1>1, <2>1, Numbers
<1> USE DEF S
<1> QED BY <1>3, <1>4, <1>6 DEF Inv, SlotsAreCalls

-----------------------------------------------------------------------------
LEMMA InitInv == Init => Inv
<1> SUFFICES ASSUME Init PROVE Inv
  OBVIOUS
<1>1. /\ plan \in Plans /\ jobs = <<>> /\ old = {} /\ inflight = 0 /\ restarts = 0
      /\ pc = [c \in Callers |-> "idle"] /\ call = [c \in Callers |-> NewLoop]
      /\ row = [c \in Callers |-> None] /\ answer = [c \in Callers |-> None]
      /\ polled = [c \in Callers |-> <<>>]
  BY DEF Init
<1>2. DOMAIN jobs = {}
  BY <1>1
<1>3. plan \in [Callers -> Asks]
  BY <1>1, PlansAssumption
<1>4. Shapes
  BY <1>1, <1>2, <1>3 DEF Shapes
<1>5. ASSUME NEW c \in Callers PROVE Good(c)
  <2>1. /\ pc[c] = "idle" /\ call[c] = NewLoop /\ row[c] = None /\ answer[c] = None
        /\ polled[c] = <<>>
    BY <1>1
  <2>2. Placed(c)
    BY <2>1, NewLoopIs DEF Placed, Labels
  <2>3. JobInv(c) /\ RowInv(c)
    BY <1>2, <2>1 DEF JobInv, RowInv
  <2>4. PictureInv(c) /\ WaitInv(c)
    BY <2>1, NewLoopIs DEF PictureInv, WaitInv, Genuine
  <2> QED BY <2>2, <2>3, <2>4 DEF Good
<1> DEFINE S == {c \in Callers : pc[c] \in Calling}
<1>6. S = {}
  BY <1>1 DEF Calling
<1> HIDE DEF S
<1>7. inflight = Cardinality(S) /\ inflight \in 0..Slots
  <2>1. Cardinality(S) = 0
    BY <1>6, FS_EmptySet
  <2> QED BY <1>1, <2>1, Numbers
<1> USE DEF S
<1> QED BY <1>4, <1>5, <1>7 DEF Inv, SlotsAreCalls

LEMMA StepKeeps ==
  ASSUME Shapes, SlotsInv, NEW c \in Callers, Good(c),
         Create(c) \/ Request(c) \/ Step(c) \/ Age(c)
  PROVE  Only(c) /\ Good(c)' /\ SlotsInv'
<1>1. CASE Create(c)
  BY <1>1, CreateKeeps
<1>2. CASE Request(c)
  BY <1>2, RequestKeeps
<1>3. CASE Age(c)
  BY <1>3, AgeKeeps
<1>4. CASE Run(c)
  BY <1>4, RunKeeps
<1>5. CASE Resolve(c)
  BY <1>5, ResolveKeeps
<1>6. CASE RecordVideo(c)
  BY <1>6, RecordVideoKeeps
<1>7. CASE Finish(c)
  BY <1>7, FinishKeeps
<1>8. CASE Reason(c)
  BY <1>8, ReasonKeeps
<1>9. CASE NoSlot(c)
  BY <1>9, NoSlotKeeps
<1>10. CASE TakeSlot(c)
  BY <1>10, TakeSlotKeeps
<1>11. CASE PostFails(c)
  BY <1>11, PostFailsKeeps
<1>12. CASE PostTimesOut(c)
  BY <1>12, PostTimesOutKeeps
<1>13. CASE PostAnswers(c)
  BY <1>13, PostAnswersKeeps
<1>14. CASE Poll(c)
  BY <1>14, PollKeeps
<1>15. CASE PollsOver(c)
  BY <1>15, PollsOverKeeps
<1>16. CASE Download(c)
  BY <1>16, DownloadKeeps
<1>17. CASE Panic(c)
  BY <1>17, PanicKeeps
<1>18. CASE Returned(c)
  BY <1>18, ReturnedKeeps
<1> QED BY <1>1, <1>2, <1>3, <1>4, <1>5, <1>6, <1>7, <1>8, <1>9, <1>10, <1>11, <1>12, <1>13,
           <1>14, <1>15, <1>16, <1>17, <1>18 DEF Step

LEMMA NextInv == Inv /\ [Next]_vars => Inv'
<1> SUFFICES ASSUME Inv, [Next]_vars PROVE Inv'
  OBVIOUS
<1>1. Shapes /\ SlotsInv /\ \A c \in Callers : Good(c)
  BY DEF Inv, SlotsInv
<1>2. ASSUME NEW c \in Callers, Create(c) \/ Request(c) \/ Step(c) \/ Age(c) PROVE Inv'
  <2>1. Only(c) /\ Good(c)' /\ SlotsInv'
    BY <1>1, <1>2, StepKeeps
  <2>2. Shapes' /\ \A d \in Callers : Good(d)'
    BY <1>1, <2>1, GoodKept
  <2> QED BY <2>1, <2>2 DEF Inv, SlotsInv
<1>3. CASE Restart
  BY <1>3, RestartKeeps
<1>4. CASE UNCHANGED vars
  <2>1. /\ plan' = plan /\ jobs' = jobs /\ old' = old /\ pc' = pc /\ call' = call
        /\ inflight' = inflight /\ row' = row /\ answer' = answer /\ polled' = polled
        /\ restarts' = restarts
    BY <1>4 DEF vars
  <2>2. \A d \in Callers : Good(d)'
    BY <1>1, <2>1, Untouched
  <2>3. Shapes' /\ SlotsInv'
    BY <1>1, <2>1 DEF Shapes, SlotsInv, SlotsAreCalls
  <2> QED BY <2>2, <2>3 DEF Inv, SlotsInv
<1> QED BY <1>2, <1>3, <1>4 DEF Next

LEMMA Always == Spec => []Inv
  BY InitInv, NextInv, PTL DEF Spec

-----------------------------------------------------------------------------
(* Every variable has its type: a job is one its caller created and has    *)
(* not lost, in a state that fits its reason and its video, and a call     *)
(* stays within its slots, posts and polls.                                *)
THEOREM TypeCorrect == Spec => []TypeOK
<1>1. Inv => TypeOK
  <2> SUFFICES ASSUME Inv PROVE TypeOK
    OBVIOUS
  <2>1. ASSUME NEW c \in Callers
        PROVE  /\ call[c].posts \in 0..Posts /\ call[c].polls \in 0..MaxPolls
               /\ c \in DOMAIN jobs =>
                    /\ IsVideo(c) /\ pc[c] \notin {"idle", "lost"}
                    /\ jobs[c].status \in {"queued", "in_progress"} \cup Terminal
                    /\ pc[c] = "done" => jobs[c].status \in Terminal
                    /\ jobs[c].error # None => jobs[c].status = "failed"
                    /\ jobs[c].mp4 # None <=> jobs[c].status = "completed"
    <3>1. Good(c)
      BY DEF Inv
    <3>2. call[c].posts \in 0..Posts /\ call[c].polls \in 0..MaxPolls
      BY <3>1 DEF Good, Placed, CallSet
    <3>3. c \in DOMAIN jobs => jobs[c].status \in {"queued", "in_progress"} \cup Terminal
      BY <3>1, JobSetIs DEF Good, JobInv
    <3> QED BY <3>1, <3>2, <3>3 DEF Good, JobInv
  <2> QED BY <2>1 DEF Inv, Shapes, TypeOK
<1> QED BY <1>1, Always, PTL

(* A call has its slot from its first post to the last byte it fetches and *)
(* gives it back however it ends (gemini.go 374, videos.go 106): the slots *)
(* taken are the calls that run.                                           *)
THEOREM SlotsAccounted == Spec => []SlotsAreCalls
<1>1. Inv => SlotsAreCalls
  BY DEF Inv
<1> QED BY <1>1, Always, PTL

(* What the statistics say of a job or a request is what its client is     *)
(* told.                                                                   *)
THEOREM RowsAgreeAlways == Spec => []RowsAgree
<1>1. Inv => RowsAgree
  BY DEF Inv, Good, RowInv, RowsAgree
<1> QED BY <1>1, Always, PTL

(* A request that got a picture answers with it, never with echoes of what *)
(* the client sent alone, and gives up only when no try is left            *)
(* (images.go 234-257, 265-275).                                           *)
THEOREM PicturesAlwaysDelivered == Spec => []PicturesDelivered
<1>1. Inv => PicturesDelivered
  BY DEF Inv, Good, PictureInv, Genuine, PicturesDelivered
<1> QED BY <1>1, Always, PTL

(* A call gives up on what it generated only for a reason that is in the   *)
(* history of its polls (media.go 270-286, gemini.go 797-800).             *)
THEOREM VerdictAlwaysJustified == Spec => []VerdictJustified
<1>1. Inv => VerdictJustified
  <2> SUFFICES ASSUME Inv, NEW c \in Callers, pc[c] = "returned"
               PROVE  /\ call[c].result = "text only" =>
                           \E i \in DOMAIN polled[c] :
                             /\ Last(polled[c])[1] - polled[c][i][1] >= TextOnlyFor
                             /\ \A j \in i..Len(polled[c]) : polled[c][j][2] \in {"text", "failed"}
                      /\ call[c].result = "nothing" => polled[c] # <<>>
    BY NoneApart DEF VerdictJustified, Results
  <2>1. WaitInv(c)
    BY DEF Inv, Good
  <2>2. Last(polled[c]) = polled[c][Len(polled[c])]
    BY DEF Last
  <2> QED BY <2>1, <2>2 DEF WaitInv, TextsSince
<1> QED BY <1>1, Always, PTL

-----------------------------------------------------------------------------
(* What becomes of a job in a step.                                        *)
Moves(j, k) ==
  \/ k = j
  \/ j.status = "queued" /\ k.status = "in_progress"
  \/ j.status = "in_progress" /\ k.status \in Terminal
  \/ k.status = j.status /\ k.mp4 = j.mp4

JobStep(c) ==
  IF c \in DOMAIN jobs' THEN Moves(jobs[c], jobs'[c])
  ELSE c \in old \/ restarts' > restarts

LEMMA CreateMoves ==
  ASSUME Shapes, NEW c \in Callers, NEW d \in DOMAIN jobs, Good(d), Create(c) PROVE JobStep(d)
<1>1. /\ DOMAIN jobs' = (DOMAIN jobs \ Purged) \cup {c}
      /\ \A j \in DOMAIN jobs' : j # c => jobs'[j] = jobs[j]
  BY DEF Create
<1>2. d # c
  BY DEF Create, Good, JobInv
<1> QED BY <1>1, <1>2 DEF JobStep, Moves, Purged

LEMMA RunMoves ==
  ASSUME Shapes, NEW c \in Callers, NEW d \in DOMAIN jobs, Good(c), Run(c) PROVE JobStep(d)
<1>1. c \in DOMAIN jobs => jobs[c] \in JobSet /\ jobs[c].status = "queued"
  BY DEF Good, JobInv, Run
<1>2. SetJob(c, "status", "in_progress")
  BY DEF Run
<1>3. /\ DOMAIN jobs' = DOMAIN jobs
      /\ \A j \in DOMAIN jobs \ {c} : jobs'[j] = jobs[j]
      /\ c \in DOMAIN jobs => jobs'[c].status = "in_progress"
  BY <1>1, <1>2, SetStatus
<1> QED BY <1>1, <1>3 DEF JobStep, Moves

LEMMA FinishMoves ==
  ASSUME Shapes, NEW c \in Callers, NEW d \in DOMAIN jobs, Good(c), Finish(c) PROVE JobStep(d)
<1>1. c \in DOMAIN jobs => jobs[c] \in JobSet /\ jobs[c].status = "in_progress"
  BY DEF Good, JobInv, Finish, Running
<1> DEFINE end == [status |-> "completed", error |-> None, mp4 |-> Head(call[c].batch)]
<1>2. \/ jobs' = IF c \in DOMAIN jobs THEN [jobs EXCEPT ![c] = end] ELSE jobs
      \/ SetJob(c, "status", "failed")
  BY DEF Finish
<1>3. end.status \in Terminal
  BY DEF Terminal
<1> HIDE DEF end
<1>4. /\ DOMAIN jobs' = DOMAIN jobs
      /\ \A j \in DOMAIN jobs \ {c} : jobs'[j] = jobs[j]
      /\ c \in DOMAIN jobs => jobs'[c].status \in Terminal
  <2>1. CASE jobs' = IF c \in DOMAIN jobs THEN [jobs EXCEPT ![c] = end] ELSE jobs
    BY <1>3, <2>1
  <2>2. CASE SetJob(c, "status", "failed")
    BY <1>1, <2>2, SetStatus DEF Terminal
  <2> QED BY <1>2, <2>1, <2>2
<1> QED BY <1>1, <1>4 DEF JobStep, Moves

LEMMA ReasonMoves ==
  ASSUME Shapes, NEW c \in Callers, NEW d \in DOMAIN jobs, Good(c), Reason(c) PROVE JobStep(d)
<1>1. c \in DOMAIN jobs => jobs[c] \in JobSet
  BY DEF Good, JobInv
<1>2. SetJob(c, "error", call[c].result) /\ call[c].result \in Results \cup {None}
  BY DEF Reason, Good, Placed, CallSet
<1>3. /\ DOMAIN jobs' = DOMAIN jobs
      /\ \A j \in DOMAIN jobs \ {c} : jobs'[j] = jobs[j]
      /\ c \in DOMAIN jobs => jobs'[c].status = jobs[c].status /\ jobs'[c].mp4 = jobs[c].mp4
  BY <1>1, <1>2, SetError
<1> QED BY <1>1, <1>3 DEF JobStep, Moves

LEMMA JobsMove ==
  ASSUME Inv, [Next]_vars, NEW d \in DOMAIN jobs PROVE JobStep(d)
<1>1. Shapes /\ \A c \in Callers : Good(c)
  BY DEF Inv
<1>2. d \in Callers
  BY <1>1 DEF Shapes
<1>3. CASE jobs' = jobs
  BY <1>3 DEF JobStep, Moves
<1>4. ASSUME NEW c \in Callers, Create(c) \/ Request(c) \/ Step(c) \/ Age(c), jobs' # jobs
      PROVE  Create(c) \/ Run(c) \/ Finish(c) \/ Reason(c)
  BY <1>4 DEF Step, Request, Age, Resolve, RecordVideo, NoSlot, TakeSlot, PostFails, PostTimesOut,
              PostAnswers, Poll, PollsOver, Download, Panic, Returned, table
<1>5. ASSUME NEW c \in Callers, Create(c) \/ Run(c) \/ Finish(c) \/ Reason(c) PROVE JobStep(d)
  BY <1>1, <1>2, <1>5, CreateMoves, RunMoves, FinishMoves, ReasonMoves
<1>6. CASE Restart
  <2>1. jobs' = <<>> /\ restarts' > restarts
    BY <1>1, <1>6 DEF Restart, Shapes
  <2>2. d \notin DOMAIN jobs'
    BY <2>1
  <2> QED BY <2>1, <2>2 DEF JobStep
<1>7. CASE UNCHANGED vars
  BY <1>3, <1>7 DEF vars
<1> QED BY <1>3, <1>4, <1>5, <1>6, <1>7 DEF Next

LEMMA RankIs ==
  /\ Rank["queued"] = 1 /\ Rank["in_progress"] = 2 /\ Rank["404"] = 4
  /\ Rank["completed"] = 3 /\ Rank["failed"] = 3
  BY DEF Rank

(* What a client who asks for its job is told only goes forward, to one    *)
(* end that stays, and is lost only by a restart or after two hours        *)
(* (videos.go 40-51, 154-182).                                             *)
THEOREM ToldForwardAlways == Spec => ToldForward
<1>1. ASSUME Inv, [Next]_vars, NEW c \in DOMAIN jobs
      PROVE  /\ Rank[Read(c)] <= Rank[Read(c)']
             /\ {Read(c), Read(c)'} # Terminal
             /\ Content(c) # "not ready" => Content(c)' \in {Content(c), "404"}
             /\ Read(c)' = "404" => c \in old \/ restarts' > restarts
  <2>1. JobStep(c)
    BY <1>1, JobsMove
  <2>2. jobs[c].status \in {"queued", "in_progress", "completed", "failed"}
    BY <1>1, JobSetIs DEF Inv, Shapes, Good, JobInv, Terminal
  <2>3. Read(c) = jobs[c].status
    BY DEF Read
  <2>4. CASE c \notin DOMAIN jobs'
    <3>1. Read(c)' = "404" /\ Content(c)' = "404"
      BY <2>4 DEF Read, Content
    <3>2. c \in old \/ restarts' > restarts
      BY <2>1, <2>4 DEF JobStep
    <3> QED BY <2>2, <2>3, <3>1, <3>2, RankIs DEF Terminal
  <2>5. CASE c \in DOMAIN jobs'
    <3>1. Read(c)' = jobs'[c].status
      BY <2>5 DEF Read
    <3>2. Moves(jobs[c], jobs'[c])
      BY <2>1, <2>5 DEF JobStep
    <3>3. /\ jobs'[c].status \in {"queued", "in_progress", "completed", "failed"}
          /\ Rank[jobs[c].status] <= Rank[jobs'[c].status]
          /\ {jobs[c].status, jobs'[c].status} # Terminal
      BY <2>2, <3>2, RankIs DEF Moves, Terminal
    <3>4. Content(c) # "not ready" => Content(c)' = Content(c)
      BY <2>5, <3>2 DEF Content, Moves
    <3> QED BY <2>3, <3>1, <3>3, <3>4
  <2> QED BY <2>4, <2>5
<1>2. Inv /\ [Next]_vars =>
        [\A c \in DOMAIN jobs :
           /\ Rank[Read(c)] <= Rank[Read(c)']
           /\ {Read(c), Read(c)'} # Terminal
           /\ Content(c) # "not ready" => Content(c)' \in {Content(c), "404"}
           /\ Read(c)' = "404" => c \in old \/ restarts' > restarts]_vars
  BY <1>1
<1> QED BY <1>2, Always, PTL DEF Spec, ToldForward
=============================================================================
