------------------------------ MODULE CallProofs ------------------------------
(***************************************************************************)
(* Proofs about the two modules that model streamGenerateWithFiles: the    *)
(* retry loop over the page tokens (UpstreamCall), for every set of calls, *)
(* slots, plans, frames and codes and every retry budget, and below it the *)
(* accounts (CookiePool), for every set of goroutines, ids and exits.      *)
(***************************************************************************)
EXTENDS UpstreamCall, CookiePool, SequenceTheorems, FiniteSetTheorems,
        WellFoundedInduction, TLAPS

-----------------------------------------------------------------------------
(* UpstreamCall *)

Token == [slot : Slots, gen : Nat]
CallSet ==
  [pc : Steps, kind : Kinds \cup {None}, cookie : Nat \cup {None},
   token : Token \cup {None}, at : Token \cup {None}, page : Token \cup {None},
   healed : BOOLEAN, attempt : Nat, frames : Seq(Frames),
   emitted : [Channels -> Seq(Nat)], lastStatus : Nat, verdict : Nat \cup {None},
   artifact : BOOLEAN]
LogSet ==
  [posts : Nat, good : Nat, bad : Nat, excused : Int, waits : Nat,
   heard : [Channels -> Seq(Nat \X Nat)]]

(* Where a call may stand, and that its tokens are its slot's.             *)
Placed(k) ==
  /\ k.pc # "idle" => k.kind \in Kinds
  /\ k.pc \in {"lookup", "fetch", "store", "refused"} => k.kind.slot \in Slots
  /\ k.pc = "store" => k.page \in Token /\ k.page.slot = k.kind.slot
  /\ k.pc = "collect" => Media(k.kind)
  /\ \A t \in {k.token, k.at, k.page} \ {None} : t.slot = k.kind.slot

(* The posts so far are the rounds used up, those repeated for free and    *)
(* the one under way, and a round is left unless the call has ended.       *)
Ended(k) == k.pc \in {"collect", "done"}
Underway(k) == IF k.pc \in {"open", "refused"} THEN 1 ELSE 0
Counted(k, g) ==
  k.kind # None =>
    /\ k.kind.pooled => g.good + g.bad + g.excused + g.waits + Underway(k) = g.posts
    /\ g.posts <= Budget(k.kind) + 1
    /\ ~Ended(k) => /\ g.posts = k.attempt + g.excused + Underway(k)
                    /\ k.attempt < Budget(k.kind)
    /\ g.excused \in {0, 1} /\ (~k.healed => g.excused = 0)
    /\ k.pc = "idle" => ~k.healed
    /\ k.healed /\ k.pc \in {"lookup", "fetch", "store"} => g.excused = 1
    /\ g.waits \in {0, 1} /\ (k.pc # "done" => g.waits = 0)

(* What the client was told on a channel: only letters of the last post,   *)
(* which read as one of its frames and are what the tracker remembers; and *)
(* the whole text after a success.                                         *)
FrameSays(frames, ch, said) ==
  \E i \in DOMAIN frames : frames[i] = [ch |-> ch, text |-> said]
Whole(frames, ch, said) ==
  LET full == FullText(frames, ch) IN
  (\A i \in TextsOf(frames, ch) : IsPrefix(frames[i].text, full)) => said = full
Told(k, g, ch) ==
  LET said == Letters(g.heard[ch]) IN
  /\ \A i \in DOMAIN g.heard[ch] : g.heard[ch][i][1] = g.posts
  /\ said = <<>> \/ FrameSays(k.frames, ch, said)
  /\ ~Ended(k) => said = k.emitted[ch]
  /\ ~Ended(k) /\ k.pc # "open" => g.heard[ch] = <<>>
  /\ (/\ k.pc = "done" /\ k.verdict = 200 /\ ~Media(k.kind)
      /\ TextsOf(k.frames, "text") # {}) => Whole(k.frames, ch, said)

Good(k, g) ==
  /\ k \in CallSet /\ g \in LogSet
  /\ Placed(k)
  /\ Counted(k, g)
  /\ k.lastStatus # 200 /\ (~Ended(k) => k.verdict = None)
  /\ \A ch \in Channels : Told(k, g, ch)

World ==
  /\ live \in [Slots -> Nat] /\ jar \in [Slots -> Nat] /\ baked \in Nat
  /\ \A key \in DOMAIN cache : cache[key] \in Token /\ cache[key].slot = key[2]
Inv ==
  /\ World
  /\ call \in [Calls -> CallSet] /\ log \in [Calls -> LogSet]
  /\ \A c \in Calls : Good(call[c], log[c])

(* One call moves: its locals and its history become k and g.              *)
Moves(c, k, g) ==
  /\ call' = [call EXCEPT ![c] = k]
  /\ log' = [log EXCEPT ![c] = g]

-----------------------------------------------------------------------------
(* Sequences *)

LEMMA RestIs ==
  ASSUME NEW t \in Seq(Nat), NEW said \in Seq(Nat), IsPrefix(said, t)
  PROVE  /\ Rest(t, said) \in Seq(Nat)
         /\ said \o Rest(t, said) = t
<1>1. /\ Len(said) <= Len(t) /\ SubSeq(said, 1, Len(said)) = SubSeq(t, 1, Len(said))
      /\ Len(said) \in Nat /\ Len(t) \in Nat
  BY DEF IsPrefix
<1>2. Rest(t, said) \in Seq(Nat) /\ Len(Rest(t, said)) = Len(t) - Len(said)
  BY <1>1 DEF Rest
<1>3. \A i \in 1..Len(said) : said[i] = t[i]
  <2> SUFFICES ASSUME NEW i \in 1..Len(said) PROVE said[i] = t[i]
    OBVIOUS
  <2>1. SubSeq(said, 1, Len(said))[i] = said[i] /\ SubSeq(t, 1, Len(said))[i] = t[i]
    BY <1>1
  <2> QED BY <1>1, <2>1
<1>4. \A i \in 1..(Len(t) - Len(said)) : Rest(t, said)[i] = t[i + Len(said)]
  BY <1>1 DEF Rest
<1>5. said \o Rest(t, said) \in Seq(Nat) /\ Len(said \o Rest(t, said)) = Len(t)
  BY <1>1, <1>2
<1>6. ASSUME NEW i \in 1..Len(t) PROVE (said \o Rest(t, said))[i] = t[i]
  <2>1. CASE i <= Len(said) BY <1>2, <1>3, <2>1
  <2>2. CASE ~(i <= Len(said))
    <3> DEFINE j == i - Len(said)
    <3>2. j \in 1..(Len(t) - Len(said)) /\ i = j + Len(said)
      BY <1>1, <2>2
    <3>3. (said \o Rest(t, said))[i] = Rest(t, said)[j]
      BY <1>1, <1>2, <2>2
    <3>4. Rest(t, said)[j] = t[j + Len(said)]
      BY <1>4, <3>2
    <3> QED BY <3>2, <3>3, <3>4
  <2> QED BY <2>1, <2>2
<1> DEFINE whole == said \o Rest(t, said)
<1>7. whole \in Seq(Nat) /\ Len(whole) = Len(t) /\ \A i \in 1..Len(whole) : whole[i] = t[i]
  BY <1>5, <1>6
<1> HIDE DEF whole
<1>8. whole = t
  BY <1>7, SeqEqual
<1> QED BY <1>2, <1>8 DEF whole

(* The letters of a text, each with the post it comes from.                *)
Tag(p, t) == [i \in DOMAIN t |-> <<p, t[i]>>]
LEMMA TagIs ==
  ASSUME NEW p \in Nat, NEW t \in Seq(Nat), NEW h \in Seq(Nat \X Nat)
  PROVE  /\ Tag(p, t) \in Seq(Nat \X Nat)
         /\ h \o Tag(p, t) \in Seq(Nat \X Nat)
         /\ DOMAIN h \subseteq DOMAIN (h \o Tag(p, t))
         /\ \A i \in DOMAIN (h \o Tag(p, t)) :
              (h \o Tag(p, t))[i] = IF i \in DOMAIN h THEN h[i] ELSE <<p, t[i - Len(h)]>>
         /\ Letters(h) \in Seq(Nat)
         /\ Letters(h \o Tag(p, t)) = Letters(h) \o t
<1>1. /\ Tag(p, t) \in [1..Len(t) -> Nat \X Nat] /\ Len(t) \in Nat
      /\ Len(h) \in Nat /\ DOMAIN h = 1..Len(h)
  BY DEF Tag
<1>2. /\ Tag(p, t) \in Seq(Nat \X Nat) /\ Len(Tag(p, t)) = Len(t)
      /\ \A i \in 1..Len(t) : Tag(p, t)[i] = <<p, t[i]>>
  BY <1>1 DEF Tag
<1> DEFINE w == Tag(p, t)
<1> DEFINE u == h \o w
<1>3a. w \in Seq(Nat \X Nat) /\ Len(w) = Len(t)
  BY <1>2
<1> HIDE DEF w
<1>3. /\ u \in Seq(Nat \X Nat) /\ Len(u) = Len(h) + Len(t)
      /\ \A i \in 1..Len(h) + Len(t) :
           u[i] = IF i <= Len(h) THEN h[i] ELSE w[i - Len(h)]
  <2>1. /\ u \in Seq(Nat \X Nat) /\ Len(u) = Len(h) + Len(w)
        /\ \A i \in 1..Len(h) + Len(w) :
             u[i] = IF i <= Len(h) THEN h[i] ELSE w[i - Len(h)]
    BY <1>3a, ConcatProperties, Zenon
  <2> QED BY <1>3a, <2>1
<1> HIDE DEF u
<1>4. DOMAIN u = 1..(Len(h) + Len(t))
  BY <1>3
<1>5. ASSUME NEW i \in DOMAIN u
      PROVE u[i] = IF i \in DOMAIN h THEN h[i] ELSE <<p, t[i - Len(h)]>>
  <2>1. CASE i <= Len(h) BY <1>1, <1>3, <1>4, <2>1
  <2>2. CASE i > Len(h)
    <3>1. i \in 1..(Len(h) + Len(t)) /\ i \notin DOMAIN h
      BY <1>1, <1>4, <2>2
    <3>2. u[i] = w[i - Len(h)]
      <4>1. ~(i <= Len(h))
        BY <1>1, <2>2, <3>1
      <4> QED BY <1>3, <3>1, <4>1
    <3>3. PICK j \in 1..Len(t) : j = i - Len(h)
      <4>1. i \in Int /\ i > Len(h) /\ i <= Len(h) + Len(t)
        BY <1>1, <2>2, <3>1
      <4>2. i - Len(h) \in 1..Len(t)
        BY <1>1, <4>1
      <4> QED BY <4>2
    <3>4. w[j] = <<p, t[j]>>
      BY <1>2 DEF w
    <3>5. u[i] = <<p, t[i - Len(h)]>>
      BY <3>2, <3>3, <3>4
    <3> QED BY <3>1, <3>5
  <2>3. i \in Nat
    BY <1>1, <1>4
  <2> QED BY <1>1, <2>1, <2>2, <2>3
<1>6. /\ Letters(h) \in Seq(Nat) /\ Len(Letters(h)) = Len(h)
      /\ \A i \in 1..Len(h) : Letters(h)[i] = h[i][2]
  BY <1>1 DEF Letters
<1>7. /\ Letters(u) \in Seq(Nat) /\ Len(Letters(u)) = Len(h) + Len(t)
      /\ \A i \in 1..(Len(h) + Len(t)) : Letters(u)[i] = u[i][2]
  BY <1>1, <1>3, <1>4 DEF Letters
<1> DEFINE l == Letters(h)
<1> DEFINE v == l \o t
<1>8a. l \in Seq(Nat) /\ Len(l) = Len(h) /\ \A i \in 1..Len(h) : l[i] = h[i][2]
  BY <1>6
<1> HIDE DEF l
<1>8. /\ v \in Seq(Nat) /\ Len(v) = Len(h) + Len(t)
      /\ \A i \in 1..Len(h) + Len(t) : v[i] = IF i <= Len(h) THEN l[i] ELSE t[i - Len(h)]
  <2>0. l \in Seq(Nat)
    BY <1>8a
  <2>1. /\ v \in Seq(Nat) /\ Len(v) = Len(l) + Len(t)
        /\ \A i \in 1..Len(l) + Len(t) :
             v[i] = IF i <= Len(l) THEN l[i] ELSE t[i - Len(l)]
    BY <2>0, ConcatProperties, Zenon
  <2> QED BY <1>8a, <2>1
<1> HIDE DEF v
<1>9. ASSUME NEW i \in 1..(Len(h) + Len(t)) PROVE Letters(u)[i] = v[i]
  <2>1. Letters(u)[i] = u[i][2] /\ i \in DOMAIN u
    BY <1>4, <1>7
  <2>2. CASE i \in DOMAIN h
    <3>1. u[i] = h[i] BY <1>5, <2>1, <2>2
    <3>2. i \in 1..Len(h) /\ i <= Len(h) BY <1>1, <2>2
    <3>3. v[i] = l[i] BY <1>8, <3>2
    <3>4. l[i] = h[i][2] BY <1>8a, <3>2
    <3> QED BY <2>1, <3>1, <3>3, <3>4
  <2>3. CASE i \notin DOMAIN h
    <3>1. u[i][2] = t[i - Len(h)] BY <1>5, <2>1, <2>3
    <3>2. v[i] = t[i - Len(h)] BY <1>1, <1>8, <2>3
    <3> QED BY <2>1, <3>1, <3>2
  <2> QED BY <2>2, <2>3
<1> DEFINE z == Letters(u)
<1>10. z \in Seq(Nat) /\ Len(z) = Len(v) /\ \A i \in 1..Len(z) : z[i] = v[i]
  BY <1>7, <1>8, <1>9
<1> HIDE DEF z
<1>11. z = v
  BY <1>8, <1>10, SeqEqual
<1>12. Letters(h \o Tag(p, t)) = Letters(h) \o t
  BY <1>11 DEF z, v, u, l, w
<1>13. /\ h \o Tag(p, t) \in Seq(Nat \X Nat)
       /\ DOMAIN h \subseteq DOMAIN (h \o Tag(p, t))
  BY <1>1, <1>3, <1>4 DEF u, w
<1>14. \A i \in DOMAIN (h \o Tag(p, t)) :
         (h \o Tag(p, t))[i] = IF i \in DOMAIN h THEN h[i] ELSE <<p, t[i - Len(h)]>>
  BY <1>5 DEF u, w
<1> QED BY <1>2, <1>6, <1>12, <1>13, <1>14

(* The full text of a channel is that of one of its frames.                *)
LEMMA SomeLeast ==
  ASSUME NEW S \in SUBSET Nat, S # {}
  PROVE  \E n \in S : \A m \in S : n <= m
<1>1. \E n \in S : \A m \in S : ~(<<m, n>> \in OpToRel(<, Nat))
  BY NatLessThanWellFounded, WFMin
<1>2. PICK n \in S : \A m \in S : ~(<<m, n>> \in OpToRel(<, Nat))
  BY <1>1
<1>3. ASSUME NEW m \in S PROVE n <= m
  <2>1. m \in Nat /\ n \in Nat /\ ~(<<m, n>> \in OpToRel(<, Nat))
    BY <1>2
  <2>2. m < n => <<m, n>> \in OpToRel(<, Nat)
    BY <2>1 DEF OpToRel
  <2> QED BY <2>1, <2>2 DEF OpToRel
<1> QED BY <1>3

LEMMA SomeMost ==
  ASSUME NEW N \in Nat, NEW S \in SUBSET (1..N), S # {}
  PROVE  \E n \in S : \A m \in S : m <= n
<1> DEFINE T == {q \in 0..N : \A m \in S : m <= q}
<1>1. N \in T
  OBVIOUS
<1>2. PICK q \in T : \A r \in T : q <= r
  <2> T \in SUBSET Nat /\ T # {}
    BY <1>1
  <2> HIDE DEF T
  <2> QED BY SomeLeast
<1>3. q \in S
  <2> SUFFICES ASSUME q \notin S PROVE FALSE
    OBVIOUS
  <2>1. PICK m \in S : TRUE
    OBVIOUS
  <2>2. q - 1 \in T
    BY <2>1
  <2> QED BY <1>2, <2>2
<1> QED BY <1>3

(* Among finitely many positions one has the largest value.                *)
LEMMA SomeLargest ==
  ASSUME NEW N \in Nat, NEW S \in SUBSET (1..N), S # {}, NEW len \in [1..N -> Nat]
  PROVE  \E n \in S : \A m \in S : len[m] <= len[n]
<1> DEFINE T == {p \in 0..N : \E i \in S : \A j \in S : j > p => len[j] <= len[i]}
<1>1. N \in T
  <2>1. PICK i \in S : TRUE
    OBVIOUS
  <2>2. \A j \in S : ~(j > N)
    OBVIOUS
  <2>3. \A j \in S : j > N => len[j] <= len[i]
    BY <2>2
  <2>4. N \in 0..N
    OBVIOUS
  <2> QED BY <2>3, <2>4
<1>2. PICK p \in T : \A r \in T : p <= r
  <2>1. T \in SUBSET (0..N)
    OBVIOUS
  <2> T \in SUBSET Nat /\ T # {}
    <3> HIDE DEF T
    <3> QED BY <1>1, <2>1
  <2> HIDE DEF T
  <2> QED BY SomeLeast
<1>3. PICK i \in S : \A j \in S : j > p => len[j] <= len[i]
  BY <1>2
<1>3a. p \in 0..N
  BY <1>2
<1>4. p = 0
  <2> SUFFICES ASSUME p # 0 PROVE p - 1 \in T
    <3>1. p - 1 \in T => p <= p - 1 BY <1>2
    <3> HIDE DEF T
    <3> QED BY <1>3a, <3>1
  <2>0. p - 1 \in 0..N
    BY <1>3a
  <2>1. CASE p \notin S \/ len[p] <= len[i]
    <3>1. \A j \in S : j > p - 1 => len[j] <= len[i]
      BY <1>3, <1>3a, <2>1
    <3> QED BY <2>0, <3>1
  <2>2. CASE p \in S /\ len[p] > len[i]
    <3>1. \A j \in S : j > p - 1 => len[j] <= len[p]
      <4> SUFFICES ASSUME NEW j \in S, j > p - 1 PROVE len[j] <= len[p]
        OBVIOUS
      <4>1. len[j] \in Nat /\ len[i] \in Nat /\ len[p] \in Nat /\ j \in Nat
        BY <2>2
      <4>2. CASE j = p BY <4>1, <4>2
      <4>3. CASE j > p BY <1>3, <2>2, <4>1, <4>3
      <4> QED BY <1>3a, <4>1, <4>2, <4>3
    <3> QED BY <2>0, <2>2, <3>1
  <2> QED BY <2>1, <2>2
<1> QED BY <1>3, <1>4

(* The full text of a channel is the text of one of its frames, if any.    *)
LEMMA FullTextIs ==
  ASSUME NEW frames \in Seq(Frames), NEW ch \in Channels
  PROVE  /\ FullText(frames, ch) \in Seq(Nat)
         /\ \/ FullText(frames, ch) = <<>>
            \/ \E i \in DOMAIN frames : frames[i] = [ch |-> ch, text |-> FullText(frames, ch)]
<1> DEFINE all == TextsOf(frames, ch)
           N == Len(frames)
           len == [i \in 1..N |-> Len(frames[i].text)]
           Latest(i) == \A j \in all : j <= i
           Length(i) == Len(frames[i].text)
           Longest(i) == \A j \in all :
             Length(j) < Length(i) \/ (Length(j) = Length(i) /\ i <= j)
<1>1. /\ N \in Nat /\ DOMAIN frames = 1..N
      /\ \A i \in 1..N : /\ frames[i] \in Frames
                         /\ frames[i].text \in Seq(Nat)
                         /\ frames[i] = [ch |-> frames[i].ch, text |-> frames[i].text]
  BY FramesAssumption, LenProperties
<1>2. all \in SUBSET (1..N) /\ \A i \in all : frames[i].ch = ch
  BY <1>1 DEF TextsOf
<1>3. len \in [1..N -> Nat]
  <2>1. \A i \in 1..N : Len(frames[i].text) \in Nat
    BY <1>1, LenProperties
  <2> QED BY <2>1
<1>4. CASE all = {}
  BY <1>4 DEF FullText
<1>5. CASE all # {}
  <2>1. \E i \in all : Latest(i)
    <3> HIDE DEF all, N
    <3> QED BY <1>1, <1>2, <1>5, SomeMost
  <2>2. \E i \in all : Longest(i)
    <3> DEFINE top == {i \in all : \A j \in all : len[j] <= len[i]}
    <3>1. top # {} /\ top \in SUBSET Nat
      <4> HIDE DEF all, N, len
      <4>1. \E i \in all : \A j \in all : len[j] <= len[i]
        BY <1>1, <1>2, <1>3, <1>5, SomeLargest
      <4>2. top \in SUBSET (1..N)
        BY <1>2
      <4>3. PICK i \in all : \A j \in all : len[j] <= len[i]
        BY <4>1
      <4>4. i \in top
        BY <4>3
      <4> HIDE DEF top
      <4> QED BY <1>1, <4>2, <4>4
    <3>2. PICK i \in top : \A j \in top : i <= j
      <4> HIDE DEF top
      <4> QED BY <3>1, SomeLeast
    <3>3. ASSUME NEW j \in all PROVE len[j] < len[i] \/ (len[j] = len[i] /\ i <= j)
      <4> HIDE DEF all, N, len
      <4>1. len[j] \in Nat /\ len[i] \in Nat /\ len[j] <= len[i]
        BY <1>2, <1>3, <3>2
      <4>2. ASSUME len[j] = len[i] PROVE j \in top
        <5>1. \A m \in all : len[m] <= len[j]
          BY <3>2, <4>2
        <5> QED BY <5>1
      <4>3. j \in top => i <= j
        <5> HIDE DEF top
        <5> QED BY <3>2
      <4> HIDE DEF top
      <4> QED BY <4>1, <4>2, <4>3
    <3>4. i \in all /\ \A j \in all : len[j] = Length(j)
      BY <1>2, <3>2
    <3> HIDE DEF all, len, top, Length
    <3> QED BY <3>3, <3>4
  <2> DEFINE at == IF ch = "text" THEN CHOOSE i \in all : Latest(i)
                   ELSE CHOOSE i \in all : Longest(i)
  <2>3. at \in all
    <3> HIDE DEF all, Latest, Longest
    <3> QED BY <2>1, <2>2
  <2>4. FullText(frames, ch) = frames[at].text
    BY <1>5 DEF FullText
  <2> QED BY <1>1, <1>2, <2>3, <2>4
<1> QED BY <1>4, <1>5

-----------------------------------------------------------------------------
(* Steps of one call *)

LEMMA Kinded ==
  ASSUME NEW kind \in Kinds
  PROVE  /\ Budget(kind) \in 1..RetryAttempts
         /\ Media(kind) => Budget(kind) <= 2
         /\ Media(kind) \in BOOLEAN
         /\ kind.slot \in Slots \cup {None} /\ kind.frames \subseteq Frames
         /\ kind.pooled \in BOOLEAN
  BY BudgetAssumption DEF Kinds, Budget, Media

LEMMA Silent ==
  ASSUME NEW h \in Seq(Nat \X Nat)
  PROVE  (Letters(h) = <<>>) <=> (h = <<>>)
<1>1. Len(h) \in Nat /\ DOMAIN h = 1..Len(h)
  OBVIOUS
<1>2. Letters(h) \in [1..Len(h) -> Nat] /\ DOMAIN Letters(h) = 1..Len(h)
  BY <1>1 DEF Letters
<1>3. ASSUME Letters(h) = <<>> PROVE h = <<>>
  <2>1. 1..Len(h) = {}
    BY <1>2, <1>3
  <2>2. Len(h) = 0
    <3>1. ASSUME NEW l \in Nat, 1..l = {} PROVE l = 0
      BY <3>1
    <3> QED BY <1>1, <2>1, <3>1
  <2> QED BY <2>2, EmptySeq
<1>4. ASSUME h = <<>> PROVE Letters(h) = <<>>
  BY <1>4 DEF Letters
<1> QED BY <1>3, <1>4

LEMMA CookieGood ==
  ASSUME NEW k, NEW g, Good(k, g), NEW cookie \in Nat \cup {None}
  PROVE  Good([k EXCEPT !.cookie = cookie], g)
<1> DEFINE n == [k EXCEPT !.cookie = cookie]
<1>1. k \in CallSet
  BY DEF Good
<1>2. /\ n \in CallSet
      /\ n.pc = k.pc /\ n.kind = k.kind /\ n.token = k.token /\ n.at = k.at
      /\ n.page = k.page /\ n.healed = k.healed /\ n.attempt = k.attempt
      /\ n.frames = k.frames /\ n.emitted = k.emitted /\ n.lastStatus = k.lastStatus
      /\ n.verdict = k.verdict
  BY <1>1 DEF CallSet
<1> HIDE DEF n
<1>3. Good(n, g)
  BY <1>2 DEF Good, Placed, Counted, Told, Underway, Ended
<1> QED BY <1>3 DEF n

(* A round that failed: the call goes on silently or ends without success. *)
LEMMA CallMoved ==
  ASSUME NEW k \in CallSet, NEW s \in Steps, NEW v \in Nat \cup {None}
  PROVE  [k EXCEPT !.pc = s] \in CallSet /\ [k EXCEPT !.pc = s, !.verdict = v] \in CallSet
BY ZenonT(40) DEF CallSet

LEMMA FailGood ==
  ASSUME NEW k, NEW g, NEW b, Good(k, g), b \in LogSet,
         k.kind \in Kinds, ~Ended(k),
         b.posts = g.posts, b.heard = g.heard,
         k.kind.pooled => b.good + b.bad + b.excused + b.waits = b.posts,
         b.excused \in {0, 1}, ~k.healed => b.excused = 0,
         b.posts = k.attempt + 1 + b.excused,
         NEW status \in Nat \ {200}, NEW over \in BOOLEAN,
         b.waits \in {0, 1}, ~over => b.waits = 0
  PROVE  Good(Failed(k, status, over), b)
<1> DEFINE n == Failed(k, status, over)
           last == IF status = 0 THEN k.lastStatus ELSE status
           m == [k EXCEPT !.attempt = @ + 1, !.lastStatus = last]
<1>1. k \in CallSet /\ k.verdict = None /\ last \in Nat \ {200}
  BY DEF Good, CallSet
<1> HIDE DEF last
<1>2. /\ m \in CallSet
      /\ m.attempt = k.attempt + 1 /\ m.lastStatus # 200 /\ m.kind = k.kind
      /\ m.token = k.token /\ m.at = k.at /\ m.page = k.page /\ m.healed = k.healed
      /\ m.frames = k.frames /\ m.emitted = k.emitted /\ m.verdict = None
  <2>1. k.attempt + 1 \in Nat
    BY <1>1 DEF CallSet
  <2> QED BY <1>1, <2>1 DEF CallSet
<1>3. n = IF over \/ Stops(m)
          THEN [m EXCEPT !.pc = "done", !.verdict = m.lastStatus] ELSE [m EXCEPT !.pc = "post"]
  BY DEF Failed, last
<1> HIDE DEF n, m
<1>4a. n \in CallSet
  <2>1. CASE over \/ Stops(m)
    <3>1. n = [m EXCEPT !.pc = "done", !.verdict = m.lastStatus]
      BY <1>3, <2>1
    <3>2. m \in CallSet /\ m.lastStatus \in Nat \cup {None}
      BY <1>2 DEF CallSet
    <3>3. "done" \in Steps
      BY DEF Steps
    <3>4. [m EXCEPT !.pc = "done", !.verdict = m.lastStatus] \in CallSet
      BY <3>2, <3>3, CallMoved
    <3> QED BY <3>1, <3>4
  <2>2. CASE ~(over \/ Stops(m))
    <3>1. n = [m EXCEPT !.pc = "post"]
      BY <1>3, <2>2
    <3>2. "post" \in Steps
      BY DEF Steps
    <3>3. m \in CallSet
      BY <1>2
    <3>4. [m EXCEPT !.pc = "post"] \in CallSet
      BY <3>2, <3>3, CallMoved
    <3> QED BY <3>1, <3>4
  <2> QED BY <2>1, <2>2
<1>4b. \/ n.pc = "done" /\ n.verdict # 200
       \/ n.pc = "post" /\ n.verdict = None /\ ~over /\ ~Stops(m)
  BY <1>2, <1>3 DEF CallSet
<1>4c. n.lastStatus # 200
  BY <1>2, <1>3 DEF CallSet
<1>4. /\ n.kind = k.kind /\ n.attempt = k.attempt + 1
      /\ n.token = k.token /\ n.at = k.at /\ n.page = k.page /\ n.healed = k.healed
      /\ n.frames = k.frames /\ n.emitted = k.emitted
  BY <1>2, <1>3 DEF CallSet
<1>5. Placed(n)
  BY <1>4, <1>4a, <1>4b, <1>4c DEF Good, Placed
<1>6. Counted(n, b)
  <2> SUFFICES ASSUME k.kind # None PROVE Counted(n, b)
    BY <1>4, <1>4a, <1>4b, <1>4c DEF Counted
  <2>1. k.attempt < Budget(k.kind) /\ Budget(k.kind) \in Nat /\ k.attempt \in Nat
    BY <1>1, Kinded, BudgetAssumption DEF Good, Counted, CallSet
  <2>2. n.pc = "post" => k.attempt + 1 < Budget(k.kind)
    BY <1>2, <1>4, <1>4a, <1>4b, <1>4c, <2>1 DEF Stops
  <2> QED BY <1>4, <1>4a, <1>4b, <1>4c, <2>1, <2>2 DEF Counted, Ended, Underway
<1>7. ASSUME NEW ch \in Channels PROVE Told(n, b, ch)
  <2>1. Told(k, g, ch)
    BY DEF Good
  <2>2. ASSUME n.pc = "post" PROVE b.heard[ch] = <<>>
    <3>1. k.emitted[ch] = <<>>
      BY <1>2, <1>4, <1>4a, <1>4b, <1>4c, <2>2 DEF Stops, Spoken
    <3>2. Letters(g.heard[ch]) = <<>> /\ g.heard[ch] \in Seq(Nat \X Nat)
      BY <2>1, <3>1 DEF Told, Good, LogSet
    <3> QED BY <3>2, Silent
  <2> QED BY <1>4, <1>4a, <1>4b, <1>4c, <2>1, <2>2 DEF Told, Ended
<1> QED BY <1>4, <1>4a, <1>4b, <1>4c, <1>5, <1>6, <1>7 DEF Good, Ended, n

LEMMA MoveInv ==
  ASSUME Inv, NEW c \in Calls, NEW k, NEW g, Moves(c, k, g), Good(k, g), World'
  PROVE  Inv'
<1>1. k \in CallSet /\ g \in LogSet
  BY DEF Good
<1>2. call' \in [Calls -> CallSet] /\ log' \in [Calls -> LogSet]
  BY <1>1 DEF Inv, Moves
<1>3. ASSUME NEW d \in Calls PROVE Good(call'[d], log'[d])
  <2>1. CASE d = c
    <3>1. call'[d] = k /\ log'[d] = g
      BY <2>1 DEF Inv, Moves
    <3> QED BY <3>1
  <2>2. CASE d # c
    <3>1. call'[d] = call[d] /\ log'[d] = log[d]
      BY <2>2 DEF Inv, Moves
    <3> QED BY <3>1 DEF Inv
  <2> QED BY <2>1, <2>2
<1> QED BY <1>2, <1>3 DEF Inv

LEMMA CookieSet ==
  ASSUME Inv, NEW c \in Calls, NEW cookie \in Refreshed(c), SetCookie(c, cookie),
         call[c].pc # "idle"
  PROVE  /\ cookie \in Nat \cup {None}
         /\ live' \in [Slots -> Nat] /\ jar' \in [Slots -> Nat] /\ baked' \in Nat
<1>1. call[c].cookie \in Nat \cup {None} /\ baked \in Nat /\ jar \in [Slots -> Nat]
  BY DEF Inv, World, CallSet
<1>2. cookie = call[c].cookie \/ (cookie = baked + 1 /\ Slot(c) # None)
  BY DEF Refreshed
<1>3. CASE cookie = call[c].cookie
  BY <1>1, <1>3 DEF SetCookie, Inv, World
<1>4. CASE cookie # call[c].cookie
  <2>1. cookie \in Nat
    BY <1>1, <1>2, <1>4
  <2> QED BY <1>1, <1>4, <2>1 DEF SetCookie, Inv, World
<1> QED BY <1>3, <1>4

(* A step that neither posts nor hears anything.                           *)
Quiet(step) == step \in {"idle", "lookup", "fetch", "store", "post"}
LEMMA QuietGood ==
  ASSUME NEW k, NEW g, Good(k, g), NEW n \in CallSet, Placed(n),
         Quiet(k.pc), k.pc # "post", Quiet(n.pc), n.pc # "idle",
         n.kind = k.kind, n.healed = k.healed, n.attempt = k.attempt,
         n.frames = k.frames, n.emitted = k.emitted,
         n.lastStatus = k.lastStatus, n.verdict = k.verdict
  PROVE  Good(n, g)
<1>1. ~Ended(k) /\ ~Ended(n) /\ Underway(k) = 0 /\ Underway(n) = 0
  BY DEF Quiet, Ended, Underway
<1>2. Counted(k, g)
  BY DEF Good
<1>3. Counted(n, g)
  BY <1>1, <1>2 DEF Counted, Quiet
<1>4. ASSUME NEW ch \in Channels PROVE Told(n, g, ch)
  <2>1. Told(k, g, ch)
    BY DEF Good
  <2>2. k.pc # "open" /\ n.pc # "open" /\ n.pc # "done"
    BY DEF Quiet
  <2> QED BY <1>1, <2>1, <2>2 DEF Told
<1> QED BY <1>1, <1>3, <1>4 DEF Good

LEMMA StartKeeps ==
  ASSUME Inv, NEW c \in Calls, Start(c)
  PROVE  Inv'
<1> DEFINE k == call[c]
           n == [k EXCEPT !.cookie = IF Slot(c) = None THEN None ELSE jar[Slot(c)],
                          !.pc = IF Slot(c) = None THEN "post" ELSE "lookup"]
<1>1. k \in CallSet /\ k.pc = "idle" /\ k.kind \in Kinds /\ Good(k, log[c])
  BY DEF Inv, Start, At, CallSet
<1>2. k.kind.slot \in Slots \cup {None} /\ Slot(c) = k.kind.slot
  BY <1>1, Kinded DEF Slot
<1>3. (IF Slot(c) = None THEN None ELSE jar[Slot(c)]) \in Nat \cup {None}
  BY <1>2 DEF Inv, World
<1>4. Moves(c, n, log[c])
  BY DEF Start, Moves, Inv
<1> HIDE DEF k
<1>5a. n \in CallSet
  <2> DEFINE step == IF Slot(c) = None THEN "post" ELSE "lookup"
  <2>1. step \in Steps
    BY DEF Steps
  <2> HIDE DEF step
  <2>2. n = [k EXCEPT !.cookie = IF Slot(c) = None THEN None ELSE jar[Slot(c)], !.pc = step]
    BY DEF step
  <2> HIDE DEF n
  <2> QED BY <1>1, <1>3, <2>1, <2>2 DEF CallSet
<1>5. /\ n.pc = IF k.kind.slot = None THEN "post" ELSE "lookup"
      /\ n.kind = k.kind /\ n.token = k.token /\ n.at = k.at
      /\ n.page = k.page /\ n.healed = k.healed /\ n.attempt = k.attempt
      /\ n.frames = k.frames /\ n.emitted = k.emitted /\ n.lastStatus = k.lastStatus
      /\ n.verdict = k.verdict
  BY <1>1, <1>2 DEF CallSet
<1> HIDE DEF n
<1>6. Good(n, log[c])
  <2>1. Placed(n)
    BY <1>1, <1>2, <1>5 DEF Good, Placed
  <2>2. Quiet(k.pc) /\ Quiet(n.pc) /\ n.pc # "idle"
    BY <1>1, <1>5 DEF Quiet
  <2> QED BY <1>1, <1>5, <1>5a, <2>1, <2>2, QuietGood
<1>7. World'
  BY DEF Start, upstream, Inv, World
<1> QED BY <1>4, <1>6, <1>7, MoveInv

(* getXSRF returned a token of the call's own slot.                        *)
LEMMA ReturnsKeeps ==
  ASSUME Inv, NEW c \in Calls, NEW t \in Token, t.slot = Slot(c), Returns(c, t),
         call[c].pc \in {"lookup", "store"}, log' = log, World'
  PROVE  Inv'
<1> DEFINE k == call[c]
           n == [k EXCEPT !.at = t, !.token = IF k.healed THEN @ ELSE t, !.page = None,
                          !.pc = "post"]
<1>1. k \in CallSet /\ k.kind \in Kinds /\ Good(k, log[c]) /\ Placed(k)
  BY DEF Inv, Good, Placed
<1>2. Moves(c, n, log[c])
  BY DEF Returns, Moves, Inv
<1>3. k.pc \in {"lookup", "store"} /\ t.slot = k.kind.slot
  BY DEF Slot
<1> HIDE DEF k
<1>4. /\ n \in CallSet
      /\ n.pc = "post" /\ n.at = t /\ n.page = None
      /\ n.token \in {k.token, t}
      /\ n.kind = k.kind /\ n.healed = k.healed /\ n.attempt = k.attempt
      /\ n.frames = k.frames /\ n.emitted = k.emitted /\ n.lastStatus = k.lastStatus
      /\ n.verdict = k.verdict
  BY <1>1 DEF CallSet, Steps
<1> HIDE DEF n
<1>5. Placed(n)
  BY <1>1, <1>3, <1>4 DEF Placed
<1>6. Good(n, log[c])
  BY <1>1, <1>3, <1>4, <1>5, QuietGood DEF Quiet
<1> QED BY <1>2, <1>6, MoveInv

LEMMA LookupKeeps ==
  ASSUME Inv, NEW c \in Calls, Lookup(c)
  PROVE  Inv'
<1> DEFINE k == call[c]
           n == [k EXCEPT !.pc = "fetch"]
<1>1. k \in CallSet /\ k.pc = "lookup" /\ Good(k, log[c]) /\ Placed(k)
  BY DEF Inv, Lookup, At, Good
<1>2. World' /\ log' = log
  BY DEF Lookup, upstream, Inv, World
<1>3. CASE KeyOf(c) \in DOMAIN cache
  <2>1. cache[KeyOf(c)] \in Token /\ cache[KeyOf(c)].slot = KeyOf(c)[2]
    BY <1>3 DEF Inv, World
  <2>2. KeyOf(c)[2] = Slot(c)
    BY DEF KeyOf, Key
  <2>3. Returns(c, cache[KeyOf(c)])
    BY <1>3 DEF Lookup
  <2> QED BY <1>1, <1>2, <2>1, <2>2, <2>3, ReturnsKeeps
<1>4. CASE KeyOf(c) \notin DOMAIN cache
  <2>1. Moves(c, n, log[c])
    BY <1>4 DEF Lookup, Moves, Inv
  <2> HIDE DEF k
  <2>2. /\ n \in CallSet
        /\ n.pc = "fetch" /\ n.at = k.at /\ n.page = k.page /\ n.token = k.token
        /\ n.kind = k.kind /\ n.healed = k.healed /\ n.attempt = k.attempt
        /\ n.frames = k.frames /\ n.emitted = k.emitted /\ n.lastStatus = k.lastStatus
        /\ n.verdict = k.verdict
    BY <1>1 DEF CallSet, Steps
  <2> HIDE DEF n
  <2>3. Placed(n)
    BY <1>1, <2>2 DEF Placed
  <2>4. Good(n, log[c])
    BY <1>1, <2>2, <2>3, QuietGood DEF Quiet
  <2> QED BY <1>2, <2>1, <2>4, MoveInv
<1> QED BY <1>3, <1>4

LEMMA FetchKeeps ==
  ASSUME Inv, NEW c \in Calls, FetchPage(c)
  PROVE  Inv'
<1> DEFINE k == call[c]
           page == [slot |-> Slot(c), gen |-> live[Slot(c)]]
           n == [k EXCEPT !.page = page, !.pc = "store"]
<1>1. /\ k \in CallSet /\ k.pc = "fetch" /\ Good(k, log[c]) /\ Placed(k)
      /\ k.kind.slot = Slot(c)
  BY DEF Inv, FetchPage, At, Good, Slot
<1>2. page \in Token /\ page.slot = k.kind.slot
  BY <1>1 DEF Inv, World, Token, Placed
<1>3. Moves(c, n, log[c])
  BY DEF FetchPage, Moves, Inv
<1>4. World'
  BY DEF FetchPage, upstream, Inv, World
<1> HIDE DEF k, page
<1>5. /\ n \in CallSet
      /\ n.pc = "store" /\ n.at = k.at /\ n.page = page /\ n.token = k.token
      /\ n.kind = k.kind /\ n.healed = k.healed /\ n.attempt = k.attempt
      /\ n.frames = k.frames /\ n.emitted = k.emitted /\ n.lastStatus = k.lastStatus
      /\ n.verdict = k.verdict
  BY <1>1, <1>2 DEF CallSet, Steps
<1> HIDE DEF n
<1>6. Placed(n)
  BY <1>1, <1>2, <1>5 DEF Placed
<1>7. Good(n, log[c])
  BY <1>1, <1>5, <1>6, QuietGood DEF Quiet
<1> QED BY <1>3, <1>4, <1>7, MoveInv

LEMMA StoreKeeps ==
  ASSUME Inv, NEW c \in Calls, StorePage(c)
  PROVE  Inv'
<1> DEFINE page == call[c].page
           key == KeyOf(c)
<1>1. page \in Token /\ page.slot = Slot(c) /\ call[c].pc = "store"
  BY DEF Inv, StorePage, At, Good, Placed, Slot
<1>2. key[2] = Slot(c)
  BY DEF KeyOf, Key
<1>3. /\ DOMAIN cache' = DOMAIN cache \cup {key}
      /\ \A o \in DOMAIN cache' : cache'[o] = IF o = key THEN page ELSE cache[o]
  BY DEF StorePage
<1>4. World'
  <2>1. ASSUME NEW o \in DOMAIN cache' PROVE cache'[o] \in Token /\ cache'[o].slot = o[2]
    BY <1>1, <1>2, <1>3 DEF Inv, World
  <2> QED BY <2>1 DEF StorePage, upstream, Inv, World
<1>5. Returns(c, page) /\ log' = log
  BY DEF StorePage
<1> QED BY <1>1, <1>4, <1>5, ReturnsKeeps

LEMMA PostKeeps ==
  ASSUME Inv, NEW c \in Calls, Post(c)
  PROVE  Inv'
<1> DEFINE k == call[c]
           g == log[c]
           valid == Slot(c) = None \/ k.at = [slot |-> Slot(c), gen |-> live[Slot(c)]]
           n == [k EXCEPT !.frames = <<>>, !.pc = IF valid THEN "open" ELSE "refused"]
           b == [g EXCEPT !.posts = @ + 1]
<1>1. /\ k \in CallSet /\ k.pc = "post" /\ Good(k, g) /\ Placed(k) /\ Counted(k, g)
      /\ g \in LogSet /\ k.kind \in Kinds
  BY DEF Inv, Post, At, Good, Placed
<1>2. ~valid => k.kind.slot \in Slots
  BY <1>1, Kinded DEF Slot
<1>3. Moves(c, n, b)
  BY DEF Post, Moves, Inv
<1>4. World'
  BY DEF Post, upstream, Inv, World
<1> HIDE DEF k, g, valid
<1> DEFINE step == IF valid THEN "open" ELSE "refused"
<1>4a. step \in Steps /\ <<>> \in Seq(Frames) /\ step \in {"open", "refused"}
  BY EmptySeq DEF Steps
<1>4b. n = [k EXCEPT !.frames = <<>>, !.pc = step]
  OBVIOUS
<1> HIDE DEF step, n
<1>5. /\ n \in CallSet
      /\ n.pc = step
      /\ n.at = k.at /\ n.page = k.page /\ n.token = k.token
      /\ n.kind = k.kind /\ n.healed = k.healed /\ n.attempt = k.attempt
      /\ n.frames = <<>> /\ n.emitted = k.emitted /\ n.lastStatus = k.lastStatus
      /\ n.verdict = k.verdict
  BY <1>1, <1>4a, <1>4b DEF CallSet
<1>6. /\ b \in LogSet /\ b.posts = g.posts + 1 /\ b.heard = g.heard /\ b.good = g.good
      /\ b.bad = g.bad /\ b.excused = g.excused /\ b.waits = g.waits
  <2>1. g.posts + 1 \in Nat
    BY <1>1 DEF LogSet
  <2> QED BY <1>1, <2>1 DEF LogSet
<1> HIDE DEF b
<1>7. Placed(n)
  BY <1>1, <1>2, <1>4a, <1>5 DEF Placed, step
<1>8. Counted(n, b)
  <2> SUFFICES ASSUME k.kind # None PROVE Counted(n, b)
    BY <1>5 DEF Counted
  <2>1. /\ Underway(k) = 0 /\ Underway(n) = 1 /\ ~Ended(k) /\ ~Ended(n)
    BY <1>1, <1>4a, <1>5 DEF Underway, Ended
  <2>2. /\ g.posts \in Nat /\ g.good \in Nat /\ g.bad \in Nat /\ g.waits \in Nat
        /\ g.excused \in Int /\ k.attempt \in Nat /\ Budget(k.kind) \in Nat
    BY <1>1, Kinded, BudgetAssumption DEF LogSet, CallSet
  <2>3. /\ k.kind.pooled => g.good + g.bad + g.excused + g.waits + Underway(k) = g.posts
        /\ g.posts = k.attempt + g.excused + Underway(k) /\ k.attempt < Budget(k.kind)
        /\ g.excused \in {0, 1} /\ (~k.healed => g.excused = 0) /\ g.waits = 0
    BY <1>1, <2>1 DEF Counted
  <2>4. n.kind.pooled => b.good + b.bad + b.excused + b.waits + Underway(n) = b.posts
    BY <1>5, <1>6, <2>1, <2>2, <2>3
  <2>5. b.posts = n.attempt + b.excused + Underway(n) /\ b.posts <= Budget(n.kind) + 1
    BY <1>5, <1>6, <2>1, <2>2, <2>3
  <2> QED BY <1>4a, <1>5, <1>6, <2>1, <2>3, <2>4, <2>5 DEF Counted
<1>9. ASSUME NEW ch \in Channels PROVE Told(n, b, ch)
  <2>1. Told(k, g, ch) /\ ~Ended(k) /\ k.pc = "post" /\ ~Ended(n) /\ n.pc # "done"
    BY <1>1, <1>4a, <1>5 DEF Good, Ended
  <2>2. g.heard[ch] = <<>>
    BY <2>1 DEF Told
  <2>3. Letters(b.heard[ch]) = <<>> /\ b.heard[ch] = <<>>
    BY <1>6, <2>2 DEF Letters
  <2> QED BY <1>5, <1>6, <2>1, <2>2, <2>3 DEF Told, Ended
<1>10. Good(n, b)
  BY <1>1, <1>4a, <1>5, <1>6, <1>7, <1>8, <1>9 DEF Good, Ended
<1> QED BY <1>3, <1>4, <1>10, MoveInv

LEMMA HealKeeps ==
  ASSUME Inv, NEW c \in Calls, Heal(c)
  PROVE  Inv'
<1>1. PICK cookie \in Refreshed(c) :
        /\ SetCookie(c, cookie)
        /\ cache' = Drop(Key(cookie, Slot(c)))
        /\ call' = [call EXCEPT ![c].cookie = cookie, ![c].healed = TRUE, ![c].pc = "lookup"]
  BY DEF Heal
<1> DEFINE k == call[c]
           g == log[c]
           n == [k EXCEPT !.cookie = cookie, !.healed = TRUE, !.pc = "lookup"]
           b == [g EXCEPT !.excused = @ + 1]
<1>2. /\ k \in CallSet /\ k.pc = "refused" /\ ~k.healed /\ Good(k, g) /\ Placed(k)
      /\ Counted(k, g) /\ g \in LogSet /\ k.kind \in Kinds
  BY DEF Inv, Heal, At, Good, Placed
<1>3. cookie \in Nat \cup {None} /\ World'
  <2>1. /\ cookie \in Nat \cup {None}
        /\ live' \in [Slots -> Nat] /\ jar' \in [Slots -> Nat] /\ baked' \in Nat
    BY <1>1, <1>2, CookieSet
  <2> QED BY <1>1, <2>1 DEF Drop, Inv, World
<1>4. Moves(c, n, b)
  BY <1>1 DEF Heal, Moves, Inv
<1> HIDE DEF k, g
<1>5. /\ n \in CallSet
      /\ n.pc = "lookup" /\ n.healed = TRUE
      /\ n.at = k.at /\ n.page = k.page /\ n.token = k.token
      /\ n.kind = k.kind /\ n.attempt = k.attempt
      /\ n.frames = k.frames /\ n.emitted = k.emitted /\ n.lastStatus = k.lastStatus
      /\ n.verdict = k.verdict
  BY <1>2, <1>3 DEF CallSet, Steps
<1>6. /\ b \in LogSet /\ b.posts = g.posts /\ b.heard = g.heard /\ b.good = g.good
      /\ b.bad = g.bad /\ b.excused = g.excused + 1 /\ b.waits = g.waits
  <2>1. g.excused + 1 \in Int
    BY <1>2 DEF LogSet
  <2> QED BY <1>2, <2>1 DEF LogSet
<1> HIDE DEF n, b
<1>7. Placed(n)
  BY <1>2, <1>5 DEF Placed
<1>8. Counted(n, b)
  <2> SUFFICES ASSUME k.kind # None PROVE Counted(n, b)
    BY <1>5 DEF Counted
  <2>1. /\ Underway(k) = 1 /\ Underway(n) = 0 /\ ~Ended(k) /\ ~Ended(n)
    BY <1>2, <1>5 DEF Underway, Ended
  <2>2. /\ g.posts \in Nat /\ g.good \in Nat /\ g.bad \in Nat /\ g.waits \in Nat
        /\ g.excused \in Int /\ k.attempt \in Nat /\ Budget(k.kind) \in Nat
    BY <1>2, Kinded, BudgetAssumption DEF LogSet, CallSet
  <2> QED BY <1>2, <1>5, <1>6, <2>1, <2>2 DEF Counted
<1>9. ASSUME NEW ch \in Channels PROVE Told(n, b, ch)
  <2>1. Told(k, g, ch) /\ ~Ended(k) /\ k.pc # "open" /\ ~Ended(n) /\ n.pc # "done"
    BY <1>2, <1>5 DEF Good, Ended
  <2> QED BY <1>5, <1>6, <2>1 DEF Told
<1>10. Good(n, b)
  BY <1>2, <1>5, <1>6, <1>7, <1>8, <1>9 DEF Good, Ended
<1> QED BY <1>3, <1>4, <1>10, MoveInv

(* What a failed round adds to the history: the exit is blamed, or a media *)
(* call sat out a time limit and ends.                                     *)
LEMMA FailsKeeps ==
  ASSUME Inv, NEW c \in Calls, NEW cookie \in Refreshed(c), SetCookie(c, cookie),
         call[c].pc \in {"refused", "open"},
         NEW status \in Nat \ {200}, NEW over \in BOOLEAN,
         call' = [call EXCEPT
           ![c] = Failed([call[c] EXCEPT !.cookie = cookie], status, over)],
         NEW b, log' = [log EXCEPT ![c] = b],
         \/ b = Blamed(c)
         \/ b = [log[c] EXCEPT !.waits = @ + 1] /\ over,
         UNCHANGED cache
  PROVE  Inv'
<1> DEFINE g == log[c]
           k == [call[c] EXCEPT !.cookie = cookie]
<1>1. cookie \in Nat \cup {None} /\ World'
  <2>1. /\ cookie \in Nat \cup {None}
        /\ live' \in [Slots -> Nat] /\ jar' \in [Slots -> Nat] /\ baked' \in Nat
    BY CookieSet
  <2> QED BY <2>1 DEF Inv, World
<1>2. call[c] \in CallSet /\ Good(call[c], g)
  BY DEF Inv
<1>3. Good(k, g)
  BY <1>1, <1>2, CookieGood
<1>4. k.pc = call[c].pc /\ k.kind = call[c].kind
  BY <1>2 DEF CallSet
<1>5. g \in LogSet
  BY <1>3 DEF Good
<1> HIDE DEF k
<1> DEFINE kind == call[c].kind
<1>6. \/ b = [g EXCEPT !.bad = IF kind.pooled THEN @ + 1 ELSE @]
      \/ b = [g EXCEPT !.waits = @ + 1] /\ over
  BY DEF Blamed
<1> HIDE DEF kind
<1>6a. k.kind = kind
  BY <1>4 DEF kind
<1> HIDE DEF g
<1>7. /\ k.pc \in {"refused", "open"} /\ k \in CallSet /\ Placed(k) /\ Counted(k, g)
      /\ k.kind \in Kinds /\ ~Ended(k) /\ Underway(k) = 1
  <2>1. k.pc \in {"refused", "open"}
    BY <1>4
  <2>2. k \in CallSet /\ Placed(k) /\ Counted(k, g)
    BY <1>3 DEF Good
  <2> QED BY <2>1, <2>2 DEF Placed, Ended, Underway
<1>8. /\ g.posts \in Nat /\ g.good \in Nat /\ g.bad \in Nat /\ g.waits \in Nat
      /\ g.excused \in Int /\ k.attempt \in Nat
      /\ g.bad + 1 \in Nat /\ g.waits + 1 \in Nat
  BY <1>5, <1>7 DEF LogSet, CallSet
<1>9. /\ b \in LogSet /\ b.posts = g.posts /\ b.heard = g.heard /\ b.good = g.good
      /\ b.excused = g.excused
      /\ \/ b.waits = g.waits /\ b.bad = IF k.kind.pooled THEN g.bad + 1 ELSE g.bad
         \/ b.waits = g.waits + 1 /\ b.bad = g.bad /\ over
  <2>1. CASE b = [g EXCEPT !.bad = IF kind.pooled THEN @ + 1 ELSE @]
    BY <1>5, <1>6a, <1>8, <2>1 DEF LogSet
  <2>2. CASE b = [g EXCEPT !.waits = @ + 1] /\ over
    BY <1>5, <1>8, <2>2 DEF LogSet
  <2> QED BY <1>6, <2>1, <2>2
<1>10. k.kind # None
  BY <1>7, NoneAssumption
<1>11. Inv'
  <2>1. /\ k.kind.pooled => g.good + g.bad + g.excused + g.waits + 1 = g.posts
        /\ g.posts = k.attempt + g.excused + 1
        /\ g.excused \in {0, 1} /\ (~k.healed => g.excused = 0) /\ g.waits = 0
    BY <1>7, <1>10 DEF Counted
  <2>2. k.kind.pooled => b.good + b.bad + b.excused + b.waits = b.posts
    BY <1>8, <1>9, <2>1
  <2>3. b.posts = k.attempt + 1 + b.excused /\ b.excused \in {0, 1}
        /\ (~k.healed => b.excused = 0) /\ b.waits \in {0, 1} /\ (~over => b.waits = 0)
    BY <1>8, <1>9, <2>1
  <2>4. Good(Failed(k, status, over), b)
    BY <1>3, <1>7, <1>9, <2>2, <2>3, FailGood, ZenonT(30)
  <2> QED BY <1>1, <2>4, MoveInv DEF Moves, k
<1> QED BY <1>11

LEMMA BlameKeeps ==
  ASSUME Inv, NEW c \in Calls,
         \/ RefusedAgain(c) \/ Reset(c) \/ Empty(c)
         \/ \E code \in Codes : Status(c, code)
  PROVE  Inv'
<1> DEFINE Blames(status) ==
             /\ call[c].pc \in {"refused", "open"}
             /\ \E cookie \in Refreshed(c) :
                  /\ SetCookie(c, cookie)
                  /\ call' = [call EXCEPT
                       ![c] = Failed([call[c] EXCEPT !.cookie = cookie], status, FALSE)]
             /\ log' = [log EXCEPT ![c] = Blamed(c)]
             /\ UNCHANGED cache
<1>1. ASSUME NEW status \in Nat \ {200}, Blames(status) PROVE Inv'
  <2>1. PICK cookie \in Refreshed(c) :
          /\ SetCookie(c, cookie)
          /\ call' = [call EXCEPT
               ![c] = Failed([call[c] EXCEPT !.cookie = cookie], status, FALSE)]
    BY <1>1
  <2>2. /\ call[c].pc \in {"refused", "open"}
        /\ log' = [log EXCEPT ![c] = Blamed(c)]
        /\ UNCHANGED cache
    BY <1>1
  <2> QED BY <2>1, <2>2, FailsKeeps
<1>2. RefusedAgain(c) => Blames(400)
  BY DEF RefusedAgain, At
<1>3. Reset(c) \/ Empty(c) => Blames(0)
  BY DEF Reset, Empty, At
<1>4. ASSUME NEW code \in Codes, Status(c, code) PROVE Blames(code) /\ code \in Nat \ {200}
  BY <1>4, CodesAssumption DEF Status, At
<1>5. 400 \in Nat \ {200} /\ 0 \in Nat \ {200}
  OBVIOUS
<1> HIDE DEF Blames
<1> QED BY <1>1, <1>2, <1>3, <1>4, <1>5

LEMMA TimeOutKeeps ==
  ASSUME Inv, NEW c \in Calls, TimeOut(c)
  PROVE  Inv'
<1> DEFINE over == Media(call[c].kind)
           b == IF over THEN [log[c] EXCEPT !.waits = @ + 1] ELSE Blamed(c)
<1>1. PICK cookie \in Refreshed(c) :
        /\ SetCookie(c, cookie)
        /\ call' = [call EXCEPT
             ![c] = Failed([call[c] EXCEPT !.cookie = cookie], 0, over)]
  BY DEF TimeOut
<1>2. call[c].pc \in {"refused", "open"} /\ UNCHANGED cache
  BY DEF TimeOut, At
<1>2a. log' = [log EXCEPT ![c] = b]
  BY DEF TimeOut
<1>3. over \in BOOLEAN /\ 0 \in Nat \ {200}
  BY DEF Media
<1>4. \/ b = Blamed(c)
      \/ b = [log[c] EXCEPT !.waits = @ + 1] /\ over
  OBVIOUS
<1> HIDE DEF over, b
<1> QED BY <1>1, <1>2, <1>2a, <1>3, <1>4, FailsKeeps

LEMMA FetchFailsKeeps ==
  ASSUME Inv, NEW c \in Calls, FetchFails(c)
  PROVE  Inv'
<1> DEFINE k == call[c]
           g == log[c]
<1>1. /\ k \in CallSet /\ k.pc = "fetch" /\ Good(k, g) /\ Placed(k)
      /\ Counted(k, g) /\ g \in LogSet /\ k.kind \in Kinds
  BY DEF Inv, FetchFails, At, Good, Placed
<1>2. World'
  BY DEF FetchFails, upstream, Inv, World
<1>3. k.kind # None /\ ~Ended(k) /\ Underway(k) = 0
  BY <1>1, NoneAssumption DEF Ended, Underway
<1>4. CASE k.healed
  <2> DEFINE kind == k.kind
             b == [g EXCEPT !.bad = IF kind.pooled THEN @ + 1 ELSE @, !.excused = @ - 1]
  <2>1. call' = [call EXCEPT ![c] = Failed(k, 400, FALSE)] /\ log' = [log EXCEPT ![c] = b]
    BY <1>4, SMTT(30) DEF FetchFails, Blamed, Inv, LogSet
  <2> HIDE DEF k, g
  <2>2. /\ g.posts \in Nat /\ g.good \in Nat /\ g.bad \in Nat /\ g.waits \in Nat
        /\ g.excused \in Int /\ k.attempt \in Nat
        /\ g.bad + 1 \in Nat /\ g.excused - 1 \in Int
    BY <1>1 DEF LogSet, CallSet
  <2> HIDE DEF kind
  <2>3. /\ b \in LogSet /\ b.posts = g.posts /\ b.heard = g.heard /\ b.good = g.good
        /\ b.excused = g.excused - 1 /\ b.waits = g.waits
        /\ b.bad = IF kind.pooled THEN g.bad + 1 ELSE g.bad
    BY <1>1, <2>2 DEF LogSet
  <2> HIDE DEF b
  <2> USE DEF kind
  <2>4. /\ k.kind.pooled => g.good + g.bad + g.excused + g.waits = g.posts
        /\ g.posts = k.attempt + g.excused
        /\ g.excused = 1 /\ g.waits = 0
    BY <1>1, <1>3, <1>4, <2>2 DEF Counted
  <2>5. k.kind.pooled => b.good + b.bad + b.excused + b.waits = b.posts
    BY <2>2, <2>3, <2>4
  <2>6. /\ b.posts = k.attempt + 1 + b.excused /\ b.excused \in {0, 1}
        /\ b.excused = 0 /\ b.waits = 0
    BY <2>2, <2>3, <2>4
  <2>7. Good(Failed(k, 400, FALSE), b)
    <3> DEFINE status == 400
               over == FALSE
    <3>1. /\ b.waits \in {0, 1} /\ status \in Nat \ {200} /\ over \in BOOLEAN
          /\ ~k.healed => b.excused = 0
          /\ ~over => b.waits = 0
      BY <2>6
    <3> HIDE DEF kind, status, over
    <3>2. Good(Failed(k, status, over), b)
      BY <1>1, <1>3, <2>3, <2>5, <2>6, <3>1, FailGood, ZenonT(30)
    <3> QED BY <3>2 DEF status, over
  <2> QED BY <1>2, <2>1, <2>7, MoveInv DEF Moves
<1>5. CASE ~k.healed
  <2> DEFINE n == [k EXCEPT !.pc = "done"]
  <2>1. Moves(c, n, g)
    BY <1>5 DEF FetchFails, Moves, Inv
  <2> HIDE DEF k, g
  <2>2. /\ n \in CallSet
        /\ n.pc = "done" /\ n.healed = k.healed
        /\ n.at = k.at /\ n.page = k.page /\ n.token = k.token
        /\ n.kind = k.kind /\ n.attempt = k.attempt
        /\ n.frames = k.frames /\ n.emitted = k.emitted /\ n.lastStatus = k.lastStatus
        /\ n.verdict = k.verdict
    BY <1>1 DEF CallSet, Steps
  <2> HIDE DEF n
  <2>3. Placed(n)
    BY <1>1, <2>2 DEF Placed
  <2>4. Counted(n, g)
    <3>1. Ended(n) /\ Underway(n) = 0
      BY <2>2 DEF Ended, Underway
    <3> QED BY <1>1, <1>3, <2>2, <3>1 DEF Counted
  <2>5. k.verdict = None /\ None # 200
    BY <1>1, <1>3, NoneAssumption DEF Good
  <2>6. ASSUME NEW ch \in Channels PROVE Told(n, g, ch)
    <3>1. Told(k, g, ch) /\ Ended(n)
      BY <1>1, <2>2 DEF Good, Ended
    <3> QED BY <2>2, <2>5, <3>1 DEF Told
  <2>7. Good(n, g)
    BY <1>1, <2>2, <2>3, <2>4, <2>6 DEF Good, Ended
  <2> QED BY <1>2, <2>1, <2>7, MoveInv
<1> QED BY <1>4, <1>5

LEMMA CollectKeeps ==
  ASSUME Inv, NEW c \in Calls, Collect(c)
  PROVE  Inv'
<1> DEFINE k == call[c]
           g == log[c]
<1>1. /\ k \in CallSet /\ k.pc = "collect" /\ Good(k, g) /\ Placed(k) /\ Media(k.kind)
      /\ Counted(k, g)
  BY DEF Inv, Collect, At, Good, Placed
<1>2. PICK got \in BOOLEAN : call' = [call EXCEPT ![c].artifact = got, ![c].pc = "done"]
  BY DEF Collect
<1> DEFINE n == [k EXCEPT !.artifact = got, !.pc = "done"]
<1>3. Moves(c, n, g) /\ World'
  BY <1>2 DEF Collect, Moves, upstream, Inv, World
<1> HIDE DEF k, g
<1>4a. n \in CallSet
  <2>1. "done" \in Steps
    BY DEF Steps
  <2> QED BY <1>1, <2>1 DEF CallSet
<1>4. /\ n.pc = "done" /\ n.healed = k.healed
      /\ n.at = k.at /\ n.page = k.page /\ n.token = k.token
      /\ n.kind = k.kind /\ n.attempt = k.attempt
      /\ n.frames = k.frames /\ n.emitted = k.emitted /\ n.lastStatus = k.lastStatus
      /\ n.verdict = k.verdict
  BY <1>1 DEF CallSet
<1> HIDE DEF n
<1>5. Placed(n)
  BY <1>1, <1>4 DEF Placed
<1>6. Counted(n, g)
  BY <1>1, <1>4 DEF Counted, Ended, Underway
<1>7. ASSUME NEW ch \in Channels PROVE Told(n, g, ch)
  <2>1. Told(k, g, ch) /\ Ended(n) /\ Media(n.kind)
    BY <1>1, <1>4 DEF Good, Ended
  <2> QED BY <1>4, <2>1 DEF Told
<1>8. Good(n, g)
  BY <1>1, <1>4, <1>4a, <1>5, <1>6, <1>7 DEF Good, Ended
<1> QED BY <1>3, <1>8, MoveInv

-----------------------------------------------------------------------------
(* Passing the answer on *)

LEMMA AddIs ==
  ASSUME NEW p \in Nat, NEW t \in Seq(Nat), NEW h \in Seq(Nat \X Nat),
         \A i \in DOMAIN h : h[i][1] = p
  PROVE  /\ h \o Tag(p, t) \in Seq(Nat \X Nat)
         /\ Letters(h \o Tag(p, t)) = Letters(h) \o t
         /\ \A i \in DOMAIN (h \o Tag(p, t)) : (h \o Tag(p, t))[i][1] = p
<1> DEFINE u == h \o Tag(p, t)
<1>1. /\ u \in Seq(Nat \X Nat) /\ Letters(u) = Letters(h) \o t
      /\ \A i \in DOMAIN u : u[i] = IF i \in DOMAIN h THEN h[i] ELSE <<p, t[i - Len(h)]>>
  BY TagIs, ZenonT(30)
<1> HIDE DEF u
<1>2. ASSUME NEW i \in DOMAIN u PROVE u[i][1] = p
  <2>1. CASE i \in DOMAIN h
    BY <1>1, <2>1
  <2>2. CASE i \notin DOMAIN h
    BY <1>1, <2>2
  <2> QED BY <2>1, <2>2
<1> QED BY <1>1, <1>2 DEF u

(* What is added when a frame arrives, and at the end.                     *)
LEMMA SaidIs ==
  ASSUME NEW said \in Seq(Nat), NEW t \in Seq(Nat)
  PROVE  /\ IsPrefix(said, t) => Rest(t, said) \in Seq(Nat) /\ said \o Rest(t, said) = t
         /\ said \o <<>> = said /\ <<>> \in Seq(Nat)
         /\ said = <<>> => IsPrefix(said, t)
<1>1. IsPrefix(said, t) => Rest(t, said) \in Seq(Nat) /\ said \o Rest(t, said) = t
  BY RestIs
<1>2. said \o <<>> = said /\ <<>> \in Seq(Nat)
  BY ConcatEmptySeq, EmptySeq
<1>3. ASSUME said = <<>> PROVE IsPrefix(said, t)
  <2>1. Len(said) = 0 /\ Len(t) \in Nat
    BY <1>3, EmptySeq, LenProperties
  <2>2. SubSeq(said, 1, 0) = <<>> /\ SubSeq(t, 1, 0) = <<>>
    BY SubSeqEmpty
  <2> QED BY <2>1, <2>2 DEF IsPrefix
<1> QED BY <1>1, <1>2, <1>3

(* A frame that tells the client "say" and leaves the tracker at e.        *)
LEMMA FrameGood ==
  ASSUME NEW k, NEW g, Good(k, g), k.pc = "open", k.kind \in Kinds,
         NEW f \in Frames,
         NEW say \in Seq(Nat), NEW e,
         \/ say = <<>> /\ e = k.emitted[f.ch]
         \/ e = f.text /\ e = k.emitted[f.ch] \o say
  PROVE  Good([k EXCEPT !.frames = Append(@, f), !.emitted[f.ch] = e],
              [g EXCEPT !.heard[f.ch] = @ \o Tag(g.posts, say)])
<1> DEFINE ch == f.ch
           frames == Append(k.frames, f)
           emitted == [k.emitted EXCEPT ![ch] = e]
           h == g.heard[ch] \o Tag(g.posts, say)
           heard == [g.heard EXCEPT ![ch] = h]
           n == [k EXCEPT !.frames = frames, !.emitted = emitted]
           b == [g EXCEPT !.heard = heard]
<1>1. /\ ch \in Channels /\ f.text \in Seq(Nat) /\ f = [ch |-> ch, text |-> f.text]
  BY FramesAssumption
<1>2. /\ k \in CallSet /\ g \in LogSet /\ Placed(k) /\ Counted(k, g) /\ ~Ended(k)
      /\ g.posts \in Nat /\ g.heard[ch] \in Seq(Nat \X Nat) /\ k.frames \in Seq(Frames)
      /\ k.emitted[ch] \in Seq(Nat) /\ k.emitted \in [Channels -> Seq(Nat)]
      /\ g.heard \in [Channels -> Seq(Nat \X Nat)]
  BY <1>1 DEF Good, Ended, LogSet, CallSet
<1>3. Told(k, g, ch)
  BY <1>1 DEF Good
<1>4. /\ h \in Seq(Nat \X Nat) /\ Letters(h) = k.emitted[ch] \o say
      /\ \A i \in DOMAIN h : h[i][1] = g.posts
  <2>1. /\ \A i \in DOMAIN g.heard[ch] : g.heard[ch][i][1] = g.posts
        /\ Letters(g.heard[ch]) = k.emitted[ch]
    BY <1>2, <1>3 DEF Told
  <2> DEFINE old == g.heard[ch]
             p == g.posts
  <2>2. p \in Nat /\ old \in Seq(Nat \X Nat) /\ \A i \in DOMAIN old : old[i][1] = p
    BY <1>2, <2>1
  <2> HIDE DEF old, p
  <2>3. /\ old \o Tag(p, say) \in Seq(Nat \X Nat)
        /\ Letters(old \o Tag(p, say)) = Letters(old) \o say
        /\ \A i \in DOMAIN (old \o Tag(p, say)) : (old \o Tag(p, say))[i][1] = p
    BY <2>2, AddIs
  <2> QED BY <2>1, <2>3 DEF old, p
<1>5. Letters(h) = e /\ e \in Seq(Nat) /\ (e = k.emitted[ch] \/ e = f.text)
  BY <1>1, <1>2, <1>4, SaidIs
<1>6. /\ frames \in Seq(Frames) /\ Len(frames) = Len(k.frames) + 1
      /\ DOMAIN frames = 1..(Len(k.frames) + 1) /\ Len(k.frames) \in Nat
      /\ DOMAIN k.frames = 1..Len(k.frames)
      /\ frames[Len(k.frames) + 1] = f
      /\ \A i \in 1..Len(k.frames) : frames[i] = k.frames[i]
  BY <1>2, AppendProperties, LenProperties
<1> HIDE DEF ch, frames, h
<1>7. /\ emitted \in [Channels -> Seq(Nat)] /\ emitted[ch] = e
      /\ \A o \in Channels \ {ch} : emitted[o] = k.emitted[o]
      /\ heard \in [Channels -> Seq(Nat \X Nat)] /\ heard[ch] = h
      /\ \A o \in Channels \ {ch} : heard[o] = g.heard[o]
  BY <1>1, <1>2, <1>4, <1>5
<1> HIDE DEF emitted, heard
<1>8. /\ n \in CallSet
      /\ n.pc = "open" /\ n.healed = k.healed
      /\ n.at = k.at /\ n.page = k.page /\ n.token = k.token
      /\ n.kind = k.kind /\ n.attempt = k.attempt
      /\ n.frames = frames /\ n.emitted = emitted /\ n.lastStatus = k.lastStatus
      /\ n.verdict = k.verdict
  BY <1>2, <1>6, <1>7 DEF CallSet
<1>9. /\ b \in LogSet /\ b.posts = g.posts /\ b.heard = heard /\ b.good = g.good
      /\ b.bad = g.bad /\ b.excused = g.excused /\ b.waits = g.waits
  BY <1>2, <1>7 DEF LogSet
<1>10. /\ n = [k EXCEPT !.frames = Append(@, f), !.emitted[f.ch] = e]
       /\ b = [g EXCEPT !.heard[f.ch] = @ \o Tag(g.posts, say)]
  BY DEF frames, emitted, heard, h, ch
<1> HIDE DEF n, b
<1>11. Placed(n)
  BY <1>2, <1>8 DEF Placed
<1>12. Counted(n, b)
  BY <1>2, <1>8, <1>9 DEF Counted, Ended, Underway
<1>13. ASSUME NEW o \in Channels PROVE Told(n, b, o)
  <2>1. ASSUME NEW said, FrameSays(k.frames, o, said) PROVE FrameSays(frames, o, said)
    <3>1. PICK i \in DOMAIN k.frames : k.frames[i] = [ch |-> o, text |-> said]
      BY <2>1 DEF FrameSays
    <3>2. i \in DOMAIN frames /\ frames[i] = k.frames[i]
      BY <1>6, <3>1
    <3> QED BY <3>1, <3>2 DEF FrameSays
  <2>2. CASE o = ch
    <3>1. FrameSays(frames, o, f.text)
      <4>1. Len(k.frames) + 1 \in DOMAIN frames
        BY <1>6
      <4> QED BY <1>1, <1>6, <2>2, <4>1 DEF FrameSays
    <3>2. k.emitted[o] = <<>> \/ FrameSays(k.frames, o, k.emitted[o])
      BY <1>2, <1>3, <2>2 DEF Told
    <3>3. e = <<>> \/ FrameSays(frames, o, e)
      BY <1>5, <2>1, <2>2, <3>1, <3>2
    <3> QED BY <1>4, <1>5, <1>7, <1>8, <1>9, <2>2, <3>3 DEF Told, Ended
  <2>3. CASE o # ch
    <3>1. Told(k, g, o)
      BY DEF Good
    <3>2. b.heard[o] = g.heard[o] /\ n.emitted[o] = k.emitted[o]
      BY <1>7, <1>8, <1>9, <2>3
    <3> QED BY <1>2, <1>8, <1>9, <2>1, <3>1, <3>2 DEF Told, Ended
  <2> QED BY <2>2, <2>3
<1>14. Good(n, b)
  BY <1>8, <1>9, <1>11, <1>12, <1>13 DEF Good, Ended
<1> QED BY <1>10, <1>14

LEMMA FrameKeeps ==
  ASSUME Inv, NEW c \in Calls, NEW f \in Frames, Frame(c, f)
  PROVE  Inv'
<1> DEFINE k == call[c]
           g == log[c]
           d == Push(c, f.ch, f.text)
           said == k.emitted[f.ch]
<1>1. /\ k \in CallSet /\ Good(k, g) /\ k.pc = "open" /\ k.kind \in Kinds
      /\ f.ch \in Channels /\ f.text \in Seq(Nat) /\ said \in Seq(Nat)
      /\ k.emitted \in [Channels -> Seq(Nat)] /\ g \in LogSet
  BY FramesAssumption DEF Inv, Frame, At, Good, Placed, CallSet
<1>2. World'
  BY DEF Frame, upstream, Inv, World
<1>3. CASE k.kind.streams
  <2> DEFINE n == [k EXCEPT !.frames = Append(@, f), !.emitted[f.ch] = d.emitted]
             b == [g EXCEPT !.heard[f.ch] = @ \o Tag(g.posts, d.say)]
  <2>1. /\ d.say \in Seq(Nat)
        /\ \/ d.say = <<>> /\ d.emitted = said
           \/ d.emitted = f.text /\ d.emitted = said \o d.say
    <3>1. CASE Len(f.text) > Len(said) /\ IsPrefix(said, f.text)
      <4>1. d.say = Rest(f.text, said) /\ d.emitted = f.text
        BY <3>1 DEF Push
      <4> QED BY <1>1, <3>1, <4>1, SaidIs
    <3>2. CASE ~(Len(f.text) > Len(said) /\ IsPrefix(said, f.text))
      <4>1. d.say = <<>> /\ d.emitted = said
        BY <3>2 DEF Push
      <4> QED BY <1>1, <4>1, SaidIs
    <3> QED BY <3>1, <3>2
  <2> HIDE DEF d
  <2>2. Moves(c, n, b)
    <3>1. log' = [log EXCEPT ![c].heard[f.ch] = @ \o Tag(log[c].posts, d.say)]
      BY <1>3 DEF Frame, d, Tagged, Tag
    <3>2. call' = [[call EXCEPT ![c].frames = Append(@, f)] EXCEPT ![c].emitted[f.ch] = d.emitted]
      BY <1>3 DEF Frame, d
    <3>3. call' = [call EXCEPT ![c] = n]
      BY <3>2 DEF Inv, CallSet
    <3> QED BY <3>1, <3>3 DEF Moves
  <2>3. Good(n, b)
    BY <1>1, <2>1, FrameGood
  <2> QED BY <1>2, <2>2, <2>3, MoveInv
<1>4. CASE ~k.kind.streams
  <2> DEFINE n == [k EXCEPT !.frames = Append(@, f)]
             e == k.emitted[f.ch]
             m == [k EXCEPT !.frames = Append(@, f), !.emitted[f.ch] = e]
             b == [g EXCEPT !.heard[f.ch] = @ \o Tag(g.posts, <<>>)]
  <2>1. Moves(c, n, g)
    BY <1>4 DEF Frame, Moves, Inv
  <2>2. Good(m, b)
    BY <1>1, SaidIs, FrameGood
  <2>3. m = n
    BY <1>1 DEF CallSet
  <2>4. b = g
    <3>1. g.heard \in [Channels -> Seq(Nat \X Nat)] /\ g.heard[f.ch] \in Seq(Nat \X Nat)
      BY <1>1 DEF LogSet
    <3>2. Tag(g.posts, <<>>) = <<>>
      BY DEF Tag
    <3>3. g.heard[f.ch] \o Tag(g.posts, <<>>) = g.heard[f.ch]
      BY <3>1, <3>2, ConcatEmptySeq
    <3> QED BY <1>1, <3>1, <3>3 DEF LogSet
  <2> QED BY <1>2, <2>1, <2>2, <2>3, <2>4, MoveInv
<1> QED BY <1>3, <1>4

(* At the end the client is sent what remains of each channel's full text. *)
Parting(k, ch) ==
  IF Media(k.kind) \/ TextsOf(k.frames, "text") = {} THEN <<>>
  ELSE Remaining(FullText(k.frames, ch), k.emitted[ch])
Ending(k, g, ch) == g.heard[ch] \o Tag(g.posts, Parting(k, ch))
LEMMA EndingTells ==
  ASSUME NEW k, NEW g, Good(k, g), k.pc = "open", NEW ch \in Channels
  PROVE  /\ Ending(k, g, ch) \in Seq(Nat \X Nat)
         /\ \A i \in DOMAIN Ending(k, g, ch) : Ending(k, g, ch)[i][1] = g.posts
         /\ LET said == Letters(Ending(k, g, ch)) IN
            /\ said = <<>> \/ FrameSays(k.frames, ch, said)
            /\ ~Media(k.kind) /\ TextsOf(k.frames, "text") # {} => Whole(k.frames, ch, said)
<1> DEFINE full == FullText(k.frames, ch)
           said == k.emitted[ch]
           old == g.heard[ch]
           p == g.posts
           say == Parting(k, ch)
           new == old \o Tag(p, say)
<1>1. /\ k.frames \in Seq(Frames) /\ said \in Seq(Nat) /\ p \in Nat
      /\ old \in Seq(Nat \X Nat) /\ ~Ended(k) /\ Told(k, g, ch)
  BY DEF Good, CallSet, LogSet, Ended
<1>2. /\ \A i \in DOMAIN old : old[i][1] = p
      /\ Letters(old) = said
      /\ said = <<>> \/ FrameSays(k.frames, ch, said)
  BY <1>1 DEF Told
<1>3. full \in Seq(Nat) /\ (full = <<>> \/ FrameSays(k.frames, ch, full))
  BY <1>1, FullTextIs DEF FrameSays
<1>4. /\ say \in Seq(Nat)
      /\ \/ say = <<>>
         \/ IsPrefix(said, full) /\ say = Rest(full, said)
      /\ ~Media(k.kind) /\ TextsOf(k.frames, "text") # {} /\ IsPrefix(said, full)
           => say = Rest(full, said)
  <2>1. <<>> \in Seq(Nat)
    BY EmptySeq
  <2>1a. say = IF Media(k.kind) \/ TextsOf(k.frames, "text") = {} THEN <<>>
               ELSE Remaining(full, said)
    BY DEF Parting
  <2> HIDE DEF full, said, say
  <2>2. CASE Media(k.kind) \/ TextsOf(k.frames, "text") = {}
    BY <2>1, <2>1a, <2>2
  <2>3. CASE ~(Media(k.kind) \/ TextsOf(k.frames, "text") = {})
    <3>1. say = IF IsPrefix(said, full) THEN Rest(full, said) ELSE <<>>
      BY <2>1a, <2>3 DEF Remaining
    <3> QED BY <1>1, <1>3, <2>1, <3>1, SaidIs
  <2> QED BY <2>2, <2>3
<1>5. Ending(k, g, ch) = new
  BY DEF Ending
<1> HIDE DEF full, said, old, p, say
<1>6. /\ new \in Seq(Nat \X Nat) /\ Letters(new) = said \o say
      /\ \A i \in DOMAIN new : new[i][1] = p
  <2>1. p \in Nat /\ old \in Seq(Nat \X Nat) /\ \A i \in DOMAIN old : old[i][1] = p
    BY <1>1, <1>2
  <2>2. say \in Seq(Nat)
    BY <1>4
  <2>3. /\ old \o Tag(p, say) \in Seq(Nat \X Nat)
        /\ Letters(old \o Tag(p, say)) = Letters(old) \o say
        /\ \A i \in DOMAIN (old \o Tag(p, say)) : (old \o Tag(p, say))[i][1] = p
    BY <2>1, <2>2, AddIs, ZenonT(30)
  <2> QED BY <1>2, <2>3
<1> HIDE DEF new
<1>7. /\ Letters(new) \in {said, full}
      /\ ~Media(k.kind) /\ TextsOf(k.frames, "text") # {} /\ IsPrefix(said, full)
           => Letters(new) = full
  BY <1>1, <1>3, <1>4, <1>6, SaidIs
<1>8. Letters(new) = <<>> \/ FrameSays(k.frames, ch, Letters(new))
  BY <1>2, <1>3, <1>7
<1>9. ASSUME ~Media(k.kind), TextsOf(k.frames, "text") # {}
      PROVE  Whole(k.frames, ch, Letters(new))
  <2> SUFFICES ASSUME \A i \in TextsOf(k.frames, ch) : IsPrefix(k.frames[i].text, full)
               PROVE  Letters(new) = full
    BY DEF Whole, full
  <2>1. CASE said = <<>>
    BY <1>1, <1>3, <1>7, <1>9, <2>1, SaidIs
  <2>2. CASE FrameSays(k.frames, ch, said)
    <3>1. PICK i \in DOMAIN k.frames : k.frames[i] = [ch |-> ch, text |-> said]
      BY <2>2 DEF FrameSays
    <3>2. i \in TextsOf(k.frames, ch) /\ k.frames[i].text = said
      BY <3>1 DEF TextsOf
    <3> QED BY <1>7, <1>9, <3>2
  <2> QED BY <1>2, <2>1, <2>2
<1> QED BY <1>5, <1>6, <1>8, <1>9 DEF p

LEMMA SucceedKeeps ==
  ASSUME Inv, NEW c \in Calls, Succeed(c)
  PROVE  Inv'
<1>1. PICK cookie \in Refreshed(c) :
        /\ SetCookie(c, cookie)
        /\ call' = [call EXCEPT ![c].cookie = cookie,
                                ![c].verdict = 200,
                                ![c].pc = IF Media(call[c].kind) THEN "collect" ELSE "done"]
  BY DEF Succeed
<1> DEFINE k == call[c]
           g == log[c]
           step == IF Media(k.kind) THEN "collect" ELSE "done"
           good == IF k.kind.pooled THEN g.good + 1 ELSE g.good
           heard == [ch \in Channels |-> g.heard[ch] \o Tag(g.posts, Closing(c, ch))]
           n == [k EXCEPT !.cookie = cookie, !.verdict = 200, !.pc = step]
           b == [g EXCEPT !.good = good, !.heard = heard]
<1>2. /\ k \in CallSet /\ k.pc = "open" /\ Good(k, g) /\ Placed(k)
      /\ Counted(k, g) /\ g \in LogSet /\ k.kind \in Kinds /\ ~Ended(k) /\ Underway(k) = 1
  BY DEF Inv, Succeed, At, Good, Placed, Ended, Underway
<1>3. cookie \in Nat \cup {None} /\ World'
  <2>1. /\ cookie \in Nat \cup {None}
        /\ live' \in [Slots -> Nat] /\ jar' \in [Slots -> Nat] /\ baked' \in Nat
    BY <1>1, <1>2, CookieSet
  <2> QED BY <1>1, <2>1 DEF Succeed, Inv, World
<1>4. Moves(c, n, b)
  <2>1. call' = [call EXCEPT ![c] = n]
    BY <1>1, ZenonT(30)
  <2>2. log' = [log EXCEPT ![c] = [Praised(c) EXCEPT
          !.heard = [ch \in Channels |-> @[ch] \o Tagged(c, Closing(c, ch))]]]
    BY DEF Succeed
  <2>3. Praised(c) = [g EXCEPT !.good = good] /\ Praised(c).heard = g.heard
    BY <1>2 DEF Praised, LogSet
  <2>4. [ch \in Channels |-> Praised(c).heard[ch] \o Tagged(c, Closing(c, ch))] = heard
    BY <2>3 DEF Tagged, Tag
  <2> HIDE DEF heard, good
  <2>5. [Praised(c) EXCEPT !.heard = heard] = b
    BY <2>3
  <2> QED BY <2>1, <2>2, <2>4, <2>5 DEF Moves
<1>5. heard = [ch \in Channels |-> Ending(k, g, ch)]
  <2>1. \A ch \in Channels : Closing(c, ch) = Parting(k, ch)
    BY DEF Closing, Parting
  <2> QED BY <2>1 DEF Ending
<1>6. step \in {"collect", "done"} /\ step \in Steps /\ (step = "collect" => Media(k.kind))
  BY DEF Steps
<1> HIDE DEF k, g, step, heard
<1>7. /\ g.posts \in Nat /\ g.good \in Nat /\ g.bad \in Nat /\ g.waits \in Nat
      /\ g.excused \in Int /\ good \in Nat
      /\ good = IF k.kind.pooled THEN g.good + 1 ELSE g.good
  BY <1>2 DEF LogSet
<1> HIDE DEF good
<1>8a. n \in CallSet
  <2>1. 200 \in Nat \cup {None}
    OBVIOUS
  <2> DEFINE first == [k EXCEPT !.cookie = cookie]
             second == [first EXCEPT !.verdict = 200]
  <2>2. n = [second EXCEPT !.pc = step]
    BY <1>2 DEF CallSet
  <2>3. first \in CallSet
    BY <1>2, <1>3 DEF CallSet
  <2> HIDE DEF first, n
  <2>4. second \in CallSet
    BY <2>1, <2>3 DEF CallSet
  <2> HIDE DEF second
  <2> QED BY <1>6, <2>2, <2>4 DEF CallSet
<1>8. /\ n.pc = step /\ n.healed = k.healed
      /\ n.at = k.at /\ n.page = k.page /\ n.token = k.token
      /\ n.kind = k.kind /\ n.attempt = k.attempt
      /\ n.frames = k.frames /\ n.emitted = k.emitted /\ n.lastStatus = k.lastStatus
  BY <1>2, <1>3, <1>6 DEF CallSet
<1>9. /\ b.posts = g.posts /\ b.heard = heard /\ b.good = good
      /\ b.bad = g.bad /\ b.excused = g.excused /\ b.waits = g.waits
  BY <1>2 DEF LogSet
<1>10. b = [g EXCEPT !.good = good, !.heard = heard]
  OBVIOUS
<1> HIDE DEF n, b
<1>11a. n.pc # "open" /\ Ended(n)
  BY <1>6, <1>8 DEF Ended
<1>11. ASSUME NEW ch \in Channels
       PROVE  b.heard[ch] \in Seq(Nat \X Nat) /\ Told(n, b, ch)
  <2>1. b.heard[ch] = Ending(k, g, ch)
    BY <1>5, <1>9
  <2> DEFINE h == Ending(k, g, ch)
             said == Letters(h)
  <2>2. /\ h \in Seq(Nat \X Nat)
        /\ \A i \in DOMAIN h : h[i][1] = g.posts
        /\ said = <<>> \/ FrameSays(k.frames, ch, said)
        /\ ~Media(k.kind) /\ TextsOf(k.frames, "text") # {} => Whole(k.frames, ch, said)
    BY <1>2, EndingTells
  <2> HIDE DEF h
  <2>3. b.heard[ch] = h
    BY <2>1 DEF h
  <2>4. Told(n, b, ch)
    BY <1>8, <1>9, <1>11a, <2>2, <2>3 DEF Told
  <2> QED BY <2>2, <2>3, <2>4
<1>12. b \in LogSet
  <2>1. heard \in [Channels -> Seq(Nat \X Nat)]
    BY <1>5, <1>9, <1>11
  <2> QED BY <1>2, <1>7, <1>10, <2>1 DEF LogSet
<1>13. Placed(n)
  BY <1>2, <1>6, <1>8 DEF Placed
<1>14. Counted(n, b)
  <2>1. k.kind # None /\ Ended(n) /\ Underway(n) = 0
    BY <1>2, <1>6, <1>8, NoneAssumption DEF Ended, Underway
  <2>2. /\ k.kind.pooled => g.good + g.bad + g.excused + g.waits + 1 = g.posts
        /\ g.posts <= Budget(k.kind) + 1
        /\ g.excused \in {0, 1} /\ (~k.healed => g.excused = 0) /\ g.waits = 0
    BY <1>2, <2>1 DEF Counted
  <2>3. n.kind.pooled => b.good + b.bad + b.excused + b.waits + 0 = b.posts
    BY <1>7, <1>8, <1>9, <2>2
  <2> QED BY <1>6, <1>8, <1>9, <2>1, <2>2, <2>3 DEF Counted
<1>15. Good(n, b)
  <2>1. Ended(n) /\ n.lastStatus # 200
    BY <1>2, <1>6, <1>8 DEF Ended, Good
  <2> QED BY <1>8a, <1>11, <1>12, <1>13, <1>14, <2>1 DEF Good
<1> QED BY <1>3, <1>4, <1>15, MoveInv

-----------------------------------------------------------------------------
(* The invariant *)

LEMMA Starts == Init => Inv
<1> SUFFICES ASSUME Init PROVE Inv
  OBVIOUS
<1>1. PICK plan \in Plans : call = [c \in Calls |-> Idle(plan[c])]
  BY DEF Init
<1>2. \A c \in Calls : plan[c] \in Kinds \cup {None}
  BY PlansAssumption
<1>3. Silence \in [Channels -> Seq(Nat)] /\ \A ch \in Channels : Silence[ch] = <<>>
  BY EmptySeq DEF Silence
<1>4. \A ch \in Channels : Silence[ch] \in Seq(Nat \X Nat)
  BY <1>3, EmptySeq
<1>5. Silence \in [Channels -> Seq(Nat \X Nat)]
  BY <1>4 DEF Silence
<1>6. <<>> \in Seq(Frames) /\ Letters(<<>>) = <<>> /\ DOMAIN <<>> = {}
  BY EmptySeq DEF Letters
<1>7. Unheard \in LogSet
  BY <1>5 DEF Unheard, LogSet
<1>8. ASSUME NEW c \in Calls
      PROVE  call[c] \in CallSet /\ log[c] \in LogSet /\ Good(call[c], log[c])
  <2> DEFINE k == Idle(plan[c])
  <2>1. call[c] = k /\ log[c] = Unheard
    BY <1>1 DEF Init
  <2>2. k \in CallSet
    BY <1>2, <1>3, <1>6 DEF Idle, CallSet, Steps
  <2>3. /\ k.pc = "idle" /\ k.kind = plan[c] /\ k.token = None /\ k.at = None
        /\ k.page = None /\ ~k.healed /\ k.attempt = 0 /\ k.emitted = Silence
        /\ k.lastStatus = 0 /\ k.verdict = None
    BY DEF Idle
  <2> HIDE DEF k
  <2>4. /\ Unheard.posts = 0 /\ Unheard.good = 0 /\ Unheard.bad = 0 /\ Unheard.waits = 0
        /\ Unheard.excused = 0 /\ Unheard.heard = Silence
    BY DEF Unheard
  <2>5. Placed(k)
    BY <2>3 DEF Placed
  <2>6. Counted(k, Unheard)
    <3> SUFFICES ASSUME k.kind # None PROVE Counted(k, Unheard)
      BY DEF Counted
    <3>1. Budget(k.kind) \in Nat /\ Budget(k.kind) > 0
      BY <1>2, <2>3, Kinded, BudgetAssumption
    <3> QED BY <2>3, <2>4, <3>1 DEF Counted, Ended, Underway
  <2>7. ASSUME NEW ch \in Channels PROVE Told(k, Unheard, ch)
    <3>1. Unheard.heard[ch] = <<>> /\ k.emitted[ch] = <<>>
      BY <1>3, <2>3, <2>4
    <3> QED BY <1>6, <2>3, <3>1 DEF Told
  <2>8. Good(k, Unheard)
    BY <1>7, <2>2, <2>3, <2>5, <2>6, <2>7 DEF Good
  <2> QED BY <1>7, <2>1, <2>2, <2>8
<1>9. World
  BY DEF Init, World
<1>10. call \in [Calls -> CallSet] /\ log \in [Calls -> LogSet]
  <2>1. call = [c \in Calls |-> call[c]] /\ log = [c \in Calls |-> log[c]]
    BY <1>1 DEF Init
  <2> QED BY <1>8, <2>1
<1> QED BY <1>8, <1>9, <1>10 DEF Inv

LEMMA Keeps == Inv /\ [Next]_vars => Inv'
<1> SUFFICES ASSUME Inv, [Next]_vars PROVE Inv'
  OBVIOUS
<1>1. ASSUME NEW c \in Calls, Start(c) PROVE Inv'
  BY <1>1, StartKeeps
<1>2. ASSUME NEW c \in Calls, Work(c) PROVE Inv'
  <2>1. CASE Lookup(c) BY <2>1, LookupKeeps
  <2>2. CASE FetchPage(c) BY <2>2, FetchKeeps
  <2>3. CASE FetchFails(c) BY <2>3, FetchFailsKeeps
  <2>4. CASE StorePage(c) BY <2>4, StoreKeeps
  <2>5. CASE Post(c) BY <2>5, PostKeeps
  <2>6. CASE Heal(c) BY <2>6, HealKeeps
  <2>7. CASE RefusedAgain(c) \/ Reset(c) \/ Empty(c) \/ \E code \in Codes : Status(c, code)
    BY <2>7, BlameKeeps
  <2>8. CASE TimeOut(c) BY <2>8, TimeOutKeeps
  <2>9. CASE Succeed(c) BY <2>9, SucceedKeeps
  <2>10. CASE Collect(c) BY <2>10, CollectKeeps
  <2>11. CASE \E f \in Frames : Frame(c, f) BY <2>11, FrameKeeps
  <2> QED BY <1>2, <2>1, <2>2, <2>3, <2>4, <2>5, <2>6, <2>7, <2>8, <2>9, <2>10, <2>11 DEF Work
<1>3. ASSUME NEW s \in Slots, Expire(s) PROVE Inv'
  <2>1. live' = [live EXCEPT ![s] = @ + 1] /\ UNCHANGED <<jar, baked, cache, call, log>>
    BY <1>3 DEF Expire
  <2>2. live' \in [Slots -> Nat]
    BY <2>1 DEF Inv, World
  <2>3. World'
    BY <2>1, <2>2 DEF Inv, World
  <2> QED BY <2>1, <2>3 DEF Inv
<1>4. ASSUME NEW key \in DOMAIN cache, Lapse(key) PROVE Inv'
  <2>1. cache' = Drop(key) /\ UNCHANGED <<live, jar, baked, call, log>>
    BY <1>4 DEF Lapse, upstream
  <2>2. World'
    BY <2>1 DEF Drop, Inv, World
  <2> QED BY <2>1, <2>2 DEF Inv
<1>5. CASE UNCHANGED vars
  BY <1>5 DEF vars, Inv, World
<1> QED BY <1>1, <1>2, <1>3, <1>4, <1>5 DEF Next, Done

LEMMA Always == Spec => []Inv
  BY Starts, Keeps, PTL DEF Spec

-----------------------------------------------------------------------------
(* Theorems *)

(* No handler and no entry of the shared cache (cookieKey, xsrf.go) ever   *)
(* holds the token of another slot, whatever cookies the slots share and   *)
(* whatever expires or is dropped in between.                              *)
THEOREM TokenOfSlotAlways == Spec => []TokenOfSlot
<1>1. Inv => TokenOfSlot
  BY DEF Inv, World, Good, Placed, TokenOfSlot, Slot
<1> QED BY <1>1, Always, PTL

(* Everything a client was sent by one call comes from its last post: the  *)
(* retry loop of streamGenerateWithFiles never repeats a call that has     *)
(* passed something on.                                                    *)
THEOREM OneAnswerAlways == Spec => []OneAnswer
<1>1. Inv => OneAnswer
  BY DEF Inv, Good, Told, OneAnswer
<1> QED BY <1>1, Always, PTL

(* The stream reads as one frame at any time, and as the full text after a *)
(* success (deltaTracker.Push, remainingOf).                               *)
THEOREM StreamExactAlways == Spec => []StreamExact
<1>1. ASSUME Inv, NEW c \in Calls, NEW ch \in Channels
      PROVE  /\ HeardOneFrame(c, ch)
             /\ (/\ At(c, "done") /\ call[c].verdict = 200 /\ ~Media(call[c].kind)
                 /\ TextsOf(call[c].frames, "text") # {}) => HeardAll(c, ch)
  <2>1. Told(call[c], log[c], ch)
    BY <1>1 DEF Inv, Good
  <2>2. HeardOneFrame(c, ch)
    BY <2>1 DEF Told, FrameSays, HeardOneFrame
  <2>3. (/\ At(c, "done") /\ call[c].verdict = 200 /\ ~Media(call[c].kind)
         /\ TextsOf(call[c].frames, "text") # {}) => HeardAll(c, ch)
    BY <2>1 DEF Told, Whole, HeardAll, At
  <2> QED BY <2>2, <2>3
<1>2. Inv => StreamExact
  BY <1>1 DEF StreamExact
<1> QED BY <1>2, Always, PTL

(* Each post is reported for its exit once, repeated for free at most once *)
(* and counted against the budget otherwise (recordProxyResult and the     *)
(* attempts of streamGenerateWithFiles).                                   *)
THEOREM PostsAccountedAlways == Spec => []PostsAccounted
<1>1. ASSUME Inv, NEW c \in Calls, call[c].kind # None
      PROVE  /\ call[c].kind.pooled =>
                  log[c].good + log[c].bad + log[c].excused + log[c].waits
                    + (IF call[c].pc \in {"open", "refused"} THEN 1 ELSE 0) = log[c].posts
             /\ log[c].posts <= RetryAttempts + 1
             /\ Media(call[c].kind) => log[c].posts <= 3 /\ log[c].waits <= 1
  <2>1. Counted(call[c], log[c]) /\ log[c] \in LogSet /\ call[c] \in CallSet
    BY <1>1 DEF Inv, Good
  <2>2. call[c].kind \in Kinds
    BY <1>1, <2>1 DEF CallSet
  <2> DEFINE bound == Budget(call[c].kind)
  <2>3. /\ bound \in Nat /\ bound <= RetryAttempts /\ (Media(call[c].kind) => bound <= 2)
        /\ RetryAttempts \in Nat
    BY <2>2, Kinded, BudgetAssumption
  <2>4. log[c].posts <= bound + 1 /\ log[c].waits \in {0, 1} /\ log[c].posts \in Nat
    BY <1>1, <2>1 DEF Counted, LogSet
  <2>5. call[c].kind.pooled =>
          log[c].good + log[c].bad + log[c].excused + log[c].waits
            + (IF call[c].pc \in {"open", "refused"} THEN 1 ELSE 0) = log[c].posts
    BY <1>1, <2>1 DEF Counted, Underway
  <2> HIDE DEF bound
  <2> QED BY <2>3, <2>4, <2>5
<1>2. Inv => PostsAccounted
  BY <1>1 DEF PostsAccounted
<1> QED BY <1>2, Always, PTL

-----------------------------------------------------------------------------
(* CookiePool *)

Labels == {"idle", "pick", "touch", "exit", "token", "rotate", "retry", "bind",
           "serve", "exhausted", "fail", "dead", "disable", "settled", "check"}
Working == {"touch", "token", "rotate", "retry", "bind", "fail", "check", "dead",
            "disable", "settled"}
Failing == {"dead", "disable", "settled"}

Table ==
  /\ now \in Nat /\ nextId \in Nat \ {0}
  /\ DOMAIN db \subseteq Ids /\ db \in [DOMAIN db -> Row]
  /\ \A i \in DOMAIN db : i < nextId
  /\ usable \subseteq Exits /\ downs \subseteq Exits /\ Exits \subseteq usable \cup downs
  /\ bounds \in [{"calls", "checks", "edits", "switches", "errors", "flips"} -> Nat]
  /\ turns \in [Ids -> Nat] /\ auths \in [Ids -> Nat] /\ streak \in [Ids -> Nat]
  /\ retired \in [Ids -> Nat \cup {Nil}]

Control ==
  /\ pc \in [Procs -> Labels]
  /\ acct \in [Procs -> Account \cup {Nil}]
  /\ tried \in [Requests -> SUBSET Ids]
  /\ exit \in [Requests -> Exits \cup {Direct, Nil}]
  /\ dying \in [Procs -> {"served", "picking"}]
  /\ pickMu \in Requests \cup {Nil}

(* Where a request may stand: it has an account wherever it works with one *)
(* and an exit from its first token on, it has tried nobody before that,   *)
(* and it holds pickMu exactly between SELECT and UPDATE.                  *)
Seated(r) ==
  /\ pc[r] # "check" /\ (pc[r] = "idle" => acct[r] = Nil)
  /\ pc[r] \in Working => acct[r] # Nil
  /\ acct[r] # Nil => acct[r].id < nextId
  /\ pc[r] \in {"idle", "exit"} => exit[r] = Nil
  /\ exit[r] = Nil => pc[r] \in {"idle", "pick", "touch", "exit"} /\ tried[r] = {}
  /\ pc[r] = "serve" /\ acct[r] = Nil => FallbackAnon \/ tried[r] = {}
  /\ pc[r] = "touch" <=> pickMu = r

CheckSeated(c) ==
  /\ pc[c] \in Failing \cup {"idle", "check"}
  /\ pc[c] # "idle" => acct[c] # Nil
  /\ acct[c] # Nil => acct[c].id < nextId
  /\ dying[c] = "served"

PoolInv ==
  /\ Table
  /\ Control
  /\ \A r \in Requests : Seated(r)
  /\ \A c \in Checkers : CheckSeated(c)

(* A step of p leaves the others where they are.                           *)
StaysBut(p) ==
  /\ \A q \in Procs \ {p} : pc'[q] = pc[q] /\ acct'[q] = acct[q] /\ dying'[q] = dying[q]
  /\ \A q \in Requests \ {p} : /\ tried'[q] = tried[q] /\ exit'[q] = exit[q]
                               /\ pickMu' = q <=> pickMu = q

LEMMA OneMoves ==
  ASSUME PoolInv, NEW p \in Procs, Table', Control', StaysBut(p), nextId' = nextId,
         p \in Requests => Seated(p)', p \in Checkers => CheckSeated(p)'
  PROVE  PoolInv'
<1>1. ASSUME NEW q \in Requests PROVE Seated(q)'
  <2>1. CASE q = p
    BY <2>1, <1>1
  <2>2. CASE q # p
    BY <2>2, <1>1 DEF PoolInv, Seated, StaysBut, Procs
  <2> QED
    BY <2>1, <2>2
<1>2. ASSUME NEW q \in Checkers PROVE CheckSeated(q)'
  <2>1. CASE q = p
    BY <2>1, <1>2
  <2>2. CASE q # p
    BY <2>2, <1>2 DEF PoolInv, CheckSeated, StaysBut, Procs
  <2> QED
    BY <2>1, <2>2
<1> QED
  BY <1>1, <1>2 DEF PoolInv

(* Steps of the surroundings.                                              *)
LEMMA NobodyMoves ==
  ASSUME PoolInv, Table', UNCHANGED <<pc, request, pickMu>>, nextId' \in {nextId, nextId + 1}
  PROVE  PoolInv'
<1>1. nextId \in Nat /\ nextId' \in Nat /\ nextId <= nextId' /\ Control'
  BY DEF PoolInv, Table, Control, request
<1>2. \A a \in Account : a.id \in Nat
  BY IdsAssumption DEF Account
<1>3. ASSUME NEW q \in Procs, acct[q] # Nil, acct[q].id < nextId PROVE acct[q].id < nextId'
  <2>1. acct[q].id \in Nat
    BY <1>2, <1>3 DEF PoolInv, Control
  <2> QED
    BY <2>1, <1>1, <1>3
<1>4. \A q \in Requests : Seated(q)'
  BY <1>3 DEF PoolInv, Seated, request, Procs
<1>5. \A q \in Checkers : CheckSeated(q)'
  BY <1>3 DEF PoolInv, CheckSeated, request, Procs
<1> QED
  BY <1>1, <1>4, <1>5 DEF PoolInv

(* What one UPDATE does to the table.                                      *)
LEMMA UpdateIs ==
  ASSUME NEW i, NEW row, db \in [DOMAIN db -> Row], i \in DOMAIN db => row \in Row,
         db' = Update(i, row)
  PROVE  /\ DOMAIN db' = DOMAIN db
         /\ db' \in [DOMAIN db -> Row]
         /\ \A j \in DOMAIN db : j # i => db'[j] = db[j]
         /\ i \in DOMAIN db => db'[i] = row
BY DEF Update

LEMMA Participants ==
  /\ \A r \in Requests : r \in Procs /\ r \notin Checkers /\ r # Nil
  /\ \A c \in Checkers : c \in Procs /\ c \notin Requests /\ c # Nil
BY ProcsAssumption DEF Procs

LEMMA SnapshotIs ==
  ASSUME PoolInv, NEW i \in DOMAIN db
  PROVE  /\ Snapshot(i) \in Account /\ Snapshot(i) # Nil
         /\ Snapshot(i).id = i /\ i < nextId
         /\ Snapshot(i).proxy = db[i].proxy
<1>1. db[i] \in Row /\ i \in Ids /\ i < nextId
  BY DEF PoolInv, Table
<1>2. Snapshot(i) \in Account
  BY <1>1 DEF Snapshot, Row, Account
<1> QED
  BY <1>1, <1>2, UsableAssumption DEF Snapshot

(* A counter that has room takes one more.                                 *)
LEMMA CountIs ==
  ASSUME PoolInv, NEW f \in {"calls", "checks", "edits", "switches", "errors", "flips"},
         NEW max, Count(f, max)
  PROVE  bounds' \in [{"calls", "checks", "edits", "switches", "errors", "flips"} -> Nat]
BY DEF PoolInv, Table, Count

LEMMA StartRequestKeeps ==
  ASSUME PoolInv, NEW r \in Requests, StartRequest(r)
  PROVE  PoolInv' /\ StaysBut(r)
<1>1. pc[r] = "idle" /\ \E l \in {"pick", "exit"} : pc' = [pc EXCEPT ![r] = l]
  BY DEF StartRequest, Goto
<1>2. Table'
  BY CountIs DEF StartRequest, PoolInv, Table, history
<1>3. Control' /\ StaysBut(r) /\ nextId' = nextId
  BY <1>1, Participants DEF StartRequest, PoolInv, Control, StaysBut, request, Labels
<1>4. Seated(r)'
  <2>1. pc'[r] \in {"pick", "exit"}
    BY <1>1, Participants DEF PoolInv, Control
  <2> QED
    BY <2>1, <1>1, Participants DEF StartRequest, PoolInv, Seated, Working, request
<1> QED
  BY <1>2, <1>3, <1>4, OneMoves, Participants

LEMMA SelectKeeps ==
  ASSUME PoolInv, NEW r \in Requests, Select(r)
  PROVE  PoolInv' /\ StaysBut(r)
<1>1. PICK i \in Enabled(db) \ tried[r] : acct' = [acct EXCEPT ![r] = Snapshot(i)]
  BY DEF Select
<1>2. i \in DOMAIN db
  BY DEF Enabled
<1>3. /\ Snapshot(i) \in Account /\ Snapshot(i) # Nil
      /\ Snapshot(i).id = i /\ i < nextId
  BY <1>2, SnapshotIs
<1>4. pc[r] = "pick" /\ pickMu = Nil /\ pickMu' = r /\ pc' = [pc EXCEPT ![r] = "touch"]
  BY DEF Select, Goto
<1>5. Table'
  BY DEF Select, PoolInv, Table, history
<1> HIDE DEF Snapshot
<1>6. Control'
  BY <1>1, <1>3, <1>4, Participants DEF Select, PoolInv, Control, Labels
<1>7. StaysBut(r) /\ nextId' = nextId
  BY <1>1, <1>4, Participants DEF Select, PoolInv, Control, StaysBut
<1>8. Seated(r)'
  <2>1. pc'[r] = "touch" /\ acct'[r] = Snapshot(i)
    BY <1>1, <1>4, Participants DEF PoolInv, Control
  <2> QED
    BY <2>1, <1>3, <1>4, <1>7, Participants DEF Select, PoolInv, Seated, Working
<1> QED
  BY <1>5, <1>6, <1>7, <1>8, OneMoves, Participants

LEMMA SelectNothingKeeps ==
  ASSUME PoolInv, NEW r \in Requests, SelectNothing(r)
  PROVE  PoolInv' /\ StaysBut(r)
<1>1. /\ pc[r] = "pick" /\ acct' = [acct EXCEPT ![r] = Nil]
      /\ pc' = [pc EXCEPT ![r] = IF exit[r] = Nil THEN "exit" ELSE "exhausted"]
  BY DEF SelectNothing, Goto
<1>2. Table'
  BY CountIs DEF SelectNothing, PoolInv, Table, history
<1>3. Control' /\ StaysBut(r) /\ nextId' = nextId
  BY <1>1, Participants DEF SelectNothing, PoolInv, Control, StaysBut, Labels
<1>4. Seated(r)'
  <2>1. pc'[r] = (IF exit[r] = Nil THEN "exit" ELSE "exhausted") /\ acct'[r] = Nil
    BY <1>1, Participants DEF PoolInv, Control
  <2> QED
    BY <2>1, <1>1, Participants DEF SelectNothing, PoolInv, Seated, Working
<1> QED
  BY <1>2, <1>3, <1>4, OneMoves, Participants

(* What a row is after its UPDATE.                                         *)
LEMMA RowIs ==
  ASSUME PoolInv, NEW i \in DOMAIN db
  PROVE  db[i] \in Row /\ db[i].fails \in Nat /\ i \in Ids
BY DEF PoolInv, Table, Row

LEMMA OnWritten ==
  ASSUME PoolInv, NEW i \in DOMAIN db, NEW on \in BOOLEAN, NEW row,
         row = [db[i] EXCEPT !.on = on]
  PROVE  /\ row \in Row /\ row.on = on
         /\ row.fails = db[i].fails /\ row.used = db[i].used /\ row.proxy = db[i].proxy
<1> DEFINE old == db[i]
<1>1. old \in Row
  BY RowIs
<1> HIDE DEF old
<1>2. row = [old EXCEPT !.on = on]
  BY DEF old
<1>3. /\ row \in Row /\ row.on = on
      /\ row.fails = old.fails /\ row.used = old.used /\ row.proxy = old.proxy
  BY <1>1, <1>2 DEF Row
<1> QED
  BY <1>3 DEF old

LEMMA OffWritten ==
  ASSUME PoolInv, NEW i \in DOMAIN db, NEW row, row = [db[i] EXCEPT !.on = FALSE]
  PROVE  /\ row \in Row
         /\ row.fails = db[i].fails /\ row.used = db[i].used /\ row.proxy = db[i].proxy
<1>1. FALSE \in BOOLEAN
  OBVIOUS
<1> QED
  BY <1>1, OnWritten

LEMMA FailsWritten ==
  ASSUME PoolInv, NEW i \in DOMAIN db, NEW n \in Nat, NEW row,
         row = [db[i] EXCEPT !.fails = n]
  PROVE  /\ row \in Row /\ row.fails = n
         /\ row.on = db[i].on /\ row.used = db[i].used /\ row.proxy = db[i].proxy
<1> DEFINE old == db[i]
<1>1. old \in Row
  BY RowIs
<1> HIDE DEF old
<1>2. row = [old EXCEPT !.fails = n]
  BY DEF old
<1>3. /\ row \in Row /\ row.fails = n
      /\ row.on = old.on /\ row.used = old.used /\ row.proxy = old.proxy
  BY <1>1, <1>2 DEF Row
<1> QED
  BY <1>3 DEF old

LEMMA UsedWritten ==
  ASSUME PoolInv, NEW i \in DOMAIN db, NEW row, row = [db[i] EXCEPT !.used = now]
  PROVE  /\ row \in Row /\ row.used = now
         /\ row.on = db[i].on /\ row.fails = db[i].fails /\ row.proxy = db[i].proxy
<1> DEFINE old == db[i]
<1>1. old \in Row /\ now \in Nat
  BY RowIs DEF PoolInv, Table
<1> HIDE DEF old
<1>2. row = [old EXCEPT !.used = now]
  BY DEF old
<1>3. /\ row \in Row /\ row.used = now
      /\ row.on = old.on /\ row.fails = old.fails /\ row.proxy = old.proxy
  BY <1>1, <1>2 DEF Row
<1> QED
  BY <1>3 DEF old

LEMMA ProxyWritten ==
  ASSUME PoolInv, NEW i \in DOMAIN db, NEW e \in Exits \cup {Direct}, NEW row,
         row = [db[i] EXCEPT !.proxy = e]
  PROVE  /\ row \in Row /\ row.proxy = e
         /\ row.on = db[i].on /\ row.fails = db[i].fails /\ row.used = db[i].used
<1> DEFINE old == db[i]
<1>1. old \in Row
  BY RowIs
<1> HIDE DEF old
<1>2. row = [old EXCEPT !.proxy = e]
  BY DEF old
<1>3. /\ row \in Row /\ row.proxy = e
      /\ row.on = old.on /\ row.fails = old.fails /\ row.used = old.used
  BY <1>1, <1>2 DEF Row
<1> QED
  BY <1>3 DEF old

(* The rows keep their type when one of them is written.                   *)
LEMMA WriteTable ==
  ASSUME PoolInv, NEW i, NEW row, i \in DOMAIN db => row \in Row, db' = Update(i, row)
  PROVE  /\ DOMAIN db' \subseteq Ids /\ db' \in [DOMAIN db' -> Row]
         /\ \A j \in DOMAIN db' : j < nextId
<1>1. DOMAIN db' = DOMAIN db /\ db' \in [DOMAIN db -> Row]
  BY UpdateIs DEF PoolInv, Table
<1> QED
  BY <1>1 DEF PoolInv, Table

(* A history that counts once more, whatever for.                          *)
LEMMA CountedOnce ==
  ASSUME NEW f \in [Ids -> Nat], NEW i
  PROVE  [f EXCEPT ![i] = @ + 1] \in [Ids -> Nat]
<1>1. CASE i \in Ids
  BY <1>1
<1>2. CASE i \notin Ids
  BY <1>2
<1> QED
  BY <1>1, <1>2

LEMMA AnsweredIs ==
  ASSUME PoolInv, NEW i, NEW answer, Answered(i, answer)
  PROVE  auths' \in [Ids -> Nat]
BY CountedOnce DEF Answered, PoolInv, Table

LEMMA TouchKeeps ==
  ASSUME PoolInv, NEW r \in Requests, Touch(r)
  PROVE  PoolInv' /\ StaysBut(r)
<1>0. pc[r] = "touch" /\ acct[r] # Nil /\ pickMu = r /\ pickMu' = Nil
  BY DEF Touch, PoolInv, Seated, Working
<1>1. PICK l \in {"exit", "token", "exhausted"} :
        pc' = [pc EXCEPT ![r] = l] /\ (exit[r] = Nil <=> l = "exit")
  BY DEF Touch, Goto
<1>2. Table'
  <2> DEFINE row == [db[acct[r].id] EXCEPT !.used = now]
  <2>1. acct[r].id \in DOMAIN db => row \in Row
    BY UsedWritten
  <2>2. db' = Update(acct[r].id, row)
    BY DEF Touch
  <2> HIDE DEF row
  <2>3. DOMAIN db' \subseteq Ids /\ db' \in [DOMAIN db' -> Row] /\ \A j \in DOMAIN db' : j < nextId
    BY <2>1, <2>2, WriteTable
  <2>4. turns' \in [Ids -> Nat]
    BY CountedOnce DEF Touch, PoolInv, Table
  <2> QED
    BY <2>3, <2>4 DEF Touch, PoolInv, Table
<1>3. Control' /\ StaysBut(r) /\ nextId' = nextId
  BY <1>0, <1>1, Participants DEF Touch, PoolInv, Control, StaysBut, Labels, request
<1>4. Seated(r)'
  <2>1. pc'[r] = l
    BY <1>1, Participants DEF PoolInv, Control
  <2> QED
    BY <2>1, <1>0, <1>1, Participants DEF Touch, PoolInv, Seated, Working, request
<1> QED
  BY <1>2, <1>3, <1>4, OneMoves, Participants

LEMMA TakeExitKeeps ==
  ASSUME PoolInv, NEW r \in Requests, TakeExit(r)
  PROVE  PoolInv' /\ StaysBut(r)
<1>0. pc[r] = "exit" /\ exit[r] = Nil /\ tried[r] = {}
  BY DEF TakeExit, PoolInv, Seated
<1>2. Table'
  BY DEF TakeExit, PoolInv, Table
<1>3. CASE pc' = [pc EXCEPT ![r] = "idle"] /\ acct' = [acct EXCEPT ![r] = Nil] /\ exit' = exit
  <2>1. Control' /\ StaysBut(r) /\ nextId' = nextId
    BY <1>0, <1>3, Participants DEF TakeExit, PoolInv, Control, StaysBut, Labels
  <2>2. pc'[r] = "idle" /\ acct'[r] = Nil
    BY <1>3, Participants DEF PoolInv, Control
  <2>3. Seated(r)'
    BY <2>2, <1>0, <1>3, Participants DEF TakeExit, PoolInv, Seated, Working
  <2> QED
    BY <1>2, <2>1, <2>3, OneMoves, Participants
<1>4. ASSUME NEW e \in usable \cup {Direct}, exit' = [exit EXCEPT ![r] = e],
             pc' = [pc EXCEPT ![r] = IF acct[r] = Nil THEN "serve" ELSE "token"], acct' = acct
      PROVE  PoolInv' /\ StaysBut(r)
  <2>0. e \in Exits \cup {Direct} /\ e # Nil
    BY <1>4, ExitsAssumption DEF PoolInv, Table
  <2>1. Control' /\ StaysBut(r) /\ nextId' = nextId
    BY <2>0, <1>0, <1>4, Participants DEF TakeExit, PoolInv, Control, StaysBut, Labels
  <2>2. pc'[r] = (IF acct[r] = Nil THEN "serve" ELSE "token") /\ exit'[r] = e
    BY <1>4, Participants DEF PoolInv, Control
  <2>3. Seated(r)'
    BY <2>0, <2>2, <1>0, <1>4, Participants DEF TakeExit, PoolInv, Seated, Working
  <2> QED
    BY <1>2, <2>1, <2>3, OneMoves, Participants
<1> QED
  BY <1>3, <1>4 DEF TakeExit, Goto

LEMMA ObtainTokenKeeps ==
  ASSUME PoolInv, NEW r \in Requests, ObtainToken(r)
  PROVE  PoolInv' /\ StaysBut(r)
<1>0. pc[r] = "token" /\ acct[r] # Nil /\ acct[r].id \in Ids
  BY DEF ObtainToken, PoolInv, Seated, Working, Control, Procs, Account
<1>1. PICK l \in {"bind", "rotate"} : pc' = [pc EXCEPT ![r] = l]
  BY DEF ObtainToken, Goto
<1>2. Table'
  BY AnsweredIs DEF ObtainToken, PoolInv, Table
<1>3. Control' /\ StaysBut(r) /\ nextId' = nextId
  BY <1>0, <1>1, Participants DEF ObtainToken, PoolInv, Control, StaysBut, Labels
<1>4. Seated(r)'
  <2>1. pc'[r] = l
    BY <1>1, Participants DEF PoolInv, Control
  <2> QED
    BY <2>1, <1>0, <1>1, Participants DEF ObtainToken, PoolInv, Seated, Working
<1> QED
  BY <1>2, <1>3, <1>4, OneMoves, Participants

LEMMA RotateKeeps ==
  ASSUME PoolInv, NEW r \in Requests, Rotate(r)
  PROVE  PoolInv' /\ StaysBut(r)
<1>0. pc[r] = "rotate" /\ acct[r] # Nil
  BY DEF Rotate, PoolInv, Seated, Working
<1>1. Table'
  BY DEF Rotate, PoolInv, Table, history
<1>2. PICK a \in Account, l \in {"retry", "fail"} :
        /\ pc' = [pc EXCEPT ![r] = l] /\ acct' = [acct EXCEPT ![r] = a]
        /\ a # Nil /\ a.id < nextId
  <2>1. CASE pc' = [pc EXCEPT ![r] = "fail"] /\ acct' = acct
    <3>1. acct[r] \in Account /\ acct[r].id < nextId
      BY <1>0, Participants DEF PoolInv, Control, Seated
    <3>2. acct' = [acct EXCEPT ![r] = acct[r]]
      BY <2>1, Participants DEF PoolInv, Control
    <3> QED
      BY <2>1, <3>1, <3>2, <1>0
  <2>2. ASSUME acct[r].id \in DOMAIN db, pc' = [pc EXCEPT ![r] = "retry"],
               acct' = [acct EXCEPT ![r] = [Snapshot(acct[r].id) EXCEPT !.slot = db[acct[r].id].slot]]
        PROVE  \E a \in Account :
                 /\ acct' = [acct EXCEPT ![r] = a]
                 /\ a # Nil /\ a.id < nextId
    <3> DEFINE s == Snapshot(acct[r].id)
               n == db[acct[r].id].slot
               a == [s EXCEPT !.slot = n]
    <3>1. s \in Account /\ s.id < nextId
      BY <2>2, SnapshotIs
    <3>2. n \in Nat
      BY <2>2 DEF PoolInv, Table, Row
    <3> HIDE DEF s, n
    <3>3. a \in Account /\ a.id = s.id
      BY <3>1, <3>2 DEF Account
    <3>4. a # Nil
      BY <3>3, UsableAssumption
    <3>5. acct' = [acct EXCEPT ![r] = a]
      BY <2>2 DEF s, n
    <3> QED
      BY <3>1, <3>3, <3>4, <3>5
  <2> QED
    BY <2>1, <2>2 DEF Rotate, Goto
<1>3. Control' /\ StaysBut(r) /\ nextId' = nextId
  BY <1>2, Participants DEF Rotate, PoolInv, Control, StaysBut, Labels
<1>4. Seated(r)'
  <2>1. pc'[r] = l /\ acct'[r] = a
    BY <1>2, Participants DEF PoolInv, Control
  <2> QED
    BY <2>1, <1>0, <1>2, Participants DEF Rotate, PoolInv, Seated, Working
<1> QED
  BY <1>1, <1>3, <1>4, OneMoves, Participants

LEMMA RetryKeeps ==
  ASSUME PoolInv, NEW r \in Requests, Retry(r)
  PROVE  PoolInv' /\ StaysBut(r)
<1>0. pc[r] = "retry" /\ acct[r] # Nil
  BY DEF Retry, PoolInv, Seated, Working
<1>1. PICK l \in {"bind", "fail"} : pc' = [pc EXCEPT ![r] = l]
  BY DEF Retry, Goto
<1>2. Table'
  BY AnsweredIs DEF Retry, PoolInv, Table
<1>3. Control' /\ StaysBut(r) /\ nextId' = nextId
  BY <1>0, <1>1, Participants DEF Retry, PoolInv, Control, StaysBut, Labels, request
<1>4. Seated(r)'
  <2>1. pc'[r] = l
    BY <1>1, Participants DEF PoolInv, Control
  <2> QED
    BY <2>1, <1>0, <1>1, Participants DEF Retry, PoolInv, Seated, Working, request
<1> QED
  BY <1>2, <1>3, <1>4, OneMoves, Participants

LEMMA BindKeeps ==
  ASSUME PoolInv, NEW r \in Requests, Bind(r)
  PROVE  PoolInv' /\ StaysBut(r)
<1>0. pc[r] = "bind" /\ acct[r] # Nil /\ exit[r] \in Exits \cup {Direct}
  BY Participants DEF Bind, PoolInv, Seated, Working, Control
<1>1. pc' = [pc EXCEPT ![r] = "serve"]
  BY DEF Bind, Goto
<1>2. Table'
  <2>1. CASE db' = db
    BY <2>1 DEF Bind, PoolInv, Table, history
  <2>2. CASE db' # db
    <3> DEFINE row == [db[acct[r].id] EXCEPT !.proxy = exit[r]]
    <3>1. acct[r].id \in DOMAIN db => row \in Row
      BY <1>0, ProxyWritten
    <3>2. db' = Update(acct[r].id, row)
      BY <2>2 DEF Bind
    <3> HIDE DEF row
    <3>3. DOMAIN db' \subseteq Ids /\ db' \in [DOMAIN db' -> Row] /\ \A j \in DOMAIN db' : j < nextId
      BY <3>1, <3>2, WriteTable
    <3> QED
      BY <3>3 DEF Bind, PoolInv, Table, history
  <2> QED
    BY <2>1, <2>2
<1>3. Control' /\ StaysBut(r) /\ nextId' = nextId
  BY <1>1, Participants DEF Bind, PoolInv, Control, StaysBut, Labels, request
<1>4. Seated(r)'
  <2>1. pc'[r] = "serve"
    BY <1>1, Participants DEF PoolInv, Control
  <2> QED
    BY <2>1, <1>0, <1>1, Participants DEF Bind, PoolInv, Seated, Working, request
<1> QED
  BY <1>2, <1>3, <1>4, OneMoves, Participants

LEMMA ExhaustedKeeps ==
  ASSUME PoolInv, NEW r \in Requests, Exhausted(r)
  PROVE  PoolInv' /\ StaysBut(r)
<1>0. pc[r] = "exhausted" /\ exit[r] # Nil /\ acct' = [acct EXCEPT ![r] = Nil]
  BY DEF Exhausted, PoolInv, Seated
<1>1. Table'
  BY DEF Exhausted, PoolInv, Table, history
<1>2. CASE FallbackAnon
  <2>1. pc' = [pc EXCEPT ![r] = "serve"] /\ tried' = tried /\ exit' = exit
    BY <1>2 DEF Exhausted, Goto
  <2>2. Control' /\ StaysBut(r) /\ nextId' = nextId
    BY <2>1, <1>0, Participants DEF Exhausted, PoolInv, Control, StaysBut, Labels
  <2>3. pc'[r] = "serve" /\ acct'[r] = Nil
    BY <2>1, <1>0, Participants DEF PoolInv, Control
  <2>4. Seated(r)'
    BY <2>1, <2>3, <1>0, <1>2, Participants DEF Exhausted, PoolInv, Seated, Working
  <2> QED
    BY <1>1, <2>2, <2>4, OneMoves, Participants
<1>3. CASE ~FallbackAnon
  <2>1. /\ pc' = [pc EXCEPT ![r] = "idle"]
        /\ tried' = [tried EXCEPT ![r] = {}] /\ exit' = [exit EXCEPT ![r] = Nil]
    BY <1>3 DEF Exhausted, Goto
  <2>2. Control' /\ StaysBut(r) /\ nextId' = nextId
    BY <2>1, <1>0, Participants DEF Exhausted, PoolInv, Control, StaysBut, Labels
  <2>3. pc'[r] = "idle" /\ acct'[r] = Nil /\ tried'[r] = {} /\ exit'[r] = Nil
    BY <2>1, <1>0, Participants DEF PoolInv, Control
  <2>4. Seated(r)'
    BY <2>1, <2>3, <1>0, <1>3, Participants DEF Exhausted, PoolInv, Seated, Working
  <2> QED
    BY <1>1, <2>2, <2>4, OneMoves, Participants
<1> QED
  BY <1>2, <1>3

-----------------------------------------------------------------------------
(* Health *)

(* A failure or a success is written to the row, and to the history.       *)
LEMMA FailureTable ==
  ASSUME PoolInv, NEW p \in Procs, NEW after, CountFailure(p, after)
  PROVE  /\ DOMAIN db' \subseteq Ids /\ db' \in [DOMAIN db' -> Row]
         /\ \A j \in DOMAIN db' : j < nextId
         /\ streak' \in [Ids -> Nat]
<1> DEFINE row == [db[acct[p].id] EXCEPT !.fails = @ + 1]
<1>1. acct[p].id \in DOMAIN db => row \in Row
  BY RowIs, FailsWritten
<1>2. db' = Update(acct[p].id, row)
  BY DEF CountFailure
<1>3. streak' \in [Ids -> Nat]
  BY CountedOnce DEF CountFailure, PoolInv, Table
<1> HIDE DEF row
<1> QED
  BY <1>1, <1>2, <1>3, WriteTable

LEMMA SuccessTable ==
  ASSUME PoolInv, NEW i, RecordSuccess(i)
  PROVE  /\ DOMAIN db' \subseteq Ids /\ db' \in [DOMAIN db' -> Row]
         /\ \A j \in DOMAIN db' : j < nextId
         /\ streak' \in [Ids -> Nat]
<1> DEFINE row == [db[i] EXCEPT !.fails = 0]
<1>1. i \in DOMAIN db => row \in Row
  BY FailsWritten
<1>2. db' = Update(i, row)
  BY DEF RecordSuccess
<1>3. streak' \in [Ids -> Nat]
  BY DEF RecordSuccess, PoolInv, Table
<1> HIDE DEF row
<1> QED
  BY <1>1, <1>2, <1>3, WriteTable

(* p, which works with an account, counts a failure of it.                 *)
LEMMA CountFailureKeeps ==
  ASSUME PoolInv, NEW p \in Procs, NEW after \in {"served", "picking"}, Table',
         CountFailure(p, after), pc[p] \in {"fail", "serve", "check"}, acct[p] # Nil,
         p \in Checkers => after = "served",
         UNCHANGED <<nextId, pickMu, acct, tried, exit>>
  PROVE  PoolInv' /\ StaysBut(p)
<1>1. pc' = [pc EXCEPT ![p] = "dead"] /\ dying' = [dying EXCEPT ![p] = after]
  BY DEF CountFailure, Goto
<1>2. Control' /\ StaysBut(p)
  BY <1>1 DEF PoolInv, Control, StaysBut, Labels
<1>3. pc'[p] = "dead" /\ dying'[p] = after
  BY <1>1 DEF PoolInv, Control
<1>4. p \in Requests => Seated(p)'
  BY <1>3, Participants DEF PoolInv, Seated, Working
<1>5. p \in Checkers => CheckSeated(p)'
  BY <1>3 DEF PoolInv, CheckSeated, Failing
<1> QED
  BY <1>2, <1>4, <1>5, OneMoves

(* p is done with its account.                                             *)
LEMMA LeaveKeeps ==
  ASSUME PoolInv, NEW p \in Procs, Table', Leave(p), pc[p] # "touch",
         UNCHANGED <<nextId, pickMu, dying>>
  PROVE  PoolInv' /\ StaysBut(p)
<1>1. /\ pc' = [pc EXCEPT ![p] = "idle"] /\ acct' = [acct EXCEPT ![p] = Nil]
      /\ tried' = [r \in Requests |-> IF r = p THEN {} ELSE tried[r]]
      /\ exit' = [r \in Requests |-> IF r = p THEN Nil ELSE exit[r]]
  BY DEF Leave, Goto
<1>2. Control' /\ StaysBut(p)
  BY <1>1 DEF PoolInv, Control, StaysBut, Labels
<1>3. /\ pc'[p] = "idle" /\ acct'[p] = Nil
      /\ p \in Requests => tried'[p] = {} /\ exit'[p] = Nil
  BY <1>1 DEF PoolInv, Control
<1>4. p \in Requests => Seated(p)'
  BY <1>3, Participants DEF PoolInv, Seated, Working
<1>5. p \in Checkers => CheckSeated(p)'
  BY <1>3 DEF PoolInv, CheckSeated, Failing
<1> QED
  BY <1>2, <1>4, <1>5, OneMoves

LEMMA FailKeeps ==
  ASSUME PoolInv, NEW r \in Requests, Fail(r)
  PROVE  PoolInv' /\ StaysBut(r)
<1>0. pc[r] = "fail" /\ acct[r] # Nil
  BY DEF Fail, PoolInv, Seated, Working
<1>1. Table'
  BY FailureTable, Participants DEF Fail, PoolInv, Table
<1> QED
  BY <1>0, <1>1, CountFailureKeeps, Participants DEF Fail

LEMMA ReadHealthKeeps ==
  ASSUME PoolInv, NEW p \in Procs, ReadHealth(p)
  PROVE  PoolInv' /\ StaysBut(p)
<1>1. PICK l \in {"disable", "settled"} : pc' = [pc EXCEPT ![p] = l]
  BY DEF ReadHealth, Goto
<1>2. Table'
  BY DEF ReadHealth, PoolInv, Table, history
<1>3. Control' /\ StaysBut(p) /\ nextId' = nextId
  BY <1>1 DEF ReadHealth, PoolInv, Control, StaysBut, Labels, request
<1>4. pc'[p] = l
  BY <1>1 DEF PoolInv, Control
<1>5. p \in Requests => Seated(p)'
  BY <1>1, <1>4, Participants DEF ReadHealth, PoolInv, Seated, Working, request
<1>6. p \in Checkers => CheckSeated(p)'
  BY <1>1, <1>4 DEF ReadHealth, PoolInv, CheckSeated, Failing, request
<1> QED
  BY <1>2, <1>3, <1>5, <1>6, OneMoves

LEMMA DisableKeeps ==
  ASSUME PoolInv, NEW p \in Procs, Disable(p)
  PROVE  PoolInv' /\ StaysBut(p)
<1>1. pc' = [pc EXCEPT ![p] = "settled"]
  BY DEF Disable, Goto
<1>2. Table'
  <2> DEFINE row == [db[acct[p].id] EXCEPT !.on = FALSE]
  <2>1. acct[p].id \in DOMAIN db => row \in Row
    BY OffWritten
  <2>2. db' = Update(acct[p].id, row)
    BY DEF Disable
  <2> HIDE DEF row
  <2>3. DOMAIN db' \subseteq Ids /\ db' \in [DOMAIN db' -> Row] /\ \A j \in DOMAIN db' : j < nextId
    BY <2>1, <2>2, WriteTable
  <2>4. retired' \in [Ids -> Nat \cup {Nil}]
    BY DEF Disable, PoolInv, Table
  <2> QED
    BY <2>3, <2>4 DEF Disable, PoolInv, Table
<1>3. Control' /\ StaysBut(p) /\ nextId' = nextId
  BY <1>1 DEF Disable, PoolInv, Control, StaysBut, Labels, request
<1>4. pc'[p] = "settled"
  BY <1>1 DEF PoolInv, Control
<1>5. p \in Requests => Seated(p)'
  BY <1>1, <1>4, Participants DEF Disable, PoolInv, Seated, Working, request
<1>6. p \in Checkers => CheckSeated(p)'
  BY <1>1, <1>4 DEF Disable, PoolInv, CheckSeated, Failing, request
<1> QED
  BY <1>2, <1>3, <1>5, <1>6, OneMoves

LEMMA SettledKeeps ==
  ASSUME PoolInv, NEW p \in Procs, Settled(p)
  PROVE  PoolInv' /\ StaysBut(p)
<1>0. pc[p] = "settled"
  BY DEF Settled
<1>2. Table' /\ UNCHANGED <<nextId, pickMu, dying>>
  BY DEF Settled, PoolInv, Table, history
<1>3. CASE dying[p] = "picking"
  <2>1. pc' = [pc EXCEPT ![p] = "pick"] /\ UNCHANGED <<acct, tried, exit>>
    BY <1>3 DEF Settled, Goto
  <2>2. Control' /\ StaysBut(p)
    BY <1>2, <2>1 DEF PoolInv, Control, StaysBut, Labels
  <2>3. pc'[p] = "pick"
    BY <2>1 DEF PoolInv, Control
  <2>4. p \in Requests => Seated(p)'
    BY <1>0, <1>2, <2>1, <2>3, Participants DEF PoolInv, Seated, Working
  <2>5. p \notin Checkers
    BY <1>3, <1>0, Participants DEF PoolInv, CheckSeated
  <2> QED
    BY <1>2, <2>2, <2>4, <2>5, OneMoves
<1>4. CASE dying[p] # "picking"
  BY <1>0, <1>2, <1>4, LeaveKeeps DEF Settled
<1> QED
  BY <1>3, <1>4

(* What the answer to p makes of the account's health.                     *)
LEMMA HealthKeeps ==
  ASSUME PoolInv, NEW p \in Procs, NEW answer, pc[p] \in {"serve", "check"}, acct[p] # Nil,
         Answered(acct[p].id, answer),
         CASE answer = "ok" -> RecordSuccess(acct[p].id) /\ Leave(p) /\ UNCHANGED dying
           [] answer = "auth" -> CountFailure(p, "served") /\ UNCHANGED <<acct, tried, exit>>
           [] OTHER -> Leave(p) /\ UNCHANGED <<db, streak, dying>>,
         UNCHANGED <<now, nextId, pickMu, usable, bounds, turns, retired, downs>>
  PROVE  PoolInv' /\ StaysBut(p)
<1>0. auths' \in [Ids -> Nat]
  BY AnsweredIs
<1>1. CASE answer = "ok"
  <2>1. RecordSuccess(acct[p].id) /\ Leave(p) /\ UNCHANGED dying
    BY <1>1
  <2>2. Table'
    BY <2>1, <1>0, SuccessTable DEF PoolInv, Table
  <2> QED
    BY <2>1, <2>2, LeaveKeeps
<1>2. CASE answer = "auth"
  <2>1. CountFailure(p, "served") /\ UNCHANGED <<acct, tried, exit>>
    BY <1>2
  <2>2. Table'
    BY <2>1, <1>0, FailureTable DEF PoolInv, Table
  <2> QED
    BY <2>1, <2>2, CountFailureKeeps
<1>3. CASE answer # "ok" /\ answer # "auth"
  <2>1. Leave(p) /\ UNCHANGED <<db, streak, dying>>
    BY <1>3
  <2>2. Table'
    BY <2>1, <1>0 DEF PoolInv, Table
  <2> QED
    BY <2>1, <2>2, LeaveKeeps
<1> QED
  BY <1>1, <1>2, <1>3

LEMMA ServeKeeps ==
  ASSUME PoolInv, NEW r \in Requests, Serve(r)
  PROVE  PoolInv' /\ StaysBut(r)
<1>0. r \in Procs /\ pc[r] = "serve"
  BY Participants DEF Serve
<1>1. CASE acct[r] = Nil
  <2>1. Leave(r) /\ UNCHANGED <<db, streak, auths, dying>>
    BY <1>1 DEF Serve
  <2>2. Table'
    BY <2>1 DEF Serve, PoolInv, Table
  <2>3. UNCHANGED <<nextId, pickMu, dying>>
    BY <2>1 DEF Serve
  <2> QED
    BY <1>0, <2>1, <2>2, <2>3, LeaveKeeps
<1>2. CASE acct[r] # Nil
  BY <1>0, <1>2, HealthKeeps DEF Serve
<1> QED
  BY <1>1, <1>2

-----------------------------------------------------------------------------
(* Checks, the administrator and the surroundings *)

LEMMA StartCheckKeeps ==
  ASSUME PoolInv, NEW c \in Checkers, StartCheck(c)
  PROVE  PoolInv' /\ StaysBut(c)
<1>1. PICK i \in DOMAIN db : acct' = [acct EXCEPT ![c] = [Snapshot(i) EXCEPT !.slot = db[i].slot]]
  BY DEF StartCheck
<1> DEFINE s == Snapshot(i)
           n == db[i].slot
           a == [s EXCEPT !.slot = n]
<1>2. s \in Account /\ s.id < nextId
  BY SnapshotIs
<1>3. n \in Nat
  BY DEF PoolInv, Table, Row
<1> HIDE DEF s, n
<1>4. a \in Account /\ a.id = s.id /\ a # Nil
  BY <1>2, <1>3, UsableAssumption DEF Account
<1>5. acct' = [acct EXCEPT ![c] = a]
  BY <1>1 DEF s, n
<1> HIDE DEF a
<1>6. pc' = [pc EXCEPT ![c] = "check"]
  BY DEF StartCheck, Goto
<1>7. Table'
  BY CountIs DEF StartCheck, PoolInv, Table, history
<1>8. Control' /\ StaysBut(c) /\ nextId' = nextId
  BY <1>4, <1>5, <1>6, Participants DEF StartCheck, PoolInv, Control, StaysBut, Labels
<1>9. CheckSeated(c)'
  <2>1. pc'[c] = "check" /\ acct'[c] = a
    BY <1>5, <1>6, Participants DEF PoolInv, Control
  <2> QED
    BY <2>1, <1>2, <1>4 DEF StartCheck, PoolInv, CheckSeated, Failing
<1> QED
  BY <1>7, <1>8, <1>9, OneMoves, Participants

LEMMA CheckKeeps ==
  ASSUME PoolInv, NEW c \in Checkers, Check(c)
  PROVE  PoolInv' /\ StaysBut(c)
<1>1. c \in Procs /\ pc[c] = "check" /\ acct[c] # Nil
  BY Participants DEF Check, PoolInv, CheckSeated
<1> QED
  BY <1>1, HealthKeeps DEF Check

LEMMA AddKeeps ==
  ASSUME PoolInv, Add
  PROVE  PoolInv'
<1>1. nextId' = nextId + 1 /\ nextId \in Ids /\ nextId \in Nat
  BY DEF Add, PoolInv, Table
<1>2. NewRow \in Row
  BY DEF NewRow, Row, Direct
<1>3. /\ DOMAIN db' \subseteq Ids /\ db' \in [DOMAIN db' -> Row]
      /\ \A i \in DOMAIN db' : i < nextId'
  <2>1. db' = [i \in DOMAIN db \cup {nextId} |-> IF i = nextId THEN NewRow ELSE db[i]]
    BY DEF Add
  <2>2. \A i \in DOMAIN db : i \in Nat /\ i < nextId
    BY IdsAssumption DEF PoolInv, Table
  <2> HIDE DEF NewRow
  <2>3. DOMAIN db' = DOMAIN db \cup {nextId}
    BY <2>1
  <2>4. db' \in [DOMAIN db \cup {nextId} -> Row]
    BY <2>1, <1>2 DEF PoolInv, Table
  <2>5. \A i \in DOMAIN db' : i < nextId'
    BY <2>2, <2>3, <1>1
  <2> QED
    BY <2>3, <2>4, <2>5, <1>1 DEF PoolInv, Table
<1>4. Table'
  BY <1>1, <1>3, CountIs DEF Add, PoolInv, Table, history
<1> QED
  BY <1>1, <1>4, NobodyMoves DEF Add

LEMMA DeleteKeeps ==
  ASSUME PoolInv, NEW i \in Ids, Delete(i)
  PROVE  PoolInv'
<1>1. db' = [j \in DOMAIN db \ {i} |-> db[j]]
  BY DEF Delete
<1>2. /\ DOMAIN db' \subseteq Ids /\ db' \in [DOMAIN db' -> Row]
      /\ \A j \in DOMAIN db' : j < nextId
  BY <1>1 DEF PoolInv, Table
<1>3. Table'
  BY <1>2, CountIs DEF Delete, PoolInv, Table, history
<1> QED
  BY <1>3, NobodyMoves DEF Delete

LEMMA SetStatusKeeps ==
  ASSUME PoolInv, NEW i \in Ids, NEW on \in BOOLEAN, SetStatus(i, on)
  PROVE  PoolInv'
<1> DEFINE row == [db[i] EXCEPT !.on = on]
<1>1. i \in DOMAIN db /\ row \in Row
  BY OnWritten DEF SetStatus
<1>2. db' = [db EXCEPT ![i] = row]
  BY DEF SetStatus
<1> HIDE DEF row
<1>3. /\ DOMAIN db' \subseteq Ids /\ db' \in [DOMAIN db' -> Row]
      /\ \A j \in DOMAIN db' : j < nextId
  BY <1>1, <1>2 DEF SetStatus, PoolInv, Table
<1>4. bounds' \in [{"calls", "checks", "edits", "switches", "errors", "flips"} -> Nat]
  BY CountIs DEF SetStatus
<1>5. streak' \in [Ids -> Nat] /\ retired' \in [Ids -> Nat \cup {Nil}]
  BY DEF SetStatus, PoolInv, Table
<1>6. Table'
  BY <1>3, <1>4, <1>5 DEF SetStatus, PoolInv, Table
<1> QED
  BY <1>6, NobodyMoves DEF SetStatus

LEMMA FlipKeeps ==
  ASSUME PoolInv, NEW e \in Exits, Flip(e)
  PROVE  PoolInv'
<1>1. Table'
  BY CountIs DEF Flip, PoolInv, Table
<1> QED
  BY <1>1, NobodyMoves DEF Flip

LEMMA TickKeeps ==
  ASSUME PoolInv, Tick
  PROVE  PoolInv'
<1>1. Table'
  BY DEF Tick, PoolInv, Table, history
<1> QED
  BY <1>1, NobodyMoves DEF Tick

-----------------------------------------------------------------------------

LEMMA PoolStarts == PoolInit => PoolInv
<1> SUFFICES ASSUME PoolInit PROVE PoolInv
  OBVIOUS
<1>0. /\ IsFiniteSet(DOMAIN db) /\ DOMAIN db = 1..Cardinality(DOMAIN db)
      /\ DOMAIN db \subseteq Ids /\ db \in [DOMAIN db -> Row]
  BY TablesAssumption DEF PoolInit
<1>1. Cardinality(DOMAIN db) \in Nat
  BY <1>0, FS_CardinalityType
<1>2. nextId \in Nat \ {0} /\ \A i \in DOMAIN db : i < nextId
  BY <1>0, <1>1 DEF PoolInit
<1>3. streak \in [Ids -> Nat]
  BY <1>0 DEF PoolInit, Row
<1>4. Table
  BY <1>0, <1>2, <1>3, UsableAssumption DEF PoolInit, Table
<1>5. Control
  BY DEF PoolInit, Control, Labels
<1>6. ASSUME NEW r \in Requests PROVE Seated(r)
  BY <1>6, Participants DEF PoolInit, Seated, Working
<1>7. ASSUME NEW c \in Checkers PROVE CheckSeated(c)
  BY <1>7, Participants DEF PoolInit, CheckSeated
<1> QED
  BY <1>4, <1>5, <1>6, <1>7 DEF PoolInv

LEMMA PoolKeeps == PoolInv /\ [PoolNext]_poolVars => PoolInv'
<1> SUFFICES ASSUME PoolInv, [PoolNext]_poolVars PROVE PoolInv'
  OBVIOUS
<1>1. CASE UNCHANGED poolVars
  <2>1. Table'
    BY <1>1 DEF PoolInv, Table, poolVars, history
  <2> QED
    BY <1>1, <2>1, NobodyMoves DEF poolVars
<1>2. ASSUME NEW r \in Requests, StartRequest(r) \/ Request(r) PROVE PoolInv'
  BY <1>2, StartRequestKeeps, SelectKeeps, SelectNothingKeeps, TouchKeeps, TakeExitKeeps,
     ObtainTokenKeeps, RotateKeeps, RetryKeeps, BindKeeps, ExhaustedKeeps, FailKeeps,
     ServeKeeps DEF Request
<1>3. ASSUME NEW c \in Checkers, StartCheck(c) \/ Check(c) PROVE PoolInv'
  BY <1>3, StartCheckKeeps, CheckKeeps
<1>4. ASSUME NEW p \in Procs, AutoDisable(p) PROVE PoolInv'
  BY <1>4, ReadHealthKeeps, DisableKeeps, SettledKeeps DEF AutoDisable
<1>5. CASE Administrate
  BY <1>5, AddKeeps, DeleteKeeps, SetStatusKeeps DEF Administrate
<1>6. ASSUME NEW e \in Exits, Flip(e) PROVE PoolInv'
  BY <1>6, FlipKeeps
<1>7. CASE Tick
  BY <1>7, TickKeeps
<1> QED
  BY <1>1, <1>2, <1>3, <1>4, <1>5, <1>6, <1>7 DEF PoolNext

LEMMA PoolAlways == PoolSpec => []PoolInv
BY PoolStarts, PoolKeeps, PTL DEF PoolSpec

(* Every variable of the pool keeps its type.                              *)
THEOREM PoolTypeCorrect == PoolSpec => []PoolTypeOK
<1>1. PoolInv => PoolTypeOK
  BY DEF PoolInv, Table, Control, PoolTypeOK, Labels
<1> QED
  BY <1>1, PoolAlways, PTL

(* Whatever requests, checks and the administrator do: a request that has  *)
(* given an account up ends in an error or, with fallback_anon, is         *)
(* answered anonymously on purpose.                                        *)
THEOREM GivenUpIsRefusedAlways == PoolSpec => []GivenUpIsRefused
<1>1. PoolInv => GivenUpIsRefused
  BY DEF PoolInv, Seated, GivenUpIsRefused
<1> QED
  BY <1>1, PoolAlways, PTL

-----------------------------------------------------------------------------
(* The binding of an account to its exit *)

(* A row that stays keeps its proxy, and a new row has a new id.           *)
ProxiesStay ==
  /\ \A i \in DOMAIN db \cap DOMAIN db' : db'[i].proxy = db[i].proxy
  /\ \A i \in DOMAIN db' \ DOMAIN db : i = nextId

LEMMA SameRows ==
  ASSUME db' = db
  PROVE  ProxiesStay
BY DEF ProxiesStay

LEMMA WriteProxies ==
  ASSUME PoolInv, NEW i, NEW row, db' = Update(i, row),
         i \in DOMAIN db => row \in Row /\ row.proxy = db[i].proxy
  PROVE  ProxiesStay
<1>1. db \in [DOMAIN db -> Row]
  BY DEF PoolInv, Table
<1>2. /\ DOMAIN db' = DOMAIN db
      /\ \A j \in DOMAIN db : j # i => db'[j] = db[j]
      /\ i \in DOMAIN db => db'[i] = row
  BY <1>1, UpdateIs
<1> QED
  BY <1>2 DEF ProxiesStay

LEMMA FailureProxies ==
  ASSUME PoolInv, NEW p \in Procs, NEW after, CountFailure(p, after)
  PROVE  ProxiesStay
<1> DEFINE row == [db[acct[p].id] EXCEPT !.fails = @ + 1]
<1>1. acct[p].id \in DOMAIN db => row \in Row /\ row.proxy = db[acct[p].id].proxy
  BY RowIs, FailsWritten
<1>2. db' = Update(acct[p].id, row)
  BY DEF CountFailure
<1> HIDE DEF row
<1> QED
  BY <1>1, <1>2, WriteProxies

LEMMA SuccessProxies ==
  ASSUME PoolInv, NEW i, RecordSuccess(i)
  PROVE  ProxiesStay
<1> DEFINE row == [db[i] EXCEPT !.fails = 0]
<1>1. i \in DOMAIN db => row \in Row /\ row.proxy = db[i].proxy
  BY FailsWritten
<1>2. db' = Update(i, row)
  BY DEF RecordSuccess
<1> HIDE DEF row
<1> QED
  BY <1>1, <1>2, WriteProxies

LEMMA AnswerProxies ==
  ASSUME PoolInv, NEW p \in Procs, NEW answer,
         CASE answer = "ok" -> RecordSuccess(acct[p].id) /\ Leave(p) /\ UNCHANGED dying
           [] answer = "auth" -> CountFailure(p, "served") /\ UNCHANGED <<acct, tried, exit>>
           [] OTHER -> Leave(p) /\ UNCHANGED <<db, streak, dying>>
  PROVE  ProxiesStay
<1>1. CASE answer = "ok"
  BY <1>1, SuccessProxies
<1>2. CASE answer = "auth"
  BY <1>2, FailureProxies
<1>3. CASE answer # "ok" /\ answer # "auth"
  BY <1>3, SameRows
<1> QED
  BY <1>1, <1>2, <1>3

LEMMA TouchProxies ==
  ASSUME PoolInv, NEW r \in Requests, Touch(r)
  PROVE  ProxiesStay
<1> DEFINE row == [db[acct[r].id] EXCEPT !.used = now]
<1>1. acct[r].id \in DOMAIN db => row \in Row /\ row.proxy = db[acct[r].id].proxy
  BY UsedWritten
<1>2. db' = Update(acct[r].id, row)
  BY DEF Touch
<1> HIDE DEF row
<1> QED
  BY <1>1, <1>2, WriteProxies

LEMMA DisableProxies ==
  ASSUME PoolInv, NEW p \in Procs, Disable(p)
  PROVE  ProxiesStay
<1> DEFINE row == [db[acct[p].id] EXCEPT !.on = FALSE]
<1>1. acct[p].id \in DOMAIN db => row \in Row /\ row.proxy = db[acct[p].id].proxy
  BY OffWritten
<1>2. db' = Update(acct[p].id, row)
  BY DEF Disable
<1> HIDE DEF row
<1> QED
  BY <1>1, <1>2, WriteProxies

LEMMA AdministrateProxies ==
  ASSUME PoolInv, Administrate
  PROVE  ProxiesStay
<1>1. CASE Add
  <2>1. db' = [i \in DOMAIN db \cup {nextId} |-> IF i = nextId THEN NewRow ELSE db[i]]
    BY <1>1 DEF Add
  <2>2. nextId \notin DOMAIN db
    BY DEF PoolInv, Table
  <2> HIDE DEF NewRow
  <2> QED
    BY <2>1, <2>2 DEF ProxiesStay
<1>2. ASSUME NEW i \in Ids, Delete(i) PROVE ProxiesStay
  BY <1>2 DEF Delete, ProxiesStay
<1>3. ASSUME NEW i \in Ids, NEW on \in BOOLEAN, SetStatus(i, on) PROVE ProxiesStay
  <2> DEFINE row == [db[i] EXCEPT !.on = on]
  <2>1. row \in Row /\ row.proxy = db[i].proxy
    BY <1>3, OnWritten DEF SetStatus
  <2>2. db' = Update(i, row)
    BY <1>3 DEF SetStatus, Update
  <2> HIDE DEF row
  <2> QED
    BY <2>1, <2>2, WriteProxies
<1> QED
  BY <1>1, <1>2, <1>3 DEF Administrate

(* Only Bind moves an account to another exit.                             *)
LEMMA OnlyBindMoves ==
  ASSUME PoolInv, [PoolNext]_poolVars, \A r \in Requests : ~Bind(r)
  PROVE  ProxiesStay
<1>1. CASE UNCHANGED poolVars
  BY <1>1, SameRows DEF poolVars
<1>2. ASSUME NEW r \in Requests, StartRequest(r) \/ Request(r) PROVE ProxiesStay
  <2>1. CASE StartRequest(r) \/ Select(r) \/ SelectNothing(r)
    BY <2>1, SameRows DEF StartRequest, Select, SelectNothing
  <2>2. CASE TakeExit(r) \/ ObtainToken(r) \/ Rotate(r) \/ Retry(r) \/ Exhausted(r)
    BY <2>2, SameRows DEF TakeExit, ObtainToken, Rotate, Retry, Exhausted
  <2>3. CASE Fail(r)
    BY <2>3, FailureProxies, Participants DEF Fail
  <2>4. CASE Serve(r)
    <3>1. CASE acct[r] = Nil
      BY <2>4, <3>1, SameRows DEF Serve
    <3>2. CASE acct[r] # Nil
      BY <2>4, <3>2, AnswerProxies, Participants DEF Serve
    <3> QED
      BY <3>1, <3>2
  <2>5. CASE Touch(r)
    BY <2>5, TouchProxies
  <2> QED
    BY <1>2, <2>1, <2>2, <2>3, <2>4, <2>5 DEF Request
<1>3. ASSUME NEW c \in Checkers, StartCheck(c) \/ Check(c) PROVE ProxiesStay
  <2>1. CASE StartCheck(c)
    BY <2>1, SameRows DEF StartCheck
  <2>2. CASE Check(c)
    BY <2>2, AnswerProxies, Participants DEF Check
  <2> QED
    BY <1>3, <2>1, <2>2
<1>4. ASSUME NEW p \in Procs, AutoDisable(p) PROVE ProxiesStay
  BY <1>4, DisableProxies, SameRows DEF AutoDisable, ReadHealth, Settled
<1>5. CASE Administrate
  BY <1>5, AdministrateProxies
<1>6. ASSUME NEW e \in Exits, Flip(e) PROVE ProxiesStay
  BY <1>6, SameRows DEF Flip
<1>7. CASE Tick
  BY <1>7, SameRows DEF Tick
<1> QED
  BY <1>1, <1>2, <1>3, <1>4, <1>5, <1>6, <1>7 DEF PoolNext

(* From its SELECT on a request knows which exit its account is bound to.  *)
Bindable == {"touch", "exit", "token", "rotate", "retry", "bind"}
Bound(r) ==
  pc[r] \in Bindable /\ acct[r] # Nil /\ acct[r].id \in DOMAIN db =>
    acct[r].proxy = db[acct[r].id].proxy
OneRequest == \A r, s \in Requests : r = s
AllBound == \A r \in Requests : Bound(r)

LEMMA StillBound ==
  ASSUME PoolInv, NEW r \in Requests, Bound(r), ProxiesStay, acct'[r] = acct[r],
         pc[r] \in Bindable \/ pc'[r] \notin Bindable
  PROVE  Bound(r)'
<1> SUFFICES ASSUME pc'[r] \in Bindable, acct[r] # Nil, acct[r].id \in DOMAIN db'
             PROVE  acct[r].proxy = db'[acct[r].id].proxy
  BY DEF Bound
<1>1. acct[r].id # nextId
  <2>1. acct[r].id < nextId /\ nextId \in Nat
    BY DEF PoolInv, Seated, Table
  <2> QED
    BY <2>1
<1>2. acct[r].id \in DOMAIN db
  BY <1>1 DEF ProxiesStay
<1> QED
  BY <1>2 DEF ProxiesStay, Bound

(* A step of somebody else.                                                *)
LEMMA OthersBound ==
  ASSUME PoolInv, NEW p \in Procs, NEW r \in Requests, r # p, Bound(r), ProxiesStay,
         NEW l, NEW a, pc' = [pc EXCEPT ![p] = l],
         acct' = acct \/ acct' = [acct EXCEPT ![p] = a]
  PROVE  Bound(r)'
<1>1. pc'[r] = pc[r] /\ acct'[r] = acct[r]
  BY Participants DEF PoolInv, Control
<1> QED
  BY <1>1, StillBound DEF Bindable, Bound

LEMMA OwnBound ==
  ASSUME PoolInv, NEW r \in Requests, Bound(r), StartRequest(r) \/ Request(r),
         Bind(r) \/ ProxiesStay
  PROVE  Bound(r)'
<1>0. r \in Procs
  BY Participants
<1>1. CASE StartRequest(r)
  <2>1. acct'[r] = Nil
    BY <1>1 DEF StartRequest, request, PoolInv, Seated
  <2> QED
    BY <2>1 DEF Bound
<1>2. CASE Select(r)
  <2>1. PICK i \in Enabled(db) \ tried[r] : acct' = [acct EXCEPT ![r] = Snapshot(i)]
    BY <1>2 DEF Select
  <2>2. i \in DOMAIN db /\ db' = db
    BY <1>2 DEF Enabled, Select
  <2>3. acct'[r] = Snapshot(i)
    BY <2>1, <1>0 DEF PoolInv, Control
  <2> QED
    BY <2>2, <2>3, SnapshotIs DEF Bound
<1>3. CASE SelectNothing(r)
  <2>1. acct'[r] = Nil
    BY <1>3, <1>0 DEF SelectNothing, PoolInv, Control
  <2> QED
    BY <2>1 DEF Bound
<1>4. CASE Touch(r) \/ ObtainToken(r) \/ Retry(r)
  <2>1. acct'[r] = acct[r] /\ pc[r] \in Bindable
    BY <1>4 DEF Touch, ObtainToken, Retry, Bindable, request
  <2>2. ProxiesStay
    BY <1>4 DEF Touch, ObtainToken, Retry, Bind
  <2> QED
    BY <2>1, <2>2, StillBound
<1>5. CASE TakeExit(r)
  <2>1. db' = db /\ pc[r] \in Bindable
    BY <1>5 DEF TakeExit, Bindable
  <2>2. acct'[r] = acct[r] \/ acct'[r] = Nil
    BY <1>5, <1>0 DEF TakeExit, PoolInv, Control
  <2> QED
    BY <2>1, <2>2, SameRows, StillBound DEF Bound
<1>6. CASE Rotate(r)
  <2>0. db' = db
    BY <1>6 DEF Rotate
  <2>1. CASE pc' = [pc EXCEPT ![r] = "fail"]
    <3>1. pc'[r] = "fail"
      BY <2>1, <1>0 DEF PoolInv, Control
    <3> QED
      BY <3>1 DEF Bound, Bindable
  <2>2. ASSUME acct[r].id \in DOMAIN db,
               acct' = [acct EXCEPT ![r] = [Snapshot(acct[r].id) EXCEPT !.slot = db[acct[r].id].slot]]
        PROVE  Bound(r)'
    <3> DEFINE s == Snapshot(acct[r].id)
               n == db[acct[r].id].slot
               a == [s EXCEPT !.slot = n]
    <3>1. s \in Account /\ s.proxy = db[acct[r].id].proxy /\ s.id = acct[r].id
      BY <2>2, SnapshotIs
    <3>2. acct' = [acct EXCEPT ![r] = a]
      BY <2>2
    <3> HIDE DEF s, n
    <3>3. a.proxy = s.proxy /\ a.id = s.id
      BY <3>1 DEF Account
    <3> HIDE DEF a
    <3>4. acct'[r] = a
      BY <3>2, <1>0 DEF PoolInv, Control
    <3> QED
      BY <2>0, <3>1, <3>3, <3>4 DEF Bound
  <2> QED
    BY <1>6, <2>1, <2>2 DEF Rotate, Goto
<1>7. CASE Bind(r) \/ Exhausted(r) \/ Fail(r) \/ Serve(r)
  <2>1. \E l \in {"serve", "idle", "dead"} : pc' = [pc EXCEPT ![r] = l]
    <3>1. CASE Bind(r)
      BY <3>1 DEF Bind, Goto
    <3>2. CASE Exhausted(r)
      BY <3>2 DEF Exhausted, Goto
    <3>3. CASE Fail(r)
      BY <3>3 DEF Fail, CountFailure, Goto
    <3>4. CASE Serve(r)
      <4>1. Leave(r) => pc' = [pc EXCEPT ![r] = "idle"]
        BY DEF Leave, Goto
      <4>2. CountFailure(r, "served") => pc' = [pc EXCEPT ![r] = "dead"]
        BY DEF CountFailure, Goto
      <4>3. Leave(r) \/ CountFailure(r, "served")
        BY <3>4 DEF Serve
      <4> QED
        BY <4>1, <4>2, <4>3
    <3> QED
      BY <1>7, <3>1, <3>2, <3>3, <3>4
  <2>2. pc'[r] \in {"serve", "idle", "dead"}
    BY <2>1, <1>0 DEF PoolInv, Control
  <2> QED
    BY <2>2 DEF Bound, Bindable
<1> QED
  BY <1>1, <1>2, <1>3, <1>4, <1>5, <1>6, <1>7 DEF Request

(* Health and checks touch nobody's account but that of the one who writes.*)
LEMMA AnswerMoves ==
  ASSUME NEW p \in Procs, NEW answer,
         CASE answer = "ok" -> RecordSuccess(acct[p].id) /\ Leave(p) /\ UNCHANGED dying
           [] answer = "auth" -> CountFailure(p, "served") /\ UNCHANGED <<acct, tried, exit>>
           [] OTHER -> Leave(p) /\ UNCHANGED <<db, streak, dying>>
  PROVE  /\ \E l \in {"idle", "dead"} : pc' = [pc EXCEPT ![p] = l]
         /\ acct' = acct \/ acct' = [acct EXCEPT ![p] = Nil]
<1>1. Leave(p) => pc' = [pc EXCEPT ![p] = "idle"] /\ acct' = [acct EXCEPT ![p] = Nil]
  BY DEF Leave, Goto
<1>2. CountFailure(p, "served") => pc' = [pc EXCEPT ![p] = "dead"]
  BY DEF CountFailure, Goto
<1>3. Leave(p) \/ (CountFailure(p, "served") /\ acct' = acct)
  OBVIOUS
<1> QED
  BY <1>1, <1>2, <1>3

LEMMA CheckerMoves ==
  ASSUME NEW c \in Checkers, StartCheck(c) \/ Check(c)
  PROVE  \E l, a : /\ pc' = [pc EXCEPT ![c] = l]
                   /\ acct' = acct \/ acct' = [acct EXCEPT ![c] = a]
<1>1. CASE StartCheck(c)
  BY <1>1 DEF StartCheck, Goto
<1>2. CASE Check(c)
  BY <1>2, AnswerMoves, Participants DEF Check
<1> QED
  BY <1>1, <1>2

LEMMA HealthMoves ==
  ASSUME NEW p \in Procs, AutoDisable(p)
  PROVE  /\ \E l \in {"idle", "pick", "disable", "settled"} : pc' = [pc EXCEPT ![p] = l]
         /\ \E a : acct' = acct \/ acct' = [acct EXCEPT ![p] = a]
<1>1. CASE ReadHealth(p) \/ Disable(p)
  BY <1>1 DEF ReadHealth, Disable, Goto, request
<1>2. CASE Settled(p)
  BY <1>2 DEF Settled, Leave, Goto
<1> QED
  BY <1>1, <1>2 DEF AutoDisable

LEMMA BoundKeeps ==
  ASSUME OneRequest, PoolInv, AllBound, [PoolNext]_poolVars
  PROVE  AllBound'
<1> SUFFICES ASSUME NEW r \in Requests PROVE Bound(r)'
  BY DEF AllBound
<1>0. Bound(r) /\ (\A s \in Requests : s = r) /\ r \in Procs
  BY Participants DEF AllBound, OneRequest
<1>1. CASE Bind(r)
  BY <1>0, <1>1, OwnBound DEF Request
<1>2. CASE ~Bind(r)
  <2>0. ProxiesStay
    BY <1>0, <1>2, OnlyBindMoves
  <2>1. CASE UNCHANGED <<pc, acct>>
    BY <2>0, <2>1, <1>0, StillBound DEF Bindable, Bound
  <2>2. ASSUME NEW s \in Requests, StartRequest(s) \/ Request(s) PROVE Bound(r)'
    <3>1. s = r
      BY <1>0
    <3> QED
      BY <3>1, <2>0, <2>2, <1>0, OwnBound
  <2>3. ASSUME NEW c \in Checkers, StartCheck(c) \/ Check(c) PROVE Bound(r)'
    <3>1. PICK l, a : /\ pc' = [pc EXCEPT ![c] = l]
                      /\ acct' = acct \/ acct' = [acct EXCEPT ![c] = a]
      BY <2>3, CheckerMoves
    <3> QED
      BY <3>1, <2>0, <1>0, OthersBound, Participants
  <2>4. ASSUME NEW p \in Procs, AutoDisable(p) PROVE Bound(r)'
    <3>1. PICK l \in {"idle", "pick", "disable", "settled"} : pc' = [pc EXCEPT ![p] = l]
      BY <2>4, HealthMoves
    <3>2. CASE p = r
      <4>1. pc'[r] \notin Bindable
        BY <3>1, <3>2, <1>0 DEF PoolInv, Control, Bindable
      <4> QED
        BY <4>1 DEF Bound
    <3>3. CASE p # r
      <4>1. PICK a : acct' = acct \/ acct' = [acct EXCEPT ![p] = a]
        BY <2>4, HealthMoves
      <4> QED
        BY <3>1, <3>3, <4>1, <2>0, <1>0, OthersBound
    <3> QED
      BY <3>2, <3>3
  <2>5. CASE Administrate
    <3>1. UNCHANGED <<pc, acct>>
      BY <2>5 DEF Administrate, Add, Delete, SetStatus, request
    <3> QED
      BY <3>1, <2>1
  <2>6. CASE (\E e \in Exits : Flip(e)) \/ Tick \/ UNCHANGED poolVars
    <3>1. UNCHANGED <<pc, acct>>
      BY <2>6 DEF Flip, Tick, request, poolVars
    <3> QED
      BY <3>1, <2>1
  <2> QED
    BY <2>2, <2>3, <2>4, <2>5, <2>6 DEF PoolNext
<1> QED
  BY <1>1, <1>2

(* The only request there is binds its account when the exit the account   *)
(* is bound to now cannot be used.                                         *)
LEMMA BindingMoves ==
  ASSUME OneRequest, PoolInv, AllBound, [PoolNext]_poolVars,
         NEW i \in DOMAIN db \cap DOMAIN db', db[i].proxy # db'[i].proxy
  PROVE  db[i].proxy \in downs \cup {Direct}
<1>1. PICK r \in Requests : Bind(r)
  BY OnlyBindMoves DEF ProxiesStay
<1>2. pc[r] = "bind" /\ acct[r] # Nil /\ acct[r] \in Account
  BY <1>1, Participants DEF Bind, PoolInv, Seated, Working, Control
<1>3. /\ acct[r].proxy \notin usable
      /\ db' = Update(acct[r].id, [db[acct[r].id] EXCEPT !.proxy = exit[r]])
  BY <1>1 DEF Bind
<1>4. i = acct[r].id
  BY <1>3 DEF Update, PoolInv, Table
<1>5. acct[r].proxy = db[i].proxy
  BY <1>2, <1>4 DEF AllBound, Bound, Bindable
<1>6. acct[r].proxy \in Exits \cup {Direct}
  BY <1>2 DEF Account
<1> QED
  BY <1>3, <1>5, <1>6 DEF PoolInv, Table

(* As long as requests do not overlap, a binding is replaced only when its *)
(* exit was unusable at some time, whatever checks, the administrator and  *)
(* the proxies do meanwhile.                                               *)
THEOREM BindingKeptAlone ==
  ASSUME OneRequest
  PROVE  PoolSpec => BindingKept
<1>1. PoolInit => AllBound
  BY Participants DEF PoolInit, AllBound, Bound
<1>2. PoolInv /\ AllBound /\ [PoolNext]_poolVars => AllBound'
  BY BoundKeeps
<1>3. PoolInv /\ AllBound /\ [PoolNext]_poolVars =>
        [\A i \in DOMAIN db \cap DOMAIN db' :
           db[i].proxy # db'[i].proxy => db[i].proxy \in downs \cup {Direct}]_poolVars
  BY BindingMoves
<1> QED
  BY <1>1, <1>2, <1>3, PoolAlways, PTL DEF PoolSpec, BindingKept

-----------------------------------------------------------------------------
(* Switching an account off *)

Alone == \A p, q \in Procs : p = q
NeverReenabled == MaxSwitches = 0

(* The counter of a row never exceeds the failures in a row, a goroutine   *)
(* about to switch an account off has seen the limit reached, and an id    *)
(* nobody has had yet has never been switched off.                         *)
HealthInv ==
  /\ \A i \in DOMAIN db : db[i].fails <= streak[i]
  /\ \A p \in Procs : pc[p] = "disable" /\ acct[p].id \in DOMAIN db =>
       db[acct[p].id].fails >= MaxAuthFailures
  /\ \A i \in Ids : i >= nextId => retired[i] = Nil
  /\ DisabledForARow

FailsStay ==
  /\ \A i \in DOMAIN db \cap DOMAIN db' : db'[i].fails = db[i].fails
  /\ \A i \in DOMAIN db' \ DOMAIN db : i = nextId /\ i \in Ids /\ db'[i].fails = 0
  /\ UNCHANGED streak
  /\ \A i \in Ids : retired'[i] \in {retired[i], Nil}

LEMMA HasId ==
  ASSUME PoolInv, NEW p \in Procs, acct[p] # Nil
  PROVE  acct[p] \in Account /\ acct[p].id \in Ids /\ acct[p].id \in Nat /\ acct[p].id < nextId
<1>1. acct[p] \in Account
  BY DEF PoolInv, Control
<1>2. acct[p].id \in Ids /\ acct[p].id \in Nat
  BY <1>1, IdsAssumption DEF Account
<1>3. CASE p \in Requests
  BY <1>1, <1>2, <1>3 DEF PoolInv, Seated
<1>4. CASE p \in Checkers
  BY <1>1, <1>2, <1>4 DEF PoolInv, CheckSeated
<1> QED
  BY <1>3, <1>4 DEF Procs

LEMMA StaysHealthy ==
  ASSUME PoolInv, PoolInv', HealthInv, FailsStay, nextId' >= nextId,
         \A p \in Procs : pc'[p] = "disable" => pc[p] = "disable" /\ acct'[p] = acct[p]
  PROVE  HealthInv'
<1>0. nextId \in Nat /\ nextId' \in Nat /\ (\A i \in Ids : i \in Nat /\ streak[i] \in Nat)
  BY IdsAssumption DEF PoolInv, Table
<1>1. \A i \in DOMAIN db' : db'[i].fails <= streak'[i]
  BY <1>0 DEF FailsStay, HealthInv
<1>2. ASSUME NEW p \in Procs, pc'[p] = "disable", acct'[p].id \in DOMAIN db'
      PROVE  db'[acct'[p].id].fails >= MaxAuthFailures
  <2>1. pc[p] = "disable" /\ acct'[p] = acct[p]
    BY <1>2
  <2>2. acct[p].id < nextId /\ acct[p].id \in Nat
    BY <2>1, HasId DEF PoolInv, Seated, CheckSeated, Working, Procs
  <2>3. acct[p].id \in DOMAIN db
    BY <2>1, <2>2, <1>0, <1>2 DEF FailsStay
  <2> QED
    BY <2>1, <2>3, <1>2 DEF FailsStay, HealthInv
<1>3. \A i \in Ids : i >= nextId' => retired'[i] = Nil
  BY <1>0 DEF FailsStay, HealthInv
<1>4. DisabledForARow'
  <2> SUFFICES ASSUME NEW i \in DOMAIN db', retired'[i] # Nil
               PROVE  retired'[i] >= MaxAuthFailures
    BY DEF DisabledForARow
  <2>1. i \in Ids /\ retired'[i] = retired[i]
    BY DEF FailsStay, PoolInv, Table
  <2>2. i \in DOMAIN db
    BY <2>1, <1>0 DEF FailsStay, HealthInv
  <2> QED
    BY <2>1, <2>2 DEF HealthInv, DisabledForARow
<1> QED
  BY <1>1, <1>2, <1>3, <1>4 DEF HealthInv

LEMMA SameFails ==
  ASSUME UNCHANGED <<db, streak, retired>>
  PROVE  FailsStay
BY DEF FailsStay

LEMMA WriteFails ==
  ASSUME PoolInv, NEW i, NEW row, db' = Update(i, row),
         i \in DOMAIN db => row \in Row /\ row.fails = db[i].fails,
         UNCHANGED <<streak, retired>>
  PROVE  FailsStay
<1>1. db \in [DOMAIN db -> Row]
  BY DEF PoolInv, Table
<1>2. /\ DOMAIN db' = DOMAIN db
      /\ \A j \in DOMAIN db : j # i => db'[j] = db[j]
      /\ i \in DOMAIN db => db'[i] = row
  BY <1>1, UpdateIs
<1> QED
  BY <1>2 DEF FailsStay

LEMMA TouchFails ==
  ASSUME PoolInv, NEW r \in Requests, Touch(r)
  PROVE  FailsStay
<1> DEFINE row == [db[acct[r].id] EXCEPT !.used = now]
<1>1. acct[r].id \in DOMAIN db => row \in Row /\ row.fails = db[acct[r].id].fails
  BY UsedWritten
<1>2. db' = Update(acct[r].id, row) /\ UNCHANGED <<streak, retired>>
  BY DEF Touch
<1> HIDE DEF row
<1> QED
  BY <1>1, <1>2, WriteFails

LEMMA BindFails ==
  ASSUME PoolInv, NEW r \in Requests, Bind(r)
  PROVE  FailsStay
<1> DEFINE row == [db[acct[r].id] EXCEPT !.proxy = exit[r]]
<1>0. exit[r] \in Exits \cup {Direct}
  BY Participants DEF Bind, PoolInv, Seated, Control
<1>1. acct[r].id \in DOMAIN db => row \in Row /\ row.fails = db[acct[r].id].fails
  BY <1>0, ProxyWritten
<1>2. db' = db \/ db' = Update(acct[r].id, row)
  BY DEF Bind
<1>3. UNCHANGED <<streak, retired>>
  BY DEF Bind, history
<1> HIDE DEF row
<1> QED
  BY <1>1, <1>2, <1>3, WriteFails, SameFails

LEMMA AddFails ==
  ASSUME PoolInv, Add
  PROVE  FailsStay
<1>1. db' = [i \in DOMAIN db \cup {nextId} |-> IF i = nextId THEN NewRow ELSE db[i]]
  BY DEF Add
<1>2. nextId \notin DOMAIN db /\ nextId \in Ids
  BY DEF Add, PoolInv, Table
<1>3. NewRow.fails = 0
  BY DEF NewRow
<1> HIDE DEF NewRow
<1>4. UNCHANGED <<streak, retired>>
  BY DEF Add, history
<1> QED
  BY <1>1, <1>2, <1>3, <1>4 DEF FailsStay

(* Who stands where after a step of p.                                     *)
LEMMA MovesTo ==
  ASSUME PoolInv, NEW p \in Procs, NEW l, pc' = [pc EXCEPT ![p] = l]
  PROVE  pc'[p] = l /\ \A q \in Procs \ {p} : pc'[q] = pc[q]
BY DEF PoolInv, Control

(* The goroutine that counts or clears a failure does not switch off next, *)
(* and there is no other.                                                  *)
LEMMA FailureHealthy ==
  ASSUME Alone, PoolInv, PoolInv', HealthInv, NEW p \in Procs, NEW after,
         CountFailure(p, after), UNCHANGED <<nextId, retired>>
  PROVE  HealthInv'
<1>1. pc'[p] = "dead"
  BY MovesTo DEF CountFailure, Goto
<1>2. \A q \in Procs : pc'[q] # "disable"
  BY <1>1 DEF Alone
<1> DEFINE i == acct[p].id
           row == [db[i] EXCEPT !.fails = @ + 1]
<1>3. i \in DOMAIN db => row \in Row /\ row.fails = db[i].fails + 1
  BY RowIs, FailsWritten
<1>4. db \in [DOMAIN db -> Row] /\ db' = Update(i, row)
  BY DEF PoolInv, Table, CountFailure
<1>5. streak' = IF i \in DOMAIN db THEN [streak EXCEPT ![i] = @ + 1] ELSE streak
  BY DEF CountFailure
<1> HIDE DEF row, i
<1>6. /\ DOMAIN db' = DOMAIN db
      /\ \A j \in DOMAIN db : j # i => db'[j] = db[j]
      /\ i \in DOMAIN db => db'[i] = row
  BY <1>3, <1>4, UpdateIs
<1>7. \A j \in DOMAIN db : /\ j \in Ids /\ streak[j] \in Nat /\ db[j].fails \in Nat
                           /\ db[j].fails <= streak[j]
  BY DEF PoolInv, Table, Row, HealthInv
<1>8. streak \in [Ids -> Nat]
  BY DEF PoolInv, Table
<1>9. \A j \in DOMAIN db' : db'[j].fails <= streak'[j]
  <2> TAKE j \in DOMAIN db'
  <2>1. CASE j = i
    BY <2>1, <1>3, <1>5, <1>6, <1>7, <1>8
  <2>2. CASE j # i
    BY <2>2, <1>5, <1>6, <1>7, <1>8
  <2> QED
    BY <2>1, <2>2
<1>10. DisabledForARow'
  BY <1>6 DEF HealthInv, DisabledForARow
<1> QED
  BY <1>2, <1>9, <1>10 DEF HealthInv

LEMMA SuccessHealthy ==
  ASSUME Alone, PoolInv, PoolInv', HealthInv, NEW p \in Procs, NEW i,
         RecordSuccess(i), Leave(p), UNCHANGED <<nextId, retired>>
  PROVE  HealthInv'
<1>1. pc'[p] = "idle"
  BY MovesTo DEF Leave, Goto
<1>2. \A q \in Procs : pc'[q] # "disable"
  BY <1>1 DEF Alone
<1> DEFINE row == [db[i] EXCEPT !.fails = 0]
<1>3. i \in DOMAIN db => row \in Row /\ row.fails = 0
  BY FailsWritten
<1>4. db \in [DOMAIN db -> Row] /\ db' = Update(i, row)
  BY DEF PoolInv, Table, RecordSuccess
<1>5. streak' = [streak EXCEPT ![i] = 0]
  BY DEF RecordSuccess
<1> HIDE DEF row
<1>6. /\ DOMAIN db' = DOMAIN db
      /\ \A j \in DOMAIN db : j # i => db'[j] = db[j]
      /\ i \in DOMAIN db => db'[i] = row
  BY <1>3, <1>4, UpdateIs
<1>7. \A j \in DOMAIN db : j \in Ids /\ db[j].fails <= streak[j]
  BY DEF PoolInv, Table, HealthInv
<1>8. streak \in [Ids -> Nat]
  BY DEF PoolInv, Table
<1>9. \A j \in DOMAIN db' : db'[j].fails <= streak'[j]
  BY <1>3, <1>5, <1>6, <1>7, <1>8
<1>10. DisabledForARow'
  BY <1>6 DEF HealthInv, DisabledForARow
<1> QED
  BY <1>2, <1>9, <1>10 DEF HealthInv

LEMMA DisableHealthy ==
  ASSUME Alone, PoolInv, PoolInv', HealthInv, NEW p \in Procs, Disable(p)
  PROVE  HealthInv'
<1>1. pc[p] = "disable" /\ pc'[p] = "settled" /\ UNCHANGED <<nextId, streak>>
  BY MovesTo DEF Disable, Goto
<1>2. \A q \in Procs : pc'[q] # "disable"
  BY <1>1 DEF Alone
<1> DEFINE i == acct[p].id
           row == [db[i] EXCEPT !.on = FALSE]
<1>3. i \in DOMAIN db => row \in Row /\ row.fails = db[i].fails
  BY OffWritten
<1>4. db \in [DOMAIN db -> Row] /\ db' = Update(i, row)
  BY DEF PoolInv, Table, Disable
<1>5. retired' = IF i \in DOMAIN db /\ db[i].on THEN [retired EXCEPT ![i] = streak[i]] ELSE retired
  BY DEF Disable
<1>6. i \in DOMAIN db => db[i].fails >= MaxAuthFailures
  BY <1>1 DEF HealthInv
<1> HIDE DEF row, i
<1>7. /\ DOMAIN db' = DOMAIN db
      /\ \A j \in DOMAIN db : j # i => db'[j] = db[j]
      /\ i \in DOMAIN db => db'[i] = row
  BY <1>3, <1>4, UpdateIs
<1>8. \A j \in DOMAIN db : /\ j \in Ids /\ j \in Nat /\ streak[j] \in Nat /\ db[j].fails \in Nat
                           /\ db[j].fails <= streak[j] /\ j < nextId
  BY IdsAssumption DEF PoolInv, Table, Row, HealthInv
<1>9. nextId \in Nat /\ MaxAuthFailures \in Nat /\ retired \in [Ids -> Nat \cup {Nil}]
  BY LimitsAssumption DEF PoolInv, Table
<1>10. \A j \in DOMAIN db' : db'[j].fails <= streak'[j]
  BY <1>1, <1>3, <1>7, <1>8
<1>11. \A j \in Ids : j >= nextId' => retired'[j] = Nil
  BY <1>1, <1>5, <1>8, <1>9 DEF HealthInv
<1>12. DisabledForARow'
  <2> SUFFICES ASSUME NEW j \in DOMAIN db, retired'[j] # Nil
               PROVE  retired'[j] >= MaxAuthFailures
    BY <1>7 DEF DisabledForARow
  <2>1. CASE j = i
    BY <2>1, <1>5, <1>6, <1>8, <1>9 DEF HealthInv, DisabledForARow
  <2>2. CASE j # i
    BY <2>2, <1>5, <1>8, <1>9 DEF HealthInv, DisabledForARow
  <2> QED
    BY <2>1, <2>2
<1> QED
  BY <1>2, <1>10, <1>11, <1>12 DEF HealthInv

(* autoDisableIfDead looks at the counter.                                 *)
LEMMA ReadHealthy ==
  ASSUME Alone, PoolInv, PoolInv', HealthInv, NEW p \in Procs, ReadHealth(p)
  PROVE  HealthInv'
<1>1. UNCHANGED <<db, nextId, streak, retired, acct>>
  BY DEF ReadHealth, history, request
<1>2. pc'[p] = (IF acct[p].id \in DOMAIN db /\ db[acct[p].id].on
                   /\ db[acct[p].id].fails >= MaxAuthFailures
                THEN "disable" ELSE "settled")
  BY MovesTo DEF ReadHealth, Goto
<1>3. \A q \in Procs : pc'[q] = "disable" /\ acct'[q].id \in DOMAIN db' =>
        db'[acct'[q].id].fails >= MaxAuthFailures
  BY <1>1, <1>2 DEF Alone
<1> QED
  BY <1>1, <1>3 DEF HealthInv, DisabledForARow

LEMMA SwitchFails ==
  ASSUME NeverReenabled, PoolInv, NEW i \in Ids, NEW on \in BOOLEAN, SetStatus(i, on)
  PROVE  FailsStay
<1>1. ~on
  BY DEF SetStatus, Count, NeverReenabled, PoolInv, Table
<1> DEFINE row == [db[i] EXCEPT !.on = on]
<1>2. row \in Row /\ row.fails = db[i].fails
  BY OnWritten DEF SetStatus
<1>3. i \in DOMAIN db /\ db' = [db EXCEPT ![i] = row] /\ UNCHANGED streak
      /\ retired' = [retired EXCEPT ![i] = Nil]
  BY <1>1 DEF SetStatus
<1> HIDE DEF row
<1>4. \A j \in Ids : retired'[j] \in {retired[j], Nil}
  BY <1>3 DEF PoolInv, Table
<1> QED
  BY <1>2, <1>3, <1>4 DEF FailsStay

LEMMA AnswerHealthy ==
  ASSUME Alone, PoolInv, PoolInv', HealthInv, NEW p \in Procs, NEW answer,
         CASE answer = "ok" -> RecordSuccess(acct[p].id) /\ Leave(p) /\ UNCHANGED dying
           [] answer = "auth" -> CountFailure(p, "served") /\ UNCHANGED <<acct, tried, exit>>
           [] OTHER -> Leave(p) /\ UNCHANGED <<db, streak, dying>>,
         UNCHANGED <<nextId, retired>>
  PROVE  HealthInv'
<1>1. CASE answer = "ok"
  BY <1>1, SuccessHealthy
<1>2. CASE answer = "auth"
  BY <1>2, FailureHealthy
<1>3. CASE answer # "ok" /\ answer # "auth"
  <2>1. FailsStay
    BY <1>3, SameFails
  <2>2. pc'[p] = "idle" /\ nextId' >= nextId
    <3>1. pc' = [pc EXCEPT ![p] = "idle"]
      BY <1>3 DEF Leave, Goto
    <3>2. pc'[p] = "idle"
      BY <3>1, MovesTo
    <3>3. nextId' = nextId /\ nextId \in Nat
      BY DEF PoolInv, Table
    <3> QED
      BY <3>2, <3>3
  <2>3. \A q \in Procs : pc'[q] # "disable"
    BY <2>2 DEF Alone
  <2> QED
    BY <2>1, <2>2, <2>3, StaysHealthy
<1> QED
  BY <1>1, <1>2, <1>3

LEMMA HealthKept ==
  ASSUME Alone, NeverReenabled, PoolInv, PoolInv', HealthInv, [PoolNext]_poolVars
  PROVE  HealthInv'
<1>0. nextId \in Nat /\ nextId + 1 >= nextId /\ nextId >= nextId
  BY DEF PoolInv, Table
<1>1. ASSUME NEW r \in Requests, StartRequest(r) \/ Request(r) PROVE HealthInv'
  <2>0. r \in Procs
    BY Participants
  <2>1. CASE Fail(r)
    BY <2>0, <2>1, FailureHealthy DEF Fail
  <2>2. CASE Serve(r) /\ acct[r] # Nil
    BY <2>0, <2>2, AnswerHealthy DEF Serve
  <2>3. ASSUME NEW l, pc' = [pc EXCEPT ![r] = l], l # "disable", FailsStay, nextId' = nextId
        PROVE  HealthInv'
    <3>1. \A q \in Procs : pc'[q] # "disable"
      BY <2>3, <2>0, MovesTo DEF Alone
    <3> QED
      BY <3>1, <2>3, <1>0, StaysHealthy
  <2>4. CASE Serve(r) /\ acct[r] = Nil
    <3>1. pc' = [pc EXCEPT ![r] = "idle"] /\ UNCHANGED <<db, streak, retired, nextId>>
      BY <2>4 DEF Serve, Leave, Goto
    <3> QED
      BY <3>1, <2>3, SameFails
  <2>5. CASE StartRequest(r) \/ Select(r) \/ SelectNothing(r)
    <3>1. UNCHANGED <<db, streak, retired, nextId>>
      BY <2>5 DEF StartRequest, Select, SelectNothing, history
    <3>2. \E l \in Labels \ {"disable"} : pc' = [pc EXCEPT ![r] = l]
      BY <2>5 DEF StartRequest, Select, SelectNothing, Goto, Labels
    <3> QED
      BY <3>1, <3>2, <2>3, SameFails
  <2>6. CASE TakeExit(r) \/ Rotate(r) \/ ObtainToken(r) \/ Retry(r) \/ Exhausted(r)
    <3>1. UNCHANGED <<db, streak, retired, nextId>>
      BY <2>6 DEF TakeExit, Rotate, ObtainToken, Retry, Exhausted, history
    <3>2. \E l \in Labels \ {"disable"} : pc' = [pc EXCEPT ![r] = l]
      BY <2>6 DEF TakeExit, Rotate, ObtainToken, Retry, Exhausted, Goto, Labels
    <3> QED
      BY <3>1, <3>2, <2>3, SameFails
  <2>7. CASE Touch(r) \/ Bind(r)
    <3>1. nextId' = nextId /\ FailsStay
      BY <2>7, TouchFails, BindFails DEF Touch, Bind
    <3>2. \E l \in Labels \ {"disable"} : pc' = [pc EXCEPT ![r] = l]
      BY <2>7 DEF Touch, Bind, Goto, Labels
    <3> QED
      BY <3>1, <3>2, <2>3
  <2> QED
    BY <1>1, <2>1, <2>2, <2>4, <2>5, <2>6, <2>7 DEF Request
<1>2. ASSUME NEW c \in Checkers, StartCheck(c) \/ Check(c) PROVE HealthInv'
  <2>0. c \in Procs
    BY Participants
  <2>1. CASE Check(c)
    BY <2>0, <2>1, AnswerHealthy DEF Check
  <2>2. CASE StartCheck(c)
    <3>1. UNCHANGED <<db, streak, retired, nextId>> /\ pc' = [pc EXCEPT ![c] = "check"]
      BY <2>2 DEF StartCheck, Goto, history
    <3>2. pc'[c] = "check"
      BY <3>1, <2>0, MovesTo
    <3>3. \A q \in Procs : pc'[q] # "disable"
      BY <3>2, <2>0 DEF Alone
    <3> QED
      BY <3>1, <3>3, <1>0, SameFails, StaysHealthy
  <2> QED
    BY <1>2, <2>1, <2>2
<1>3. ASSUME NEW p \in Procs, AutoDisable(p) PROVE HealthInv'
  <2>1. CASE Settled(p)
    <3>1. UNCHANGED <<db, streak, retired, nextId>>
      BY <2>1 DEF Settled, history
    <3>2. \E l \in Labels \ {"disable"} : pc' = [pc EXCEPT ![p] = l]
      BY <2>1 DEF Settled, Leave, Goto, Labels
    <3>3. \A q \in Procs : pc'[q] # "disable"
      BY <3>2, MovesTo DEF Alone
    <3> QED
      BY <3>1, <3>3, <1>0, SameFails, StaysHealthy
  <2> QED
    BY <1>3, <2>1, ReadHealthy, DisableHealthy DEF AutoDisable
<1>4. ASSUME UNCHANGED <<pc, acct>>, FailsStay, nextId' \in {nextId, nextId + 1} PROVE HealthInv'
  BY <1>4, <1>0, StaysHealthy
<1>5. CASE Administrate
  <2>1. CASE Add
    BY <2>1, <1>4, AddFails DEF Add, request
  <2>2. ASSUME NEW i \in Ids, Delete(i) PROVE HealthInv'
    BY <2>2, <1>4 DEF Delete, request, history, FailsStay
  <2>3. ASSUME NEW i \in Ids, NEW on \in BOOLEAN, SetStatus(i, on) PROVE HealthInv'
    BY <2>3, <1>4, SwitchFails DEF SetStatus, request
  <2> QED
    BY <1>5, <2>1, <2>2, <2>3 DEF Administrate
<1>6. CASE (\E e \in Exits : Flip(e)) \/ Tick \/ UNCHANGED poolVars
  <2>1. UNCHANGED <<db, streak, retired, nextId, pc, acct>>
    BY <1>6 DEF Flip, Tick, poolVars, request, history
  <2> QED
    BY <2>1, <1>4, SameFails
<1> QED
  BY <1>1, <1>2, <1>3, <1>5, <1>6 DEF PoolNext

(* Where one goroutine at a time works with accounts and nobody switches   *)
(* an account on again, an account is switched off only after              *)
(* MaxAuthFailures failures in a row.                                      *)
THEOREM DisabledForARowAlone ==
  ASSUME Alone, NeverReenabled
  PROVE  PoolSpec => []DisabledForARow
<1>1. ASSUME PoolInit PROVE HealthInv
  <2>1. PoolInv
    BY <1>1, PoolStarts
  <2>2. \A i \in DOMAIN db : db[i].fails <= streak[i]
    BY <2>1, <1>1 DEF PoolInit, PoolInv, Table, Row
  <2> QED
    BY <2>1, <2>2, <1>1 DEF PoolInit, HealthInv, DisabledForARow, PoolInv, Table
<1>2. PoolInv /\ PoolInv' /\ HealthInv /\ [PoolNext]_poolVars => HealthInv'
  BY HealthKept
<1>3. HealthInv => DisabledForARow
  BY DEF HealthInv
<1> QED
  BY <1>1, <1>2, <1>3, PoolAlways, PTL DEF PoolSpec

-----------------------------------------------------------------------------
(* Taking turns *)

(* The run's setting: all accounts are fresh, nobody edits them, upstream  *)
(* answers requests (though not checks) well, and two picks are never less *)
(* than a second apart.                                                    *)
Undisturbed ==
  /\ Gap \in Nat \ {0} /\ Answers = {"ok"}
  /\ MaxEdits = 0 /\ MaxSwitches = 0
  /\ \A t \in InitialTables : \A i \in DOMAIN t : t[i].on /\ t[i].fails = 0

Proven(i) == i \in DOMAIN db /\ auths[i] = 0

(* An account that was never rejected is on, with no failures, and sorted  *)
(* by last use it is sorted by turns, of which none is more than one       *)
(* ahead.                                                                  *)
ProvenFresh == \A i : Proven(i) => db[i].on /\ db[i].fails = 0
Even ==
  \A i, j : Proven(i) /\ Proven(j) =>
    /\ turns[i] <= turns[j] + 1
    /\ db[i].used <= db[j].used => turns[i] <= turns[j]

(* Between SELECT and UPDATE the selected account remains the one whose    *)
(* turn it is, and every other was used in an earlier second.              *)
NextInTurn(i) ==
  /\ \A j \in DOMAIN db : db[j].used < now
  /\ Proven(i) => \A j : Proven(j) => db[i].used <= db[j].used

(* With good answers a request keeps its first account.                    *)
Straight(r) ==
  /\ pc[r] \in {"idle", "pick", "touch", "exit", "token", "bind", "serve"}
  /\ pc[r] \in {"pick", "touch"} => exit[r] = Nil
  /\ pc[r] = "touch" => NextInTurn(acct[r].id)

(* A check writes failures of rejected accounts only.                      *)
Rejecting(c) == pc[c] \in Failing => auths[acct[c].id] > 0

TurnInv ==
  /\ ProvenFresh
  /\ Even
  /\ \A r \in Requests : Straight(r)
  /\ \A c \in Checkers : Rejecting(c)

LEMMA StepStays ==
  ASSUME PoolInv, NEW p \in Procs,
         \/ p \in Requests /\ (StartRequest(p) \/ Request(p))
         \/ p \in Checkers /\ (StartCheck(p) \/ Check(p))
         \/ AutoDisable(p)
  PROVE  StaysBut(p)
<1>1. CASE p \in Requests /\ (StartRequest(p) \/ Request(p))
  BY <1>1, StartRequestKeeps, SelectKeeps, SelectNothingKeeps, TouchKeeps, TakeExitKeeps,
     ObtainTokenKeeps, RotateKeeps, RetryKeeps, BindKeeps, ExhaustedKeeps, FailKeeps,
     ServeKeeps DEF Request
<1>2. CASE p \in Checkers /\ (StartCheck(p) \/ Check(p))
  BY <1>2, StartCheckKeeps, CheckKeeps
<1>3. CASE AutoDisable(p)
  BY <1>3, ReadHealthKeeps, DisableKeeps, SettledKeeps DEF AutoDisable
<1> QED
  BY <1>1, <1>2, <1>3

(* Nobody's turn is taken, and nobody becomes proven.                      *)
TurnsStay ==
  /\ DOMAIN db' = DOMAIN db
  /\ \A i \in DOMAIN db : db'[i].used = db[i].used
  /\ \A i \in Ids : auths'[i] >= auths[i]
  /\ turns' = turns /\ now' >= now

LEMMA ProvenBefore ==
  ASSUME PoolInv, PoolInv', TurnsStay, NEW i, Proven(i)'
  PROVE  Proven(i)
BY DEF Proven, TurnsStay, PoolInv, Table

LEMMA StillEven ==
  ASSUME PoolInv, PoolInv', TurnsStay, Even
  PROVE  Even'
<1> SUFFICES ASSUME NEW i, NEW j, Proven(i)', Proven(j)'
             PROVE  /\ turns'[i] <= turns'[j] + 1
                    /\ db'[i].used <= db'[j].used => turns'[i] <= turns'[j]
  BY DEF Even
<1>1. Proven(i) /\ Proven(j)
  BY ProvenBefore
<1>2. i \in DOMAIN db /\ j \in DOMAIN db
  BY <1>1 DEF Proven
<1> QED
  BY <1>1, <1>2 DEF Even, TurnsStay

LEMMA StillNext ==
  ASSUME PoolInv, PoolInv', TurnsStay, NEW i, NextInTurn(i)
  PROVE  NextInTurn(i)'
<1>1. \A j \in DOMAIN db' : db'[j].used < now'
  <2> TAKE j \in DOMAIN db'
  <2>1. j \in DOMAIN db /\ db'[j].used = db[j].used /\ db[j].used < now /\ now <= now'
    BY DEF TurnsStay, NextInTurn
  <2>2. db[j].used \in Nat /\ now \in Nat /\ now' \in Nat
    BY <2>1 DEF PoolInv, Table, Row
  <2> QED
    BY <2>1, <2>2
<1>2. ASSUME Proven(i)', NEW j, Proven(j)' PROVE db'[i].used <= db'[j].used
  <2>1. Proven(i) /\ Proven(j)
    BY <1>2, ProvenBefore
  <2> QED
    BY <2>1 DEF NextInTurn, TurnsStay, Proven
<1> QED
  BY <1>1, <1>2 DEF NextInTurn

(* Those who do not move.                                                  *)
LEMMA OtherStraight ==
  ASSUME PoolInv, PoolInv', TurnsStay, NEW r \in Requests, Straight(r),
         pc'[r] = pc[r], acct'[r] = acct[r], exit'[r] = exit[r]
  PROVE  Straight(r)'
<1>1. pc[r] = "touch" => NextInTurn(acct[r].id)'
  BY StillNext DEF Straight
<1>2. pc'[r] = "touch" => NextInTurn(acct[r].id)' /\ acct'[r].id = acct[r].id
  BY <1>1
<1>3. pc'[r] = "touch" => NextInTurn(acct[r].id)'
  BY <1>2
<1> QED
  BY <1>3 DEF Straight, NextInTurn, Proven

LEMMA OtherRejecting ==
  ASSUME PoolInv, PoolInv', TurnsStay, NEW c \in Checkers, Rejecting(c),
         pc'[c] = pc[c], acct'[c] = acct[c]
  PROVE  Rejecting(c)'
<1> SUFFICES ASSUME pc[c] \in Failing PROVE auths'[acct[c].id] > 0
  BY DEF Rejecting
<1>1. acct[c] # Nil
  BY DEF PoolInv, CheckSeated, Failing
<1>2. acct[c].id \in Ids
  BY <1>1, HasId, Participants
<1> QED
  BY <1>2 DEF Rejecting, TurnsStay, PoolInv, Table

(* A step of p that takes nobody's turn.                                   *)
LEMMA OneTurn ==
  ASSUME PoolInv, PoolInv', TurnInv, TurnsStay, ProvenFresh', NEW p \in Procs, StaysBut(p),
         p \in Requests => Straight(p)', p \in Checkers => Rejecting(p)'
  PROVE  TurnInv'
<1>1. Even'
  BY StillEven DEF TurnInv
<1>2. ASSUME NEW r \in Requests PROVE Straight(r)'
  BY <1>2, OtherStraight, Participants DEF StaysBut, TurnInv
<1>3. ASSUME NEW c \in Checkers PROVE Rejecting(c)'
  BY <1>3, OtherRejecting, Participants DEF StaysBut, TurnInv
<1> QED
  BY <1>1, <1>2, <1>3 DEF TurnInv

LEMMA NobodysTurn ==
  ASSUME PoolInv, PoolInv', TurnInv, UNCHANGED <<db, auths, turns, pc, acct, exit>>, now' >= now
  PROVE  TurnInv'
<1>1. TurnsStay
  BY DEF TurnsStay, PoolInv, Table
<1>2. Even' /\ ProvenFresh'
  BY <1>1, StillEven DEF TurnInv, ProvenFresh, Proven
<1>3. ASSUME NEW r \in Requests PROVE Straight(r)'
  BY <1>1, <1>3, OtherStraight DEF TurnInv
<1>4. ASSUME NEW c \in Checkers PROVE Rejecting(c)'
  BY <1>1, <1>4, OtherRejecting DEF TurnInv
<1> QED
  BY <1>2, <1>3, <1>4 DEF TurnInv

LEMMA SameTurns ==
  ASSUME PoolInv, ProvenFresh, UNCHANGED <<now, db, auths, turns>>
  PROVE  TurnsStay /\ ProvenFresh'
BY DEF TurnsStay, ProvenFresh, Proven, PoolInv, Table

(* The account the SELECT returns is the one whose turn it is.             *)
LEMMA SelectTurns ==
  ASSUME Undisturbed, PoolInv, PoolInv', TurnInv, NEW r \in Requests, Select(r)
  PROVE  TurnInv'
<1>0. r \in Procs
  BY Participants
<1>1. PICK i \in Enabled(db) \ tried[r] :
        /\ \A j \in Enabled(db) \ tried[r] : Before(i, j)
        /\ acct' = [acct EXCEPT ![r] = Snapshot(i)]
  BY DEF Select
<1>2. pc' = [pc EXCEPT ![r] = "touch"] /\ UNCHANGED <<now, db, auths, turns, exit, tried>>
  BY DEF Select, Goto, history
<1>3. i \in DOMAIN db /\ Snapshot(i).id = i
  BY <1>1, SnapshotIs DEF Enabled
<1>4. acct'[r].id = i /\ pc'[r] = "touch"
  BY <1>0, <1>1, <1>2, <1>3 DEF PoolInv, Control
<1>5. exit[r] = Nil /\ tried[r] = {}
  BY DEF Select, TurnInv, Straight, PoolInv, Seated
<1>6. NextInTurn(i)'
  <2>1. ASSUME NEW j \in DOMAIN db PROVE db[j].used < now
    <3>1. db[j].used + Gap <= now /\ db[j].used \in Nat /\ now \in Nat /\ Gap \in Nat \ {0}
      BY <2>1 DEF Select, PoolInv, Table, Row, Undisturbed
    <3> QED
      BY <3>1
  <2>2. ASSUME Proven(i), NEW j, Proven(j) PROVE db[i].used <= db[j].used
    <3>1. j \in Enabled(db) \ tried[r] /\ db[i].fails = 0 /\ db[j].fails = 0
      BY <2>2, <1>5 DEF TurnInv, ProvenFresh, Enabled, Proven
    <3>2. Before(i, j) /\ db[i].used \in Nat /\ db[j].used \in Nat
      BY <3>1, <1>1, <1>3 DEF Enabled, PoolInv, Table, Row
    <3> QED
      BY <3>1, <3>2 DEF Before
  <2> QED
    BY <2>1, <2>2, <1>2 DEF NextInTurn, Proven
<1>7. Straight(r)'
  <2>1. exit'[r] = Nil
    BY <1>2, <1>5
  <2>2. NextInTurn(acct[r].id)'
    BY <1>4, <1>6 DEF NextInTurn, Proven
  <2> QED
    BY <2>1, <2>2, <1>4 DEF Straight
<1>8. StaysBut(r)
  BY SelectKeeps
<1> QED
  BY <1>0, <1>2, <1>7, <1>8, SameTurns, OneTurn, Participants DEF TurnInv

(* The UPDATE takes the turn of the account that was due.                  *)
LEMMA TouchTurns ==
  ASSUME PoolInv, PoolInv', TurnInv, NEW r \in Requests, Touch(r)
  PROVE  TurnInv'
<1>0. r \in Procs /\ pc[r] = "touch" /\ pickMu = r /\ exit[r] = Nil
  BY Participants DEF Touch, PoolInv, Seated, TurnInv, Straight
<1> DEFINE i == acct[r].id
           row == [db[i] EXCEPT !.used = now]
<1>1. NextInTurn(i)
  BY <1>0 DEF TurnInv, Straight
<1>2. i \in Ids
  BY <1>0, HasId DEF PoolInv, Seated, Working
<1>3. i \in DOMAIN db => /\ row \in Row /\ row.used = now
                         /\ row.on = db[i].on /\ row.fails = db[i].fails
  BY UsedWritten
<1>4. db \in [DOMAIN db -> Row] /\ db' = Update(i, row)
  BY DEF PoolInv, Table, Touch
<1>5. turns' = [turns EXCEPT ![i] = @ + 1] /\ UNCHANGED <<now, auths, acct, exit>>
  BY DEF Touch, request
<1>6. pc' = [pc EXCEPT ![r] = "exit"]
  BY <1>0 DEF Touch, Goto
<1>7. StaysBut(r)
  BY TouchKeeps
<1> HIDE DEF i, row
<1>8. /\ DOMAIN db' = DOMAIN db
      /\ \A j \in DOMAIN db : j # i => db'[j] = db[j]
      /\ i \in DOMAIN db => db'[i] = row
  BY <1>3, <1>4, UpdateIs
<1>9. \A j : Proven(j)' <=> Proven(j)
  BY <1>5, <1>8 DEF Proven
<1>10. /\ turns'[i] = turns[i] + 1
       /\ \A j \in DOMAIN db : j # i => turns'[j] = turns[j]
       /\ \A j \in DOMAIN db : turns[j] \in Nat /\ db[j].used \in Nat /\ db[j].used < now
  BY <1>1, <1>2, <1>5 DEF PoolInv, Table, Row, NextInTurn
<1>11. now \in Nat /\ turns[i] \in Nat
  BY <1>2 DEF PoolInv, Table
<1>12. ProvenFresh'
  <2> SUFFICES ASSUME NEW j, Proven(j) PROVE db'[j].on /\ db'[j].fails = 0
    BY <1>9 DEF ProvenFresh
  <2>1. j \in DOMAIN db /\ db[j].on /\ db[j].fails = 0
    BY DEF TurnInv, ProvenFresh, Proven
  <2> QED
    BY <2>1, <1>3, <1>8
<1>13. Even'
  <2> SUFFICES ASSUME NEW j, NEW k, Proven(j), Proven(k)
               PROVE  /\ turns'[j] <= turns'[k] + 1
                      /\ db'[j].used <= db'[k].used => turns'[j] <= turns'[k]
    BY <1>9 DEF Even
  <2>1. /\ j \in DOMAIN db /\ k \in DOMAIN db
        /\ turns[j] <= turns[k] + 1 /\ turns[k] <= turns[j] + 1
        /\ db[j].used <= db[k].used => turns[j] <= turns[k]
    BY DEF TurnInv, Even, Proven
  <2>2. CASE j # i /\ k # i
    BY <2>1, <2>2, <1>8, <1>10
  <2>3. CASE j = i /\ k = i
    BY <2>1, <2>3, <1>10, <1>11
  <2>4. CASE j = i /\ k # i
    <3>1. db[i].used <= db[k].used /\ db'[i].used = now /\ db'[k].used < now
      BY <2>1, <2>4, <1>1, <1>3, <1>8, <1>10 DEF NextInTurn
    <3> QED
      BY <3>1, <2>1, <2>4, <1>8, <1>10, <1>11
  <2>5. CASE j # i /\ k = i
    BY <2>1, <2>5, <1>10, <1>11
  <2> QED
    BY <2>2, <2>3, <2>4, <2>5
<1>14. ASSUME NEW q \in Requests PROVE Straight(q)'
  <2>1. CASE q = r
    <3>1. pc'[r] = "exit"
      BY <1>0, <1>6, MovesTo
    <3> QED
      BY <2>1, <3>1 DEF Straight
  <2>2. CASE q # r
    <3>1. pc'[q] = pc[q] /\ exit'[q] = exit[q]
      BY <2>2, <1>14, <1>7, Participants DEF StaysBut
    <3>2. pc[q] # "touch"
      BY <2>2, <1>0, <1>14 DEF PoolInv, Seated
    <3> QED
      BY <3>1, <3>2, <1>14 DEF Straight, TurnInv
  <2> QED
    BY <2>1, <2>2
<1>15. ASSUME NEW c \in Checkers PROVE Rejecting(c)'
  <2>1. pc'[c] = pc[c]
    BY <1>15, <1>7, Participants DEF StaysBut
  <2> QED
    BY <2>1, <1>5, <1>15 DEF Rejecting, TurnInv
<1> QED
  BY <1>12, <1>13, <1>14, <1>15 DEF TurnInv

(* A row is written and its last use kept; where it is not on any more, or *)
(* has failures, the account has been rejected.                            *)
LEMMA WriteTurns ==
  ASSUME PoolInv, PoolInv', ProvenFresh, NEW i, NEW row, db' = Update(i, row),
         i \in DOMAIN db =>
           /\ row \in Row /\ row.used = db[i].used
           /\ Proven(i)' => row.on /\ row.fails = 0,
         \A j \in Ids : auths'[j] >= auths[j], UNCHANGED <<now, turns>>
  PROVE  TurnsStay /\ ProvenFresh'
<1>1. db \in [DOMAIN db -> Row]
  BY DEF PoolInv, Table
<1>2. /\ DOMAIN db' = DOMAIN db
      /\ \A j \in DOMAIN db : j # i => db'[j] = db[j]
      /\ i \in DOMAIN db => db'[i] = row
  BY <1>1, UpdateIs
<1>3. TurnsStay
  BY <1>2 DEF TurnsStay, PoolInv, Table
<1>4. ASSUME NEW j, Proven(j)' PROVE db'[j].on /\ db'[j].fails = 0
  <2>1. Proven(j)
    BY <1>3, <1>4, ProvenBefore
  <2>2. CASE j = i
    BY <2>1, <2>2, <1>2, <1>4 DEF Proven
  <2>3. CASE j # i
    BY <2>1, <2>3, <1>2 DEF Proven, ProvenFresh
  <2> QED
    BY <2>2, <2>3
<1> QED
  BY <1>3, <1>4 DEF ProvenFresh

LEMMA SuccessTurns ==
  ASSUME PoolInv, PoolInv', ProvenFresh, NEW i, RecordSuccess(i), UNCHANGED <<now, turns, auths>>
  PROVE  TurnsStay /\ ProvenFresh'
<1> DEFINE row == [db[i] EXCEPT !.fails = 0]
<1>1. i \in DOMAIN db => /\ row \in Row /\ row.used = db[i].used
                         /\ row.on = db[i].on /\ row.fails = 0
  BY FailsWritten
<1>2. db' = Update(i, row)
  BY DEF RecordSuccess
<1>3. \A j \in Ids : auths'[j] >= auths[j]
  BY DEF PoolInv, Table
<1>4. Proven(i)' /\ i \in DOMAIN db => db[i].on
  BY DEF Proven, ProvenFresh
<1> HIDE DEF row
<1> QED
  BY <1>1, <1>2, <1>3, <1>4, WriteTurns

LEMMA DisableTurns ==
  ASSUME PoolInv, PoolInv', ProvenFresh, NEW p \in Procs, Disable(p), auths[acct[p].id] > 0
  PROVE  TurnsStay /\ ProvenFresh'
<1>0. PICK i : i = acct[p].id
  OBVIOUS
<1> DEFINE row == [db[i] EXCEPT !.on = FALSE]
<1>1. i \in DOMAIN db => row \in Row /\ row.used = db[i].used
  BY OffWritten
<1>2. db' = Update(i, row) /\ UNCHANGED <<now, turns, auths>>
  BY <1>0 DEF Disable
<1>3. \A j \in Ids : auths'[j] >= auths[j]
  BY <1>2 DEF PoolInv, Table
<1>4. ~Proven(i)'
  BY <1>0, <1>2 DEF Proven
<1> HIDE DEF row
<1> QED
  BY <1>1, <1>2, <1>3, <1>4, WriteTurns

LEMMA RejectTurns ==
  ASSUME PoolInv, PoolInv', ProvenFresh, NEW p \in Procs, acct[p] # Nil,
         CountFailure(p, "served"), Answered(acct[p].id, "auth"), UNCHANGED <<now, turns>>
  PROVE  TurnsStay /\ ProvenFresh' /\ auths'[acct[p].id] > 0
<1>0. PICK i : i = acct[p].id
  OBVIOUS
<1> DEFINE row == [db[i] EXCEPT !.fails = @ + 1]
<1>1. i \in DOMAIN db => row \in Row /\ row.used = db[i].used
  BY RowIs, FailsWritten
<1>2. db' = Update(i, row)
  BY <1>0 DEF CountFailure
<1>3. i \in Ids /\ auths' = [auths EXCEPT ![i] = @ + 1]
  BY <1>0, HasId DEF Answered
<1>4. (\A j \in Ids : auths'[j] >= auths[j]) /\ auths'[i] > 0
  BY <1>3 DEF PoolInv, Table
<1>5. ~Proven(i)'
  BY <1>4 DEF Proven
<1> HIDE DEF row
<1>6. TurnsStay /\ ProvenFresh'
  BY <1>1, <1>2, <1>4, <1>5, WriteTurns
<1> QED
  BY <1>0, <1>4, <1>6

LEMMA ServeTurns ==
  ASSUME Undisturbed, PoolInv, PoolInv', TurnInv, NEW r \in Requests, Serve(r)
  PROVE  TurnInv'
<1>0. r \in Procs /\ StaysBut(r) /\ ProvenFresh
  BY ServeKeeps, Participants DEF TurnInv
<1>1. Leave(r) /\ TurnsStay /\ ProvenFresh'
  <2>1. CASE acct[r] = Nil
    <3>1. Leave(r) /\ UNCHANGED <<now, db, auths, turns>>
      BY <2>1 DEF Serve
    <3> QED
      BY <3>1, <1>0, SameTurns
  <2>2. CASE acct[r] # Nil
    <3>1. RecordSuccess(acct[r].id) /\ Leave(r) /\ UNCHANGED <<now, auths, turns>>
      BY <2>2 DEF Serve, Undisturbed, Answered
    <3> QED
      BY <3>1, <1>0, SuccessTurns
  <2> QED
    BY <2>1, <2>2
<1>2. pc'[r] = "idle"
  BY <1>0, <1>1, MovesTo DEF Leave, Goto
<1>3. Straight(r)'
  BY <1>2 DEF Straight
<1> QED
  BY <1>0, <1>1, <1>3, OneTurn, Participants

LEMMA CheckTurns ==
  ASSUME PoolInv, PoolInv', TurnInv, NEW c \in Checkers, Check(c)
  PROVE  TurnInv'
<1>0. c \in Procs /\ StaysBut(c) /\ ProvenFresh /\ acct[c] # Nil
  BY CheckKeeps, Participants DEF TurnInv, Check, PoolInv, CheckSeated
<1>1. PICK answer \in CheckAnswers :
        /\ Answered(acct[c].id, answer)
        /\ CASE answer = "ok" -> RecordSuccess(acct[c].id) /\ Leave(c) /\ UNCHANGED dying
             [] answer = "auth" -> CountFailure(c, "served") /\ UNCHANGED <<acct, tried, exit>>
             [] OTHER -> Leave(c) /\ UNCHANGED <<db, streak, dying>>
  BY DEF Check
<1>2. UNCHANGED <<now, turns>>
  BY DEF Check
<1>3. ASSUME Leave(c) PROVE Rejecting(c)'
  <2>1. pc' = [pc EXCEPT ![c] = "idle"]
    BY <1>3 DEF Leave, Goto
  <2>2. pc'[c] = "idle"
    BY <2>1, <1>0, MovesTo
  <2> QED
    BY <2>2 DEF Rejecting, Failing
<1>4. CASE answer = "ok"
  <2>1. RecordSuccess(acct[c].id) /\ Leave(c) /\ auths' = auths
    BY <1>1, <1>4 DEF Answered
  <2> QED
    BY <2>1, <1>0, <1>2, <1>3, SuccessTurns, OneTurn, Participants
<1>5. CASE answer = "auth"
  <2>1. CountFailure(c, "served") /\ acct' = acct
    BY <1>1, <1>5
  <2>2. TurnsStay /\ ProvenFresh' /\ auths'[acct[c].id] > 0
    BY <2>1, <1>0, <1>1, <1>2, <1>5, RejectTurns
  <2>3. Rejecting(c)'
    BY <2>1, <2>2 DEF Rejecting
  <2> QED
    BY <2>2, <2>3, <1>0, OneTurn, Participants
<1>6. CASE answer # "ok" /\ answer # "auth"
  <2>1. Leave(c) /\ UNCHANGED <<db, auths>>
    BY <1>1, <1>6 DEF Answered
  <2> QED
    BY <2>1, <1>0, <1>2, <1>3, SameTurns, OneTurn, Participants
<1> QED
  BY <1>4, <1>5, <1>6

(* Only checks come to autoDisableIfDead.                                  *)
LEMMA HealthTurns ==
  ASSUME PoolInv, PoolInv', TurnInv, NEW p \in Procs, AutoDisable(p)
  PROVE  TurnInv'
<1>0. StaysBut(p) /\ ProvenFresh
  BY StepStays DEF TurnInv
<1>1. p \in Checkers /\ p \notin Requests /\ auths[acct[p].id] > 0
  <2>1. pc[p] \in Failing
    BY DEF AutoDisable, ReadHealth, Disable, Settled, Failing
  <2>2. p \notin Requests
    BY <2>1 DEF TurnInv, Straight, Failing
  <2> QED
    BY <2>1, <2>2 DEF Procs, TurnInv, Rejecting
<1>2. CASE ReadHealth(p)
  <2>1. UNCHANGED <<now, db, auths, turns, acct>>
    BY <1>2 DEF ReadHealth, history, request
  <2>2. Rejecting(p)'
    BY <2>1, <1>1 DEF Rejecting
  <2> QED
    BY <2>1, <2>2, <1>0, <1>1, SameTurns, OneTurn
<1>3. CASE Disable(p)
  <2>1. UNCHANGED <<auths, acct>>
    BY <1>3 DEF Disable, request
  <2>2. Rejecting(p)'
    BY <2>1, <1>1 DEF Rejecting
  <2> QED
    BY <2>2, <1>0, <1>1, <1>3, DisableTurns, OneTurn
<1>4. CASE Settled(p)
  <2>1. UNCHANGED <<now, db, auths, turns>>
    BY <1>4 DEF Settled, history
  <2>2. pc' = [pc EXCEPT ![p] = "idle"]
    BY <1>1, <1>4 DEF Settled, Leave, Goto, PoolInv, CheckSeated
  <2>3. pc'[p] = "idle"
    BY <2>2, MovesTo
  <2>4. Rejecting(p)'
    BY <2>3 DEF Rejecting, Failing
  <2> QED
    BY <2>1, <2>4, <1>0, <1>1, SameTurns, OneTurn
<1> QED
  BY <1>2, <1>3, <1>4 DEF AutoDisable

LEMMA RequestTurns ==
  ASSUME Undisturbed, PoolInv, PoolInv', TurnInv, NEW r \in Requests,
         StartRequest(r) \/ Request(r)
  PROVE  TurnInv'
<1>0. /\ r \in Procs /\ r \notin Checkers /\ StaysBut(r) /\ ProvenFresh /\ Straight(r)
      /\ Answers = {"ok"}
  BY StepStays, Participants DEF TurnInv, Undisturbed
<1>1. ASSUME NEW l \in {"exit", "pick", "idle", "serve", "token", "bind"},
             pc' = [pc EXCEPT ![r] = l], l = "pick" => exit'[r] = Nil
      PROVE  Straight(r)'
  <2>1. pc'[r] = l
    BY <1>0, <1>1, MovesTo
  <2> QED
    BY <2>1, <1>1 DEF Straight
<1>2. CASE StartRequest(r)
  <2>1. UNCHANGED <<now, db, auths, turns, exit>>
    BY <1>2 DEF StartRequest, history, request
  <2>2. exit[r] = Nil
    BY <1>2 DEF StartRequest, PoolInv, Seated
  <2>3. Straight(r)'
    BY <1>1, <1>2, <2>1, <2>2 DEF StartRequest, Goto
  <2> QED
    BY <2>1, <2>3, <1>0, SameTurns, OneTurn
<1>3. CASE SelectNothing(r)
  <2>1. UNCHANGED <<now, db, auths, turns>> /\ pc' = [pc EXCEPT ![r] = "exit"]
    BY <1>0, <1>3 DEF SelectNothing, history, Goto, Straight
  <2> QED
    BY <2>1, <1>0, <1>1, SameTurns, OneTurn
<1>4. CASE TakeExit(r)
  <2>1. UNCHANGED <<now, db, auths, turns>>
    BY <1>4 DEF TakeExit
  <2>2. \E l \in {"idle", "serve", "token"} : pc' = [pc EXCEPT ![r] = l]
    BY <1>4 DEF TakeExit, Goto
  <2> QED
    BY <2>1, <2>2, <1>0, <1>1, SameTurns, OneTurn
<1>5. CASE ObtainToken(r)
  <2>1. UNCHANGED <<now, db, auths, turns>> /\ pc' = [pc EXCEPT ![r] = "bind"]
    BY <1>0, <1>5 DEF ObtainToken, Answered, Goto
  <2> QED
    BY <2>1, <1>0, <1>1, SameTurns, OneTurn
<1>6. CASE Bind(r)
  <2>i. PICK i : i = acct[r].id
    OBVIOUS
  <2> DEFINE row == [db[i] EXCEPT !.proxy = exit[r]]
  <2>0. exit[r] \in Exits \cup {Direct}
    BY <1>0, <1>6 DEF Bind, PoolInv, Seated, Control
  <2>1. i \in DOMAIN db =>
          /\ row \in Row /\ row.used = db[i].used
          /\ row.on = db[i].on /\ row.fails = db[i].fails
    BY <2>0 DEF PoolInv, Table, Row
  <2>2. db' = db \/ db' = Update(i, row)
    BY <2>i, <1>6 DEF Bind
  <2>3. UNCHANGED <<now, turns, auths>> /\ pc' = [pc EXCEPT ![r] = "serve"]
    BY <1>6 DEF Bind, Goto, history
  <2>4. Proven(i)' /\ i \in DOMAIN db => db[i].on /\ db[i].fails = 0
    BY <1>0, <2>3 DEF Proven, ProvenFresh
  <2>5. \A j \in Ids : auths'[j] >= auths[j]
    BY <2>3 DEF PoolInv, Table
  <2> HIDE DEF row
  <2>6. TurnsStay /\ ProvenFresh'
    BY <1>0, <2>1, <2>2, <2>3, <2>4, <2>5, WriteTurns, SameTurns
  <2> QED
    BY <2>3, <2>6, <1>0, <1>1, OneTurn
<1>7. ~Rotate(r) /\ ~Retry(r) /\ ~Exhausted(r) /\ ~Fail(r)
  BY <1>0 DEF Rotate, Retry, Exhausted, Fail, Straight
<1> QED
  BY <1>2, <1>3, <1>4, <1>5, <1>6, <1>7, SelectTurns, TouchTurns, ServeTurns DEF Request

LEMMA TurnsKept ==
  ASSUME Undisturbed, PoolInv, PoolInv', TurnInv, [PoolNext]_poolVars
  PROVE  TurnInv'
<1>1. ASSUME NEW c \in Checkers, StartCheck(c) PROVE TurnInv'
  <2>1. UNCHANGED <<now, db, auths, turns>> /\ pc' = [pc EXCEPT ![c] = "check"]
    BY <1>1 DEF StartCheck, Goto, history
  <2>2. pc'[c] = "check"
    BY <1>1, <2>1, MovesTo, Participants
  <2>3. Rejecting(c)' /\ StaysBut(c)
    BY <1>1, <2>2, StartCheckKeeps DEF Rejecting, Failing
  <2> QED
    BY <1>1, <2>1, <2>3, SameTurns, OneTurn, Participants DEF TurnInv
<1>2. ~Administrate
  <2>1. ~Count("edits", MaxEdits) /\ ~Count("switches", MaxSwitches)
    BY DEF Count, Undisturbed, PoolInv, Table
  <2> QED
    BY <2>1 DEF Administrate, Add, Delete, SetStatus
<1>3. CASE (\E e \in Exits : Flip(e)) \/ Tick \/ UNCHANGED poolVars
  <2>1. UNCHANGED <<db, auths, turns, pc, acct, exit>>
    BY <1>3 DEF Flip, Tick, poolVars, history, request
  <2>2. now' >= now
    BY <1>3 DEF Flip, Tick, poolVars, PoolInv, Table
  <2> QED
    BY <2>1, <2>2, NobodysTurn
<1> QED
  BY <1>1, <1>2, <1>3, RequestTurns, CheckTurns, HealthTurns DEF PoolNext

(* Requests may overlap and checks may count failures meanwhile: while     *)
(* upstream answers requests well, nobody edits the accounts and two picks *)
(* are a second apart, the accounts that were never rejected take turns.   *)
THEOREM TurnsAlternateAlways ==
  ASSUME Undisturbed
  PROVE  PoolSpec => []TurnsAlternate
<1>1. ASSUME PoolInit PROVE TurnInv
  <2>1. \A i \in DOMAIN db : i \in Ids /\ db[i].on /\ db[i].fails = 0
    BY <1>1, TablesAssumption DEF PoolInit, Undisturbed
  <2> QED
    BY <1>1, <2>1, Participants DEF PoolInit, TurnInv, ProvenFresh, Even, Proven, Straight,
       Rejecting, Failing
<1>2. PoolInv /\ PoolInv' /\ TurnInv /\ [PoolNext]_poolVars => TurnInv'
  BY TurnsKept
<1>3. TurnInv => TurnsAlternate
  BY DEF TurnInv, Even, Proven, TurnsAlternate
<1> QED
  BY <1>1, <1>2, <1>3, PoolAlways, PTL DEF PoolSpec
=============================================================================
