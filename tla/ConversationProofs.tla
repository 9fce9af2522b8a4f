------------------------- MODULE ConversationProofs -------------------------
(* Proofs about Conversation for every number of clients and handlers,     *)
(* every TTL, capacity and retry budget, and without a bound on time,      *)
(* calls and turns.                                                        *)
EXTENDS Conversation, FiniteSetTheorems, TLAPS

Typed ==
  /\ TypeOK
  /\ DOMAIN ask = Handlers /\ DOMAIN conv = Handlers /\ DOMAIN sent = Handlers
  /\ DOMAIN answer = Handlers /\ DOMAIN turnRead = Handlers

BoundInv == IsFiniteSet(DOMAIN store) /\ StoreBounded

(* Clients that do not go back to an earlier turn and never say what       *)
(* another client says: without both the properties are refuted, and the   *)
(* README says by which runs.                                              *)
Alone ==
  /\ ~Branching
  /\ \A c, d \in Clients : c # d => Texts[c] \cap Texts[d] = {}

Using(h) == pc[h] \notin {"idle", "get"}
Writing(h) == pc[h] \in {"rid", "rcid", "put", "fail"}
Mine(c, key) == key[1] \in Texts[c]
Owns(c, i) ==
  \/ \E key \in DOMAIN store : Mine(c, key) /\ store[key] = i
  \/ \E h \in Handlers : Using(h) /\ ask[h].client = c /\ conv[h] = i
Turns(i) == 2 * convs[i].turn + convs[i].base

(* A conversation is used for one client, who has one request under way    *)
(* and whose first words nobody else says.                                 *)
OneOwner == \A c, d \in Clients : \A i \in 1..Len(convs) : Owns(c, i) /\ Owns(d, i) => c = d
OneRequest ==
  \A h, g \in Handlers :
    h # g /\ pc[h] # "idle" /\ pc[g] # "idle" => ask[h].client # ask[g].client
OwnWords == \A c \in Clients : view[c] # <<>> => Mine(c, view[c])

(* What a handler knows of its conversation, from step to step.            *)
InStep(h) ==
  /\ pc[h] # "idle" => /\ ask[h].history = view[ask[h].client]
                       /\ ask[h].text \in Texts[ask[h].client]
  /\ Using(h) => conv[h] \notin dead
  /\ Using(h) /\ fresh[h] => ask[h].history \notin DOMAIN store
  /\ pc[h] \in {"send", "await", "rid"} =>
       /\ Turns(conv[h]) = Len(ask[h].history)
       /\ ~fresh[h] => convs[conv[h]].rid = ask[h].history
  /\ pc[h] = "await" => /\ sent[h].rid = convs[conv[h]].rid
                        /\ sent[h].turn = convs[conv[h]].turn
  /\ pc[h] \in {"rid", "rcid", "put"} =>
       answer[h] = ask[h].history \o <<ask[h].text, answer[h][Len(answer[h])]>>
  /\ pc[h] \in {"rcid", "put"} => convs[conv[h]].rid = answer[h]
  /\ pc[h] = "rcid" => 2 * turnRead[h] + convs[conv[h]].base = Len(ask[h].history)
  /\ pc[h] = "put" => Turns(conv[h]) = Len(answer[h])

(* What is stored under a client's history continues that history, unless  *)
(* a handler of that client is writing.                                    *)
Continued(c) ==
  view[c] \in DOMAIN store /\ (\A h \in Handlers : Writing(h) => ask[h].client # c) =>
    LET i == store[view[c]] IN
    /\ convs[i].rid = view[c]
    /\ Turns(i) = Len(view[c])
    /\ i \notin dead

OwnInv ==
  /\ OneOwner /\ OneRequest /\ OwnWords
  /\ \A h \in Handlers : InStep(h)
  /\ \A c \in Clients : Continued(c)

Inv == Typed /\ BoundInv /\ (Alone => OwnInv)

-----------------------------------------------------------------------------
(* What a change of the store or of a conversation is *)

(* Eviction keeps entries as they are and never more than ConvMax.         *)
LEMMA EvictIs ==
  ASSUME NEW full, IsFiniteSet(DOMAIN full), Cardinality(DOMAIN full) <= ConvMax + 1,
         NEW age, NEW rest \in Evict(full, age)
  PROVE  /\ DOMAIN rest \subseteq DOMAIN full
         /\ \A k \in DOMAIN rest : rest[k] = full[k]
         /\ IsFiniteSet(DOMAIN rest) /\ Cardinality(DOMAIN rest) <= ConvMax
<1> DEFINE old == {k \in DOMAIN full : now - age[full[k]].updated > TTL}
           kept == DOMAIN full \ old
           oldest == {k \in kept : \A other \in kept :
                        age[full[k]].updated <= age[full[other]].updated}
<1>0. ConvMax \in Nat /\ Cardinality(DOMAIN full) \in Nat
  BY ConstantsAssumption, FS_CardinalityType
<1>1. IsFiniteSet(kept) /\ Cardinality(kept) <= Cardinality(DOMAIN full) /\ Cardinality(kept) \in Nat
  <2>1. kept \subseteq DOMAIN full
    OBVIOUS
  <2> QED BY <2>1, FS_Subset, FS_CardinalityType
<1>2. CASE Cardinality(DOMAIN full) <= ConvMax
  <2>1. rest = full
    BY <1>2 DEF Evict
  <2> QED BY <2>1, <1>2
<1>3. CASE Cardinality(DOMAIN full) > ConvMax /\ Cardinality(kept) <= ConvMax
  <2>1. rest = [k \in kept |-> full[k]]
    BY <1>3, <1>0 DEF Evict
  <2> QED BY <2>1, <1>1, <1>3
<1>4. CASE Cardinality(DOMAIN full) > ConvMax /\ Cardinality(kept) > ConvMax
  <2>0. rest \in {[k \in kept \ {out} |-> full[k]] : out \in oldest}
    <3>1. ~(Cardinality(DOMAIN full) <= ConvMax) /\ ~(Cardinality(kept) <= ConvMax)
      BY <1>4, <1>0, <1>1
    <3> QED BY <3>1, Zenon DEF Evict
  <2>1. PICK out \in oldest : rest = [k \in kept \ {out} |-> full[k]]
    BY <2>0, Zenon
  <2>2. out \in kept
    OBVIOUS
  <2>3. IsFiniteSet(kept \ {out}) /\ Cardinality(kept \ {out}) = Cardinality(kept) - 1
    BY <2>2, <1>1, FS_RemoveElement
  <2>4. Cardinality(kept \ {out}) <= ConvMax
    BY <2>3, <1>0, <1>1
  <2> HIDE DEF kept
  <2>5. kept \subseteq DOMAIN full
    BY DEF kept
  <2> QED BY <2>1, <2>3, <2>4, <2>5
<1> QED BY <1>0, <1>1, <1>2, <1>3, <1>4

(* A key leaves the store, in convGet and in convDelete.                   *)
LEMMA WithoutBounded ==
  ASSUME BoundInv, NEW key, store' = Without(key)
  PROVE  BoundInv'
<1>1. DOMAIN store' = DOMAIN store \ {key}
  BY DEF Without
<1>2. IsFiniteSet(DOMAIN store')
      /\ Cardinality(DOMAIN store') <= Cardinality(DOMAIN store)
      /\ Cardinality(DOMAIN store') \in Nat /\ Cardinality(DOMAIN store) \in Nat
  BY <1>1, FS_Subset, FS_CardinalityType DEF BoundInv
<1> QED BY <1>2, ConstantsAssumption DEF BoundInv, StoreBounded

(* One conversation is assigned to.                                        *)
LEMMA ChangeIs ==
  ASSUME convs \in Seq(ConvState), NEW i \in 1..Len(convs), NEW r \in ConvState,
         convs' = [convs EXCEPT ![i] = r]
  PROVE  /\ convs' \in Seq(ConvState) /\ Len(convs') = Len(convs)
         /\ convs'[i] = r
         /\ \A j \in 1..Len(convs) : j # i => convs'[j] = convs[j]
  OBVIOUS

LEMMA SomeConv ==
  ASSUME convs \in Seq(ConvState), NEW i \in 1..Len(convs)
  PROVE  /\ convs[i] \in ConvState
         /\ convs[i].rid \in Seq(AllTexts) /\ convs[i].rcid \in Seq(AllTexts)
         /\ convs[i].turn \in Nat /\ convs[i].updated \in Nat /\ convs[i].base \in Nat
<1>1. convs[i] \in ConvState
  OBVIOUS
<1> QED BY <1>1 DEF ConvState

(* A turn is a message and its reply.                                      *)
LEMMA TurnIs ==
  ASSUME NEW s \in Seq(AllTexts), NEW t \in AllTexts, NEW u \in AllTexts
  PROVE  /\ s \o <<t, u>> \in Seq(AllTexts) \ {<<>>}
         /\ Len(s \o <<t, u>>) = Len(s) + 2
         /\ (s \o <<t, u>>)[Len(s \o <<t, u>>)] = u
         /\ (s \o <<t, u>>)[1] = IF s = <<>> THEN t ELSE s[1]
  OBVIOUS

-----------------------------------------------------------------------------
(* The store is bounded *)

LEMMA FullIs ==
  ASSUME BoundInv, NEW key, NEW i, NEW full,
         full = [k \in DOMAIN store \cup {key} |-> IF k = key THEN i ELSE store[k]]
  PROVE  /\ DOMAIN full = DOMAIN store \cup {key}
         /\ full[key] = i /\ \A k \in DOMAIN store : k # key => full[k] = store[k]
         /\ IsFiniteSet(DOMAIN full) /\ Cardinality(DOMAIN full) <= ConvMax + 1
<1>1. /\ DOMAIN full = DOMAIN store \cup {key}
      /\ full[key] = i /\ \A k \in DOMAIN store : k # key => full[k] = store[k]
  OBVIOUS
<1>2. /\ IsFiniteSet(DOMAIN store \cup {key})
      /\ \/ Cardinality(DOMAIN store \cup {key}) = Cardinality(DOMAIN store)
         \/ Cardinality(DOMAIN store \cup {key}) = Cardinality(DOMAIN store) + 1
  BY FS_AddElement DEF BoundInv
<1>3. Cardinality(DOMAIN store) \in Nat /\ Cardinality(DOMAIN store) <= ConvMax /\ ConvMax \in Nat
  BY FS_CardinalityType, ConstantsAssumption DEF BoundInv, StoreBounded
<1> QED BY <1>1, <1>2, <1>3

(* What convPut does to the store, whatever it evicts.                     *)
LEMMA PutIs ==
  ASSUME BoundInv, NEW h, Put(h)
  PROVE  LET key == ask[h].history \o <<ask[h].text, answer[h][Len(answer[h])]>> IN
         /\ \A k \in DOMAIN store' : \/ k \in DOMAIN store /\ store'[k] = store[k]
                                     \/ k = key /\ store'[k] = conv[h]
         /\ key \in DOMAIN store' => store'[key] = conv[h]
         /\ BoundInv'
<1> DEFINE key == ask[h].history \o <<ask[h].text, answer[h][Len(answer[h])]>>
           touched == [convs EXCEPT ![conv[h]].updated = now]
           full == [k \in DOMAIN store \cup {key} |-> IF k = key THEN conv[h] ELSE store[k]]
<1>1. store' \in Evict(full, touched)
  BY DEF Put
<1>2. /\ DOMAIN full = DOMAIN store \cup {key}
      /\ full[key] = conv[h] /\ \A k \in DOMAIN store : k # key => full[k] = store[k]
      /\ IsFiniteSet(DOMAIN full) /\ Cardinality(DOMAIN full) <= ConvMax + 1
  <2> HIDE DEF key
  <2> QED BY FullIs
<1> HIDE DEF full, touched, key
<1>3. /\ DOMAIN store' \subseteq DOMAIN full
      /\ \A k \in DOMAIN store' : store'[k] = full[k]
      /\ IsFiniteSet(DOMAIN store') /\ Cardinality(DOMAIN store') <= ConvMax
  BY <1>1, <1>2, EvictIs
<1>4. BoundInv'
  BY <1>3 DEF BoundInv, StoreBounded
<1>5. /\ \A k \in DOMAIN store' : \/ k \in DOMAIN store /\ store'[k] = store[k]
                                  \/ k = key /\ store'[k] = conv[h]
      /\ key \in DOMAIN store' => store'[key] = conv[h]
  BY <1>2, <1>3
<1> QED BY <1>4, <1>5 DEF key

LEMMA BoundKeeps == ASSUME BoundInv, [Next]_vars PROVE BoundInv'
<1>1. ASSUME store' = store PROVE BoundInv'
  BY <1>1 DEF BoundInv, StoreBounded
<1>2. CASE UNCHANGED vars
  BY <1>1, <1>2 DEF vars
<1>3. CASE Tick
  BY <1>1, <1>3 DEF Tick
<1>4. ASSUME NEW h \in Handlers, Ask(h) \/ Handle(h) PROVE BoundInv'
  <2>1. CASE Get(h)
    <3>1. store' = store \/ store' = Without(ask[h].history)
      BY <2>1 DEF Get
    <3> QED BY <3>1, <1>1, WithoutBounded
  <2>2. CASE Put(h)
    BY <2>2, PutIs
  <2>3. CASE Fail(h)
    <3>1. store' = store \/ store' = Without(ask[h].history)
      BY <2>3 DEF Fail
    <3> QED BY <3>1, <1>1, WithoutBounded
  <2>4. CASE Ask(h) \/ Send(h) \/ Refuse(h) \/ Answer(h) \/ Lose(h) \/ WriteRid(h) \/ WriteRcid(h)
             \/ Empty(h)
    <3>1. store' = store
      BY <2>4 DEF Ask, Send, Refuse, Answer, Lose, WriteRid, WriteRcid, Empty
    <3> QED BY <3>1, <1>1
  <2> QED BY <1>4, <2>1, <2>2, <2>3, <2>4 DEF Handle
<1> QED BY <1>2, <1>3, <1>4 DEF Next

-----------------------------------------------------------------------------
(* Shapes *)

Labels == {"idle", "get", "send", "await", "rid", "rcid", "put", "fail"}
Local(h) ==
  /\ pc[h] # "idle" => ask[h] \in Message
  /\ pc[h] \notin {"idle", "get"} => conv[h] \in 1..Len(convs)
  /\ pc[h] = "await" => sent[h].rid \in Seq(AllTexts)
  /\ pc[h] \in {"rid", "rcid", "put"} => answer[h] \in Seq(AllTexts) \ {<<>>}
  /\ pc[h] = "rcid" => turnRead[h] \in Nat
Domains ==
  /\ pc \in [Handlers -> Labels] /\ fresh \in [Handlers -> BOOLEAN]
  /\ DOMAIN ask = Handlers /\ DOMAIN conv = Handlers /\ DOMAIN sent = Handlers
  /\ DOMAIN answer = Handlers /\ DOMAIN turnRead = Handlers
StoreTyped ==
  \A k \in DOMAIN store : k \in Seq(AllTexts) \ {<<>>} /\ store[k] \in 1..Len(convs)

LEMMA TypedIs ==
  Typed <=> /\ now \in Nat /\ convs \in Seq(ConvState) /\ StoreTyped
            /\ view \in [Clients -> Seq(AllTexts)] /\ dead \subseteq 1..Len(convs) /\ Domains
            /\ \A h \in Handlers : Local(h)
  BY DEF Typed, TypeOK, StoreTyped, Domains, Labels, Local

(* The other handlers' locals stay, and no conversation is taken away.     *)
OthersStay(h) ==
  /\ \A g \in Handlers \ {h} :
       /\ pc'[g] = pc[g] /\ ask'[g] = ask[g] /\ conv'[g] = conv[g] /\ fresh'[g] = fresh[g]
       /\ sent'[g] = sent[g] /\ answer'[g] = answer[g] /\ turnRead'[g] = turnRead[g]
  /\ Len(convs) <= Len(convs')

LEMMA LocalsKept ==
  ASSUME Typed, NEW h \in Handlers, OthersStay(h), convs' \in Seq(ConvState),
         NEW g \in Handlers \ {h}
  PROVE  Local(g)'
<1>1. Local(g) /\ Len(convs) \in Nat /\ Len(convs') \in Nat
  BY TypedIs
<1>2. /\ pc'[g] = pc[g] /\ ask'[g] = ask[g] /\ conv'[g] = conv[g]
      /\ sent'[g] = sent[g] /\ answer'[g] = answer[g] /\ turnRead'[g] = turnRead[g]
      /\ Len(convs) <= Len(convs')
  BY DEF OthersStay
<1> QED BY <1>1, <1>2 DEF Local

LEMMA StoreKept ==
  ASSUME Typed, Len(convs) <= Len(convs'), convs' \in Seq(ConvState),
         \A k \in DOMAIN store' : k \in DOMAIN store /\ store'[k] = store[k]
  PROVE  StoreTyped'
<1>1. StoreTyped /\ Len(convs) \in Nat /\ Len(convs') \in Nat
  BY TypedIs
<1> QED BY <1>1 DEF StoreTyped

(* Each action touches its own locals only.                                *)
LEMMA HandlerDomains ==
  ASSUME Typed, NEW h \in Handlers, Ask(h) \/ Handle(h)
  PROVE  Domains'
<1>1. Domains
  BY TypedIs
<1>2. CASE Ask(h)
  BY <1>1, <1>2 DEF Ask, Goto, Domains, Labels
<1>3. CASE Get(h)
  BY <1>1, <1>3 DEF Get, Goto, Domains, Labels
<1>4. CASE Send(h) \/ Refuse(h) \/ Answer(h) \/ Lose(h)
  BY <1>1, <1>4 DEF Send, Refuse, Answer, Lose, Goto, Domains, Labels, handler
<1>5. CASE WriteRid(h) \/ WriteRcid(h) \/ Empty(h)
  BY <1>1, <1>5 DEF WriteRid, WriteRcid, Empty, Goto, Domains, Labels, handler
<1>6. CASE Put(h) \/ Fail(h)
  BY <1>1, <1>6 DEF Put, Fail, Done, Goto, Domains, Labels
<1> QED BY <1>2, <1>3, <1>4, <1>5, <1>6 DEF Handle

-----------------------------------------------------------------------------
(* What each action does, free of EXCEPT *)

LEMMA AskIs ==
  ASSUME Typed, NEW h \in Handlers, Ask(h)
  PROVE  /\ OthersStay(h) /\ store' = store /\ convs' = convs /\ view' = view
         /\ dead' = dead /\ now' = now
         /\ pc[h] = "idle" /\ pc'[h] = "get"
         /\ \E c \in Clients : \E history \in Asked(c), text \in Texts[c] :
              /\ Branching \/ \A other \in Handlers : pc[other] # "idle" => ask[other].client # c
              /\ ask'[h] = [client |-> c, history |-> history, text |-> text]
<1>1. Domains /\ convs \in Seq(ConvState)
  BY TypedIs
<1>2. /\ pc[h] = "idle" /\ pc'[h] = "get"
      /\ store' = store /\ convs' = convs /\ view' = view /\ dead' = dead /\ now' = now
      /\ OthersStay(h)
  BY <1>1 DEF Ask, Goto, Domains, OthersStay
<1>3. \E c \in Clients : \E history \in Asked(c), text \in Texts[c] :
         /\ Branching \/ \A other \in Handlers : pc[other] # "idle" => ask[other].client # c
         /\ ask'[h] = [client |-> c, history |-> history, text |-> text]
  BY <1>1 DEF Ask, Domains
<1> QED BY <1>2, <1>3

(* A hit takes the conversation that is stored under the history, ...      *)
Hit(h) == LET key == ask[h].history IN key # <<>> /\ key \in DOMAIN store /\ ~Expired(store[key])

LEMMA HitIs ==
  ASSUME Typed, NEW h \in Handlers, Get(h), Hit(h)
  PROVE  /\ OthersStay(h) /\ store' = store /\ convs' = convs /\ view' = view
         /\ dead' = dead /\ now' = now
         /\ pc[h] = "get" /\ pc'[h] = "send" /\ ask'[h] = ask[h] /\ fresh'[h] = FALSE
         /\ ask[h].history \in DOMAIN store /\ conv'[h] = store[ask[h].history]
<1>1. Domains /\ convs \in Seq(ConvState)
  BY TypedIs
<1>2. /\ pc' = [pc EXCEPT ![h] = "send"] /\ conv' = [conv EXCEPT ![h] = store[ask[h].history]]
      /\ fresh' = [fresh EXCEPT ![h] = FALSE]
      /\ pc[h] = "get" /\ ask[h].history \in DOMAIN store
      /\ store' = store /\ convs' = convs /\ view' = view /\ dead' = dead /\ now' = now
      /\ ask' = ask /\ sent' = sent /\ answer' = answer /\ turnRead' = turnRead
  <2>1. Hit(h) = (ask[h].history # <<>> /\ ask[h].history \in DOMAIN store
                    /\ ~Expired(store[ask[h].history]))
    BY DEF Hit
  <2> QED BY <2>1 DEF Get, Goto
<1>3. Len(convs) <= Len(convs')
  BY <1>1, <1>2
<1> QED BY <1>1, <1>2, <1>3 DEF Domains, OthersStay

(* ... a miss a new one, and nothing is stored under the history then.     *)
LEMMA MissIs ==
  ASSUME Typed, NEW h \in Handlers, Get(h), ~Hit(h)
  PROVE  /\ OthersStay(h) /\ view' = view /\ dead' = dead /\ now' = now
         /\ pc[h] = "get" /\ pc'[h] = "send" /\ ask'[h] = ask[h] /\ fresh'[h] = TRUE
         /\ DOMAIN store' = DOMAIN store \ {ask[h].history}
         /\ \A k \in DOMAIN store' : store'[k] = store[k]
         /\ convs' \in Seq(ConvState) /\ Len(convs') = Len(convs) + 1
         /\ \A i \in 1..Len(convs) : convs'[i] = convs[i]
         /\ conv'[h] = Len(convs')
         /\ convs'[Len(convs')].turn = 0 /\ convs'[Len(convs')].base = Len(ask[h].history)
<1> DEFINE r == [rid |-> <<>>, rcid |-> <<>>, turn |-> 0, updated |-> now,
                 base |-> Len(ask[h].history)]
<1>1. Domains /\ convs \in Seq(ConvState) /\ now \in Nat /\ Local(h)
  BY TypedIs
<1>2. /\ pc[h] = "get" /\ pc'[h] = "send" /\ view' = view /\ dead' = dead /\ now' = now
      /\ ask' = ask /\ sent' = sent /\ answer' = answer /\ turnRead' = turnRead
      /\ fresh'[h] = TRUE /\ store' = Without(ask[h].history)
      /\ conv'[h] = Len(convs) + 1 /\ convs' = Append(convs, r)
      /\ \A g \in Handlers \ {h} : pc'[g] = pc[g] /\ conv'[g] = conv[g] /\ fresh'[g] = fresh[g]
  BY <1>1 DEF Get, Hit, Goto, Domains
<1>3. ask[h].history \in Seq(AllTexts)
  BY <1>1, <1>2 DEF Local, Message
<1>4. r \in ConvState
  BY <1>1, <1>3 DEF ConvState
<1>5. r.turn = 0 /\ r.base = Len(ask[h].history)
  OBVIOUS
<1> HIDE DEF r
<1>6. /\ convs' \in Seq(ConvState) /\ Len(convs') = Len(convs) + 1
      /\ \A i \in 1..Len(convs) : convs'[i] = convs[i]
      /\ convs'[Len(convs')] = r /\ Len(convs) <= Len(convs')
  BY <1>1, <1>2, <1>4
<1>7. /\ DOMAIN store' = DOMAIN store \ {ask[h].history}
      /\ \A k \in DOMAIN store' : store'[k] = store[k]
  BY <1>2 DEF Without
<1>8. OthersStay(h)
  BY <1>2, <1>6 DEF OthersStay
<1> QED BY <1>2, <1>5, <1>6, <1>7, <1>8

(* Steps that touch neither the store nor a conversation.                  *)
LEMMA QuietIs ==
  ASSUME Typed, NEW h \in Handlers,
         Send(h) \/ Refuse(h) \/ Answer(h) \/ Lose(h) \/ Empty(h)
  PROVE  /\ OthersStay(h) /\ store' = store /\ convs' = convs /\ view' = view
         /\ dead' = dead /\ now' = now
         /\ ask' = ask /\ conv' = conv /\ fresh' = fresh /\ turnRead' = turnRead
         /\ pc[h] \notin {"idle", "get", "fail"} /\ pc'[h] \notin {"idle", "get", "rcid", "put"}
<1>1. Domains /\ convs \in Seq(ConvState)
  BY TypedIs
<1>2. CASE Send(h)
  BY <1>1, <1>2 DEF Send, Goto, Domains, OthersStay
<1>5. CASE Answer(h)
  BY <1>1, <1>5 DEF Answer, Goto, Domains, OthersStay
<1>3. CASE Refuse(h) \/ Empty(h)
  BY <1>1, <1>3 DEF Refuse, Empty, handler, Goto, Domains, OthersStay
<1>4. CASE Lose(h)
  BY <1>1, <1>4 DEF Lose, Goto, Domains, OthersStay
<1> QED BY <1>2, <1>3, <1>4, <1>5

LEMMA SendIs ==
  ASSUME Typed, NEW h \in Handlers, Send(h)
  PROVE  /\ pc[h] = "send" /\ pc'[h] = "await" /\ answer' = answer
         /\ sent'[h].rid = convs[conv[h]].rid /\ sent'[h].turn = convs[conv[h]].turn
<1>1. Domains
  BY TypedIs
<1> QED BY <1>1 DEF Send, Goto, Domains

LEMMA AnswerIs ==
  ASSUME Typed, NEW h \in Handlers, Answer(h)
  PROVE  /\ pc[h] = "await" /\ pc'[h] = "rid" /\ sent' = sent
         /\ \E reply \in Replies :
              answer'[h] = (IF fresh[h] THEN ask[h].history ELSE sent[h].rid)
                             \o <<ask[h].text, reply>>
<1>1. Domains
  BY TypedIs
<1> QED BY <1>1 DEF Answer, Goto, Domains

LEMMA FailingIs ==
  ASSUME Typed, NEW h \in Handlers, Refuse(h) \/ Lose(h) \/ Empty(h)
  PROVE  /\ sent' = sent /\ answer' = answer
         /\ pc'[h] = "fail" \/ (pc[h] = "await" /\ pc'[h] = "await")
<1>1. Domains
  BY TypedIs
<1> QED BY <1>1 DEF Refuse, Lose, Empty, handler, Goto, Domains

(* One field after the other of the handler's conversation.                *)
Assigns(h) ==
  /\ convs' \in Seq(ConvState) /\ Len(convs') = Len(convs)
  /\ \A j \in 1..Len(convs) : j # conv[h] => convs'[j] = convs[j]
  /\ convs'[conv[h]].base = convs[conv[h]].base

LEMMA WriteRidIs ==
  ASSUME Typed, NEW h \in Handlers, WriteRid(h)
  PROVE  /\ OthersStay(h) /\ store' = store /\ view' = view /\ dead' = dead /\ now' = now
         /\ ask' = ask /\ conv' = conv /\ fresh' = fresh /\ sent' = sent /\ answer' = answer
         /\ pc[h] = "rid" /\ pc'[h] = "rcid"
         /\ Assigns(h)
         /\ convs'[conv[h]].rid = answer[h] /\ convs'[conv[h]].turn = convs[conv[h]].turn
         /\ turnRead'[h] = convs[conv[h]].turn
<1> DEFINE r == [convs[conv[h]] EXCEPT !.rid = answer[h]]
<1>1. Domains /\ convs \in Seq(ConvState) /\ Local(h)
  BY TypedIs
<1>2. /\ pc' = [pc EXCEPT ![h] = "rcid"] /\ pc[h] = "rid"
      /\ convs' = [convs EXCEPT ![conv[h]] = r]
      /\ turnRead' = [turnRead EXCEPT ![h] = convs[conv[h]].turn]
      /\ store' = store /\ view' = view /\ dead' = dead /\ now' = now
      /\ ask' = ask /\ conv' = conv /\ fresh' = fresh /\ sent' = sent /\ answer' = answer
  BY DEF WriteRid, Goto
<1>3. conv[h] \in 1..Len(convs) /\ answer[h] \in Seq(AllTexts)
  BY <1>1, <1>2 DEF Local
<1>4. convs[conv[h]] \in ConvState
  BY <1>1, <1>3
<1>5. /\ r \in ConvState /\ r.rid = answer[h] /\ r.turn = convs[conv[h]].turn
      /\ r.base = convs[conv[h]].base
  BY <1>3, <1>4 DEF ConvState
<1> HIDE DEF r
<1>6. Assigns(h) /\ convs'[conv[h]] = r
  BY <1>1, <1>2, <1>3, <1>5, ChangeIs DEF Assigns
<1>7. Len(convs) <= Len(convs')
  BY <1>1, <1>6 DEF Assigns
<1> QED BY <1>1, <1>2, <1>5, <1>6, <1>7 DEF Domains, OthersStay

LEMMA WriteRcidIs ==
  ASSUME Typed, NEW h \in Handlers, WriteRcid(h)
  PROVE  /\ OthersStay(h) /\ store' = store /\ view' = view /\ dead' = dead /\ now' = now
         /\ ask' = ask /\ conv' = conv /\ fresh' = fresh /\ sent' = sent /\ answer' = answer
         /\ pc[h] = "rcid" /\ pc'[h] = "put"
         /\ Assigns(h)
         /\ convs'[conv[h]].rid = convs[conv[h]].rid
         /\ convs'[conv[h]].turn = turnRead[h] + 1
<1> DEFINE r == [convs[conv[h]] EXCEPT !.rcid = answer[h], !.turn = turnRead[h] + 1]
<1>1. Domains /\ convs \in Seq(ConvState) /\ Local(h)
  BY TypedIs
<1>2. /\ pc' = [pc EXCEPT ![h] = "put"] /\ pc[h] = "rcid"
      /\ convs' = [convs EXCEPT ![conv[h]].rcid = answer[h], ![conv[h]].turn = turnRead[h] + 1]
      /\ store' = store /\ view' = view /\ dead' = dead /\ now' = now
      /\ ask' = ask /\ conv' = conv /\ fresh' = fresh /\ sent' = sent /\ answer' = answer
      /\ turnRead' = turnRead
  BY DEF WriteRcid, Goto, handler
<1>3. conv[h] \in 1..Len(convs) /\ answer[h] \in Seq(AllTexts) /\ turnRead[h] \in Nat
  BY <1>1, <1>2 DEF Local
<1>4. convs[conv[h]] \in ConvState
  BY <1>1, <1>3
<1>5. /\ r \in ConvState /\ r.rid = convs[conv[h]].rid /\ r.turn = turnRead[h] + 1
      /\ r.base = convs[conv[h]].base
  <2> DEFINE n == turnRead[h] + 1
             s == [convs[conv[h]] EXCEPT !.rcid = answer[h]]
  <2>1. n \in Nat
    BY <1>3
  <2>2. s \in ConvState /\ s.rid = convs[conv[h]].rid /\ s.base = convs[conv[h]].base
    BY <1>3, <1>4 DEF ConvState
  <2>3. r = [s EXCEPT !.turn = n]
    OBVIOUS
  <2> HIDE DEF n, s, r
  <2>4. r \in ConvState /\ r.rid = s.rid /\ r.turn = n /\ r.base = s.base
    BY <2>1, <2>2, <2>3 DEF ConvState
  <2> QED BY <2>2, <2>4 DEF n
<1>0. convs' = [convs EXCEPT ![conv[h]] = r]
  BY <1>1, <1>2, <1>3, <1>4 DEF ConvState
<1> HIDE DEF r
<1>6. Assigns(h) /\ convs'[conv[h]] = r
  BY <1>0, <1>1, <1>2, <1>3, <1>5, ChangeIs DEF Assigns
<1>7. Len(convs) <= Len(convs')
  BY <1>1, <1>6 DEF Assigns
<1> QED BY <1>1, <1>2, <1>5, <1>6, <1>7 DEF Domains, OthersStay

(* The key under which the next turn will be found.                        *)
Child(h) == ask[h].history \o <<ask[h].text, answer[h][Len(answer[h])]>>

LEMMA ChildIs ==
  ASSUME Typed, NEW h \in Handlers, pc[h] \in {"rid", "rcid", "put"}
  PROVE  /\ Child(h) \in Seq(AllTexts) \ {<<>>} /\ Len(Child(h)) = Len(ask[h].history) + 2
         /\ Child(h)[1] = IF ask[h].history = <<>> THEN ask[h].text ELSE ask[h].history[1]
<1>1. ask[h] \in Message /\ answer[h] \in Seq(AllTexts) \ {<<>>}
  BY TypedIs DEF Local
<1>2. /\ ask[h].history \in Seq(AllTexts) /\ ask[h].text \in AllTexts
      /\ answer[h][Len(answer[h])] \in AllTexts
  BY <1>1 DEF Message
<1> QED BY <1>2, TurnIs DEF Child

LEMMA PutDoes ==
  ASSUME Typed, BoundInv, NEW h \in Handlers, Put(h)
  PROVE  /\ OthersStay(h) /\ dead' = dead /\ now' = now
         /\ pc[h] = "put" /\ pc'[h] = "idle"
         /\ Assigns(h)
         /\ convs'[conv[h]].rid = convs[conv[h]].rid /\ convs'[conv[h]].turn = convs[conv[h]].turn
         /\ view' = [view EXCEPT ![ask[h].client] = Child(h)]
         /\ \A k \in DOMAIN store' : \/ k \in DOMAIN store /\ store'[k] = store[k]
                                     \/ k = Child(h) /\ store'[k] = conv[h]
         /\ Child(h) \in DOMAIN store' => store'[Child(h)] = conv[h]
<1> DEFINE r == [convs[conv[h]] EXCEPT !.updated = now]
<1>1. Domains /\ convs \in Seq(ConvState) /\ Local(h) /\ now \in Nat
  BY TypedIs
<1>2. /\ pc' = [pc EXCEPT ![h] = "idle"] /\ pc[h] = "put"
      /\ convs' = [convs EXCEPT ![conv[h]] = r]
      /\ dead' = dead /\ now' = now
      /\ ask' = [ask EXCEPT ![h] = None] /\ conv' = [conv EXCEPT ![h] = None]
      /\ fresh' = [fresh EXCEPT ![h] = FALSE] /\ sent' = [sent EXCEPT ![h] = None]
      /\ answer' = [answer EXCEPT ![h] = None] /\ turnRead' = [turnRead EXCEPT ![h] = 0]
      /\ view' = [view EXCEPT ![ask[h].client] = Child(h)]
  BY DEF Put, Done, Goto, Child
<1>3. conv[h] \in 1..Len(convs)
  BY <1>1, <1>2 DEF Local
<1>4. convs[conv[h]] \in ConvState
  BY <1>1, <1>3
<1>5. /\ r \in ConvState /\ r.rid = convs[conv[h]].rid /\ r.turn = convs[conv[h]].turn
      /\ r.base = convs[conv[h]].base
  BY <1>1, <1>4 DEF ConvState
<1> HIDE DEF r
<1>6. Assigns(h) /\ convs'[conv[h]] = r
  BY <1>1, <1>2, <1>3, <1>5, ChangeIs DEF Assigns
<1>7. Len(convs) <= Len(convs')
  BY <1>1, <1>6 DEF Assigns
<1>8. /\ \A k \in DOMAIN store' : \/ k \in DOMAIN store /\ store'[k] = store[k]
                                  \/ k = Child(h) /\ store'[k] = conv[h]
      /\ Child(h) \in DOMAIN store' => store'[Child(h)] = conv[h]
  BY PutIs DEF Child
<1>9. OthersStay(h) /\ pc'[h] = "idle"
  BY <1>1, <1>2, <1>7 DEF Domains, OthersStay
<1> QED BY <1>2, <1>5, <1>6, <1>8, <1>9

LEMMA FailIs ==
  ASSUME Typed, NEW h \in Handlers, Fail(h)
  PROVE  /\ OthersStay(h) /\ convs' = convs /\ view' = view /\ now' = now
         /\ pc[h] = "fail" /\ pc'[h] = "idle"
         /\ \A k \in DOMAIN store' : k \in DOMAIN store /\ store'[k] = store[k]
         /\ \/ fresh[h] /\ dead' = dead /\ store' = store
            \/ ~fresh[h] /\ dead' = dead \cup {conv[h]} /\ ask[h].history \notin DOMAIN store'
<1>1. Domains /\ convs \in Seq(ConvState) /\ fresh[h] \in BOOLEAN
  BY TypedIs DEF Domains
<1>2. /\ pc' = [pc EXCEPT ![h] = "idle"] /\ pc[h] = "fail"
      /\ convs' = convs /\ view' = view /\ now' = now
      /\ ask' = [ask EXCEPT ![h] = None] /\ conv' = [conv EXCEPT ![h] = None]
      /\ fresh' = [fresh EXCEPT ![h] = FALSE] /\ sent' = [sent EXCEPT ![h] = None]
      /\ answer' = [answer EXCEPT ![h] = None] /\ turnRead' = [turnRead EXCEPT ![h] = 0]
  BY DEF Fail, Done, Goto
<1>3. \/ fresh[h] /\ dead' = dead /\ store' = store
      \/ ~fresh[h] /\ dead' = dead \cup {conv[h]} /\ store' = Without(ask[h].history)
  BY <1>1 DEF Fail
<1>4. Len(convs) <= Len(convs')
  BY <1>1, <1>2
<1>5. OthersStay(h) /\ pc'[h] = "idle"
  BY <1>1, <1>2, <1>4 DEF Domains, OthersStay
<1>6. \A k \in DOMAIN store' : k \in DOMAIN store /\ store'[k] = store[k]
  BY <1>3 DEF Without
<1>7. \/ fresh[h] /\ dead' = dead /\ store' = store
      \/ ~fresh[h] /\ dead' = dead \cup {conv[h]} /\ ask[h].history \notin DOMAIN store'
  BY <1>3 DEF Without
<1> QED BY <1>2, <1>5, <1>6, <1>7

-----------------------------------------------------------------------------
(* The shapes are kept *)

LEMMA AskedIs ==
  ASSUME Typed, NEW c \in Clients, NEW history \in Asked(c)
  PROVE  history \in Seq(AllTexts)
<1>1. view[c] \in Seq(AllTexts)
  BY TypedIs
<1>2. CASE ~Branching
  BY <1>1, <1>2 DEF Asked
<1>3. CASE Branching
  <2>1. PICK n \in 0..(Len(view[c]) \div 2) : history = SubSeq(view[c], 1, 2 * n)
    BY <1>3 DEF Asked
  <2>2. 2 * n \in 0..Len(view[c])
    <3>1. ASSUME NEW l \in Nat, NEW m \in 0..(l \div 2) PROVE 2 * m \in 0..l
      OBVIOUS
    <3>2. Len(view[c]) \in Nat
      BY <1>1
    <3>3. n \in 0..(Len(view[c]) \div 2)
      BY Zenon
    <3> QED BY <3>1, <3>2, <3>3, Zenon
  <2>3. \A i \in 1..(2 * n) : view[c][i] \in AllTexts
    BY <1>1, <2>2
  <2> QED BY <1>1, <2>1, <2>2, <2>3
<1> QED BY <1>2, <1>3

LEMMA TypedKeeps ==
  ASSUME Typed, BoundInv, NEW h \in Handlers, Ask(h) \/ Handle(h)
  PROVE  Typed'
<1>0. /\ Domains' /\ Domains /\ convs \in Seq(ConvState) /\ StoreTyped /\ now \in Nat
      /\ view \in [Clients -> Seq(AllTexts)] /\ Local(h) /\ dead \subseteq 1..Len(convs)
  BY TypedIs, HandlerDomains
<1>1. ASSUME OthersStay(h), convs' \in Seq(ConvState), StoreTyped', now' = now,
             view' \in [Clients -> Seq(AllTexts)], Local(h)',
             \A i \in dead' : i \in dead \/ (Using(h) /\ i = conv[h])
      PROVE  Typed'
  <2>1. \A g \in Handlers : Local(g)'
    BY <1>1, LocalsKept
  <2>2. /\ DOMAIN ask' = Handlers /\ DOMAIN conv' = Handlers /\ DOMAIN sent' = Handlers
        /\ DOMAIN answer' = Handlers /\ DOMAIN turnRead' = Handlers
        /\ pc' \in [Handlers -> Labels] /\ fresh' \in [Handlers -> BOOLEAN]
    BY <1>0 DEF Domains
  <2>3. dead' \subseteq 1..Len(convs')
    <3>1. Using(h) => conv[h] \in 1..Len(convs)
      BY <1>0 DEF Local, Using
    <3>2. Len(convs) <= Len(convs') /\ Len(convs) \in Nat /\ Len(convs') \in Nat
      BY <1>0, <1>1 DEF OthersStay
    <3>3. \A i \in dead' : i \in 1..Len(convs)
      BY <1>0, <1>1, <3>1
    <3> QED BY <3>2, <3>3
  <2> QED BY <1>0, <1>1, <2>1, <2>2, <2>3 DEF Typed, TypeOK, StoreTyped, Local, Labels
<1>2. CASE Ask(h)
  <2>0. PICK c \in Clients : \E history \in Asked(c), text \in Texts[c] :
          ask'[h] = [client |-> c, history |-> history, text |-> text]
    BY <1>2, AskIs
  <2>1. PICK history \in Asked(c), text \in Texts[c] :
          ask'[h] = [client |-> c, history |-> history, text |-> text]
    BY <2>0
  <2>2. history \in Seq(AllTexts) /\ text \in AllTexts
    BY AskedIs DEF AllTexts
  <2>3. ask'[h] \in Message
    BY <2>1, <2>2 DEF Message
  <2>4. /\ OthersStay(h) /\ store' = store /\ convs' = convs /\ view' = view /\ now' = now /\ dead' = dead
        /\ pc'[h] = "get"
    BY <1>2, AskIs
  <2>5. Local(h)' /\ StoreTyped'
    BY <1>0, <2>3, <2>4 DEF Local, StoreTyped
  <2> QED BY <1>0, <1>1, <2>4, <2>5
<1>3. CASE Get(h) /\ Hit(h)
  <2>1. /\ OthersStay(h) /\ store' = store /\ convs' = convs /\ view' = view /\ now' = now /\ dead' = dead
        /\ pc[h] = "get" /\ pc'[h] = "send" /\ ask'[h] = ask[h]
        /\ ask[h].history \in DOMAIN store /\ conv'[h] = store[ask[h].history]
    BY <1>3, HitIs
  <2>2. Local(h)' /\ StoreTyped'
    BY <1>0, <2>1 DEF Local, StoreTyped
  <2> QED BY <1>0, <1>1, <2>1, <2>2
<1>4. CASE Get(h) /\ ~Hit(h)
  <2>1. /\ OthersStay(h) /\ view' = view /\ now' = now /\ dead' = dead
        /\ pc[h] = "get" /\ pc'[h] = "send" /\ ask'[h] = ask[h]
        /\ DOMAIN store' = DOMAIN store \ {ask[h].history}
        /\ \A k \in DOMAIN store' : store'[k] = store[k]
        /\ convs' \in Seq(ConvState) /\ Len(convs') = Len(convs) + 1
        /\ conv'[h] = Len(convs')
    BY <1>4, MissIs
  <2>2. Len(convs) \in Nat /\ Len(convs) <= Len(convs') /\ Len(convs') \in 1..Len(convs')
    BY <1>0, <2>1
  <2>3. StoreTyped'
    BY <2>1, <2>2, StoreKept
  <2>4. Local(h)'
    BY <1>0, <2>1, <2>2 DEF Local
  <2> QED BY <1>0, <1>1, <2>1, <2>3, <2>4
<1>5. CASE Send(h) \/ Refuse(h) \/ Answer(h) \/ Lose(h) \/ Empty(h)
  <2>1. /\ OthersStay(h) /\ store' = store /\ convs' = convs /\ view' = view /\ now' = now /\ dead' = dead
        /\ ask' = ask /\ conv' = conv /\ pc[h] \notin {"idle", "get", "fail"}
        /\ pc'[h] \notin {"idle", "get", "rcid", "put"}
    BY <1>5, QuietIs
  <2>2. StoreTyped' /\ ask'[h] \in Message /\ conv'[h] \in 1..Len(convs')
    BY <1>0, <2>1 DEF StoreTyped, Local
  <2>3. pc'[h] = "await" => sent'[h].rid \in Seq(AllTexts)
    <3>1. CASE Send(h)
      <4>1. conv[h] \in 1..Len(convs)
        BY <1>0, <2>1 DEF Local
      <4> QED BY <4>1, <3>1, <1>0, SendIs, SomeConv
    <3>2. CASE Answer(h)
      BY <3>2, AnswerIs
    <3>3. CASE Refuse(h) \/ Lose(h) \/ Empty(h)
      <4>1. sent' = sent /\ (pc'[h] = "fail" \/ pc[h] = "await")
        BY <3>3, FailingIs
      <4> QED BY <4>1, <1>0 DEF Local
    <3> QED BY <1>5, <3>1, <3>2, <3>3
  <2>4. pc'[h] = "rid" => answer'[h] \in Seq(AllTexts) \ {<<>>}
    <3>1. CASE Answer(h)
      <4>1. pc[h] = "await"
        BY <3>1, AnswerIs
      <4>2. PICK reply \in Replies :
              answer'[h] = (IF fresh[h] THEN ask[h].history ELSE sent[h].rid)
                             \o <<ask[h].text, reply>>
        BY <3>1, AnswerIs
      <4>3. /\ ask[h].history \in Seq(AllTexts) /\ sent[h].rid \in Seq(AllTexts)
            /\ ask[h].text \in AllTexts /\ reply \in AllTexts
        BY <4>1, <1>0 DEF Local, Message, AllTexts
      <4>4. (IF fresh[h] THEN ask[h].history ELSE sent[h].rid) \in Seq(AllTexts)
        BY <4>3
      <4> QED BY <4>2, <4>3, <4>4, TurnIs
    <3>2. CASE ~Answer(h)
      <4>1. pc'[h] \in {"fail", "await"}
        BY <1>5, <3>2, SendIs, FailingIs
      <4> QED BY <4>1
    <3> QED BY <3>1, <3>2
  <2>5. Local(h)'
    BY <2>1, <2>2, <2>3, <2>4 DEF Local
  <2> QED BY <1>0, <1>1, <2>1, <2>2, <2>5
<1>6. CASE WriteRid(h) \/ WriteRcid(h)
  <2>1. /\ OthersStay(h) /\ store' = store /\ view' = view /\ now' = now /\ dead' = dead
        /\ ask' = ask /\ conv' = conv /\ answer' = answer /\ Assigns(h)
        /\ pc[h] \in {"rid", "rcid"} /\ pc'[h] \in {"rcid", "put"}
    BY <1>6, WriteRidIs, WriteRcidIs
  <2>2. conv[h] \in 1..Len(convs) /\ convs[conv[h]] \in ConvState
    BY <1>0, <2>1 DEF Local
  <2>3. pc'[h] = "rcid" => turnRead'[h] \in Nat
    BY <1>6, <1>0, <2>2, WriteRidIs, WriteRcidIs, SomeConv
  <2>4. Local(h)' /\ StoreTyped' /\ convs' \in Seq(ConvState)
    BY <1>0, <2>1, <2>3 DEF Local, StoreTyped, Assigns
  <2> QED BY <1>0, <1>1, <2>1, <2>4
<1>7. CASE Put(h)
  <2>1. /\ OthersStay(h) /\ now' = now /\ dead' = dead /\ pc[h] = "put" /\ pc'[h] = "idle" /\ Assigns(h)
        /\ view' = [view EXCEPT ![ask[h].client] = Child(h)]
        /\ \A k \in DOMAIN store' : \/ k \in DOMAIN store /\ store'[k] = store[k]
                                    \/ k = Child(h) /\ store'[k] = conv[h]
    BY <1>7, PutDoes
  <2>2. Child(h) \in Seq(AllTexts) \ {<<>>} /\ conv[h] \in 1..Len(convs)
    BY <1>0, <2>1, ChildIs DEF Local
  <2>3. StoreTyped'
    <3> SUFFICES ASSUME NEW k \in DOMAIN store'
                 PROVE  k \in Seq(AllTexts) \ {<<>>} /\ store'[k] \in 1..Len(convs')
      BY DEF StoreTyped
    <3>1. Len(convs') = Len(convs)
      BY <2>1 DEF Assigns
    <3>2. CASE k \in DOMAIN store /\ store'[k] = store[k]
      BY <3>1, <3>2, <1>0 DEF StoreTyped
    <3>3. CASE k = Child(h) /\ store'[k] = conv[h]
      BY <3>1, <3>3, <2>2
    <3> QED BY <2>1, <3>2, <3>3
  <2>4. view' \in [Clients -> Seq(AllTexts)]
    BY <1>0, <2>1, <2>2
  <2>5. convs' \in Seq(ConvState) /\ Local(h)'
    BY <2>1 DEF Assigns, Local
  <2> QED BY <1>1, <2>1, <2>3, <2>4, <2>5
<1>8. CASE Fail(h)
  <2>1. /\ OthersStay(h) /\ convs' = convs /\ view' = view /\ now' = now
        /\ pc[h] = "fail" /\ pc'[h] = "idle" /\ (\A i \in dead' : i \in dead \/ i = conv[h])
        /\ \A k \in DOMAIN store' : k \in DOMAIN store /\ store'[k] = store[k]
    BY <1>8, FailIs
  <2>2. Local(h)' /\ StoreTyped'
    BY <1>0, <2>1 DEF Local, StoreTyped
  <2> QED BY <1>0, <1>1, <2>1, <2>2 DEF Using
<1> QED BY <1>2, <1>3, <1>4, <1>5, <1>6, <1>7, <1>8 DEF Handle

-----------------------------------------------------------------------------
(* A step of one client's handler does not reach another client *)

Free(h, c) == \A g \in Handlers \ {h} : pc[g] # "idle" => ask[g].client # c

Within(h, c) ==
  /\ OthersStay(h)
  /\ pc[h] # "idle" => ask[h].client = c
  /\ pc'[h] # "idle" => ask'[h].client = c
  /\ \A d \in Clients \ {c} : view'[d] = view[d]
  /\ \A i \in 1..Len(convs) : convs'[i] = convs[i] \/ (Using(h) /\ i = conv[h])
  /\ \A i \in dead' : i \in dead \/ (Using(h) /\ i = conv[h])
  /\ \A k \in DOMAIN store' :
       \/ k \in DOMAIN store /\ store'[k] = store[k]
       \/ Using(h) /\ Mine(c, k) /\ store'[k] = conv[h]
  /\ pc'[h] \notin {"idle", "get"} =>
       \/ Using(h) /\ conv'[h] = conv[h]
       \/ conv'[h] \notin 1..Len(convs)
       \/ \E k \in DOMAIN store : Mine(c, k) /\ store[k] = conv'[h]

LEMMA FreeIs ==
  ASSUME OwnInv, NEW h \in Handlers, pc[h] # "idle"
  PROVE  Free(h, ask[h].client)
  BY DEF OwnInv, OneRequest, Free

LEMMA Apart ==
  ASSUME Alone, NEW c \in Clients, NEW d \in Clients, NEW k, Mine(c, k), Mine(d, k)
  PROVE  c = d
  BY DEF Alone, Mine

LEMMA NotShared ==
  ASSUME Typed, OwnInv, NEW h \in Handlers, NEW c \in Clients, Within(h, c), Using(h),
         NEW d \in Clients \ {c}, NEW i \in 1..Len(convs), Owns(d, i)
  PROVE  i # conv[h]
<1>1. SUFFICES ASSUME i = conv[h] PROVE FALSE
  OBVIOUS
<1>2. ask[h].client = c
  BY DEF Within, Using
<1>3. Owns(c, i)
  BY <1>1, <1>2 DEF Owns
<1> QED BY <1>3 DEF OwnInv, OneOwner

LEMMA OthersInStep ==
  ASSUME Typed, Typed', Alone, OwnInv, NEW h \in Handlers, NEW c \in Clients,
         Within(h, c), Free(h, c), NEW g \in Handlers \ {h}
  PROVE  InStep(g)'
<1>1. /\ pc'[g] = pc[g] /\ ask'[g] = ask[g] /\ conv'[g] = conv[g] /\ fresh'[g] = fresh[g]
      /\ sent'[g] = sent[g] /\ answer'[g] = answer[g] /\ turnRead'[g] = turnRead[g]
  BY DEF Within, OthersStay
<1>2. CASE pc[g] = "idle"
  BY <1>1, <1>2 DEF InStep, Using
<1>3. CASE pc[g] # "idle"
  <2> DEFINE d == ask[g].client
  <2>1. ask[g] \in Message /\ d \in Clients /\ d # c
    <3>1. ask[g] \in Message
      BY <1>3, TypedIs DEF Local
    <3> QED BY <1>3, <3>1 DEF Free, Message
  <2>2. InStep(g) /\ ask[g].history = view[d]
    BY <1>3 DEF OwnInv, InStep
  <2>3. view'[d] = view[d]
    BY <2>1 DEF Within
  <2>4. ASSUME Using(g) PROVE convs'[conv[g]] = convs[conv[g]] /\ conv[g] \notin dead'
    <3>1. conv[g] \in 1..Len(convs) /\ conv[g] \notin dead
      BY <2>2, <2>4, TypedIs DEF Local, Using, InStep
    <3>2. Owns(d, conv[g])
      BY <2>4 DEF Owns
    <3>3. Using(h) => conv[g] # conv[h]
      BY <2>1, <3>1, <3>2, NotShared
    <3> QED BY <3>1, <3>3 DEF Within
  <2>5. ASSUME Using(g), fresh[g] PROVE ask[g].history \notin DOMAIN store'
    <3>1. ask[g].history \notin DOMAIN store
      BY <2>2, <2>5 DEF InStep
    <3>2. SUFFICES ASSUME ask[g].history \in DOMAIN store' PROVE FALSE
      OBVIOUS
    <3>3. Mine(c, view[d])
      BY <3>1, <3>2, <2>2 DEF Within
    <3>4. view[d] # <<>>
      BY <3>2, <2>2, TypedIs DEF Typed, TypeOK
    <3>5. Mine(d, view[d])
      BY <2>1, <3>4 DEF OwnInv, OwnWords
    <3> QED BY <3>3, <3>5, <2>1, Apart
  <2> QED BY <1>1, <1>3, <2>2, <2>3, <2>4, <2>5 DEF InStep, Using, Turns
<1> QED BY <1>2, <1>3

LEMMA OthersContinued ==
  ASSUME Typed, Typed', Alone, OwnInv, NEW h \in Handlers, NEW c \in Clients,
         Within(h, c), NEW d \in Clients \ {c}
  PROVE  Continued(d)'
<1>1. SUFFICES ASSUME view'[d] \in DOMAIN store',
                      \A g \in Handlers : Writing(g)' => ask'[g].client # d
               PROVE  LET i == store'[view'[d]] IN
                      /\ convs'[i].rid = view'[d]
                      /\ 2 * convs'[i].turn + convs'[i].base = Len(view'[d])
                      /\ i \notin dead'
  BY DEF Continued, Turns
<1>2. view'[d] = view[d]
  BY DEF Within
<1>3. view[d] # <<>>
  BY <1>1, <1>2 DEF Typed, TypeOK
<1>4. Mine(d, view[d])
  BY <1>3 DEF OwnInv, OwnWords
<1>5. view[d] \in DOMAIN store /\ store'[view[d]] = store[view[d]]
  <2>1. ~Mine(c, view[d])
    BY <1>4, Apart
  <2> QED BY <1>1, <1>2, <2>1 DEF Within
<1> DEFINE i == store[view[d]]
<1>6. i \in 1..Len(convs)
  BY <1>5 DEF Typed, TypeOK
<1>7. Owns(d, i)
  BY <1>4, <1>5 DEF Owns
<1>8. \A g \in Handlers : Writing(g) => ask[g].client # d
  <2>1. Writing(h) => ask[h].client = c
    BY DEF Within, Writing
  <2>2. \A g \in Handlers \ {h} : pc'[g] = pc[g] /\ ask'[g] = ask[g]
    BY DEF Within, OthersStay
  <2> QED BY <1>1, <2>1, <2>2 DEF Writing
<1>9. convs[i].rid = view[d] /\ Turns(i) = Len(view[d]) /\ i \notin dead
  BY <1>5, <1>8 DEF OwnInv, Continued
<1>10. Using(h) => i # conv[h]
  BY <1>6, <1>7, NotShared
<1>11. convs'[i] = convs[i] /\ i \notin dead'
  BY <1>6, <1>9, <1>10 DEF Within
<1> QED BY <1>2, <1>5, <1>9, <1>11 DEF Turns

LEMMA OwnersKept ==
  ASSUME Typed, Typed', Alone, OwnInv, NEW h \in Handlers, NEW c \in Clients, Within(h, c)
  PROVE  OneOwner'
<1>1. ASSUME NEW d \in Clients, NEW i \in 1..Len(convs'), Owns(d, i)'
      PROVE  (Owns(d, i) /\ i \in 1..Len(convs)) \/ (d = c /\ i \notin 1..Len(convs))
  <2>1. CASE \E k \in DOMAIN store' : Mine(d, k) /\ store'[k] = i
    <3>1. PICK k \in DOMAIN store' : Mine(d, k) /\ store'[k] = i
      BY <2>1
    <3>2. CASE k \in DOMAIN store /\ store'[k] = store[k]
      <4>1. i \in 1..Len(convs)
        BY <3>1, <3>2 DEF Typed, TypeOK
      <4>2. Owns(d, i)
        BY <3>1, <3>2 DEF Owns
      <4> QED BY <4>1, <4>2
    <3>3. CASE Using(h) /\ Mine(c, k) /\ store'[k] = conv[h]
      <4>1. d = c
        BY <3>1, <3>3, Apart
      <4>2. ask[h].client = c /\ conv[h] \in 1..Len(convs)
        BY <3>3, TypedIs DEF Within, Using, Local
      <4> QED BY <3>1, <3>3, <4>1, <4>2 DEF Owns
    <3> QED BY <3>1, <3>2, <3>3 DEF Within
  <2>2. CASE \E g \in Handlers : Using(g)' /\ ask'[g].client = d /\ conv'[g] = i
    <3>1. PICK g \in Handlers : Using(g)' /\ ask'[g].client = d /\ conv'[g] = i
      BY <2>2
    <3>2. CASE g # h
      <4>1. Using(g) /\ ask[g].client = d /\ conv[g] = i
        BY <3>1, <3>2 DEF Within, OthersStay, Using
      <4>2. i \in 1..Len(convs)
        BY <4>1, TypedIs DEF Using, Local
      <4> QED BY <4>1, <4>2 DEF Owns
    <3>3. CASE g = h
      <4>1. d = c
        BY <3>1, <3>3 DEF Within, Using
      <4>2. CASE Using(h) /\ conv'[h] = conv[h]
        <5>1. ask[h].client = c /\ conv[h] \in 1..Len(convs)
          BY <4>2, TypedIs DEF Within, Using, Local
        <5> QED BY <5>1, <4>1, <4>2, <3>1, <3>3 DEF Owns
      <4>3. CASE conv'[h] \notin 1..Len(convs)
        BY <4>3, <4>1, <3>1, <3>3
      <4>4. CASE \E k \in DOMAIN store : Mine(c, k) /\ store[k] = conv'[h]
        BY <4>4, <4>1, <3>1, <3>3 DEF Owns, Typed, TypeOK
      <4> QED BY <3>1, <3>3, <4>2, <4>3, <4>4 DEF Within, Using
    <3> QED BY <3>2, <3>3
  <2> QED BY <1>1, <2>1, <2>2 DEF Owns, Mine
<1>2. \A d, e \in Clients : \A i \in 1..Len(convs') : Owns(d, i)' /\ Owns(e, i)' => d = e
  BY <1>1 DEF OwnInv, OneOwner
<1> QED BY <1>2 DEF OneOwner

LEMMA StepKeeps ==
  ASSUME Typed, Typed', Alone, OwnInv, NEW h \in Handlers, NEW c \in Clients,
         Within(h, c), Free(h, c), InStep(h)', Continued(c)',
         view'[c] # <<>> => Mine(c, view'[c])
  PROVE  OwnInv'
<1>1. OneOwner'
  BY OwnersKept
<1>2. OneRequest'
  <2>1. \A g \in Handlers \ {h} : pc'[g] = pc[g] /\ ask'[g] = ask[g]
    BY DEF Within, OthersStay
  <2> QED BY <2>1 DEF OwnInv, OneRequest, Free, Within
<1>3. OwnWords'
  <2>1. \A d \in Clients \ {c} : view'[d] = view[d]
    BY DEF Within
  <2>2. \A d \in Clients : view[d] # <<>> => Mine(d, view[d])
    BY DEF OwnInv, OwnWords
  <2> QED BY <2>1, <2>2 DEF OwnWords, Mine
<1>4. \A g \in Handlers : InStep(g)'
  BY OthersInStep
<1>5. \A d \in Clients : Continued(d)'
  BY OthersContinued
<1> QED BY <1>1, <1>2, <1>3, <1>4, <1>5 DEF OwnInv

-----------------------------------------------------------------------------
(* The action of a handler, for its own client *)

LEMMA AskKeeps ==
  ASSUME Typed, Typed', Alone, OwnInv, NEW h \in Handlers, Ask(h)
  PROVE  OwnInv'
<1>1. /\ OthersStay(h) /\ store' = store /\ convs' = convs /\ view' = view /\ dead' = dead
      /\ pc[h] = "idle" /\ pc'[h] = "get"
  BY AskIs
<1>2. PICK c \in Clients : \E history \in Asked(c), text \in Texts[c] :
        /\ Branching \/ \A other \in Handlers : pc[other] # "idle" => ask[other].client # c
        /\ ask'[h] = [client |-> c, history |-> history, text |-> text]
  BY AskIs
<1>3. PICK history \in Asked(c), text \in Texts[c] :
        /\ Branching \/ \A other \in Handlers : pc[other] # "idle" => ask[other].client # c
        /\ ask'[h] = [client |-> c, history |-> history, text |-> text]
  BY <1>2
<1>4. history = view[c] /\ \A other \in Handlers : pc[other] # "idle" => ask[other].client # c
  BY <1>3 DEF Alone, Asked
<1>5. Within(h, c) /\ Free(h, c)
  BY <1>1, <1>3, <1>4 DEF Within, Free, Using
<1>6. InStep(h)'
  BY <1>1, <1>3, <1>4 DEF InStep, Using
<1>7. \A g \in Handlers : Writing(g) <=> Writing(g)'
  BY <1>1 DEF OthersStay, Writing
<1>8. \A g \in Handlers \ {h} : ask'[g] = ask[g]
  BY <1>1 DEF OthersStay
<1>9. Continued(c)'
  <2>1. ~Writing(h)
    BY <1>1 DEF Writing
  <2> QED BY <2>1, <1>1, <1>7, <1>8 DEF OwnInv, Continued, Turns
<1>10. view'[c] # <<>> => Mine(c, view'[c])
  BY <1>1 DEF OwnInv, OwnWords
<1> QED BY <1>5, <1>6, <1>9, <1>10, StepKeeps

(* Steps after which the client is still not answered and nothing was      *)
(* stored or assigned.                                                     *)
LEMMA StaysContinued ==
  ASSUME Typed, OwnInv, NEW h \in Handlers, OthersStay(h), NEW c \in Clients, view' = view,
         ask'[h] = ask[h], Writing(h) => Writing(h)', dead' = dead,
         \A k \in DOMAIN store' : k \in DOMAIN store /\ store'[k] = store[k],
         \A i \in 1..Len(convs) : convs'[i] = convs[i]
  PROVE  Continued(c)'
<1>1. \A g \in Handlers : ask'[g] = ask[g] /\ (Writing(g) => Writing(g)')
  BY DEF OthersStay, Writing
<1>2. \A k \in DOMAIN store : store[k] \in 1..Len(convs)
  BY DEF Typed, TypeOK
<1> QED BY <1>1, <1>2 DEF OwnInv, Continued, Turns

LEMMA GetKeeps ==
  ASSUME Typed, Typed', Alone, OwnInv, NEW h \in Handlers, Get(h)
  PROVE  OwnInv'
<1> DEFINE key == ask[h].history
<1>1. /\ OthersStay(h) /\ view' = view /\ dead' = dead
      /\ pc[h] = "get" /\ pc'[h] = "send" /\ ask'[h] = ask[h]
      /\ \A k \in DOMAIN store' : k \in DOMAIN store /\ store'[k] = store[k]
      /\ \A i \in 1..Len(convs) : convs'[i] = convs[i]
  BY HitIs, MissIs
<1>0. PICK c \in Clients : c = ask[h].client
  <2>1. ask[h] \in Message
    BY <1>1, TypedIs DEF Local
  <2> QED BY <2>1 DEF Message
<1>2. key = view[c] /\ ask[h].text \in Texts[c] /\ key \in Seq(AllTexts)
  <2>1. ask[h] \in Message /\ InStep(h)
    BY <1>1, TypedIs DEF Local, OwnInv
  <2> QED BY <2>1, <1>0, <1>1 DEF Message, InStep
<1>3. Free(h, c)
  BY <1>0, <1>1, FreeIs
<1>4. Continued(c)'
  BY <1>1, <1>2, StaysContinued DEF Writing
<1>5. view'[c] # <<>> => Mine(c, view'[c])
  BY <1>1, <1>2 DEF OwnInv, OwnWords
<1>6. CASE Hit(h)
  <2>1. /\ store' = store /\ convs' = convs /\ fresh'[h] = FALSE
        /\ key \in DOMAIN store /\ conv'[h] = store[key]
    BY <1>6, HitIs
  <2>2. Mine(c, key)
    BY <2>1, <1>2 DEF OwnInv, OwnWords, Typed, TypeOK
  <2>3. Within(h, c)
    BY <1>0, <1>1, <2>1, <2>2 DEF Within, Using
  <2>4. \A g \in Handlers : Writing(g) => ask[g].client # c
    <3>1. ~Writing(h)
      BY <1>1 DEF Writing
    <3>2. \A g \in Handlers \ {h} : Writing(g) => ask[g].client # c
      BY <1>3 DEF Free, Writing
    <3> QED BY <3>1, <3>2
  <2>5. LET i == store[key] IN convs[i].rid = key /\ Turns(i) = Len(key) /\ i \notin dead
    BY <1>2, <2>1, <2>4 DEF OwnInv, Continued
  <2>6. InStep(h)'
    BY <1>0, <1>1, <1>2, <2>1, <2>5 DEF InStep, Using, Turns
  <2> QED BY <1>2, <1>3, <1>4, <1>5, <2>3, <2>6, StepKeeps
<1>7. CASE ~Hit(h)
  <2>1. /\ fresh'[h] = TRUE /\ DOMAIN store' = DOMAIN store \ {key}
        /\ convs' \in Seq(ConvState) /\ Len(convs') = Len(convs) + 1 /\ conv'[h] = Len(convs')
        /\ convs'[Len(convs')].turn = 0 /\ convs'[Len(convs')].base = Len(key)
    BY <1>7, MissIs
  <2>2. conv'[h] \notin 1..Len(convs) /\ Len(convs) \in Nat
    <3>1. Len(convs) \in Nat
      BY TypedIs
    <3> QED BY <3>1, <2>1
  <2>3. Within(h, c)
    BY <1>0, <1>1, <2>2 DEF Within, Using
  <2>4. conv'[h] \notin dead'
    BY <1>1, <2>2 DEF Typed, TypeOK
  <2>5. InStep(h)'
    <3>1. key \notin DOMAIN store' /\ ask'[h].history = view'[ask'[h].client]
      BY <1>0, <1>1, <1>2, <2>1
    <3>2. 2 * convs'[conv'[h]].turn + convs'[conv'[h]].base = Len(key)
      BY <1>2, <2>1
    <3> QED BY <1>0, <1>1, <1>2, <2>1, <2>4, <3>1, <3>2 DEF InStep, Using, Turns
  <2> QED BY <1>2, <1>3, <1>4, <1>5, <2>3, <2>5, StepKeeps
<1> QED BY <1>6, <1>7

LEMMA QuietKeeps ==
  ASSUME Typed, Typed', Alone, OwnInv, NEW h \in Handlers,
         Send(h) \/ Refuse(h) \/ Answer(h) \/ Lose(h) \/ Empty(h)
  PROVE  OwnInv'
<1>1. /\ OthersStay(h) /\ store' = store /\ convs' = convs /\ view' = view /\ dead' = dead
      /\ ask' = ask /\ conv' = conv /\ fresh' = fresh /\ turnRead' = turnRead
      /\ pc[h] \notin {"idle", "get", "fail"} /\ pc'[h] \notin {"idle", "get", "rcid", "put"}
  BY QuietIs
<1>2. /\ InStep(h) /\ ask[h] \in Message /\ Local(h) /\ fresh[h] \in BOOLEAN
      /\ pc[h] \in Labels /\ pc'[h] \in Labels /\ conv[h] \in 1..Len(convs)
  <2>1. pc \in [Handlers -> Labels] /\ fresh \in [Handlers -> BOOLEAN]
        /\ pc' \in [Handlers -> Labels]
    BY DEF Typed, TypeOK, Labels
  <2> QED BY <2>1, <1>1, TypedIs DEF OwnInv, Local
<1>0. PICK c \in Clients : c = ask[h].client
  BY <1>2 DEF Message
<1>3. ask[h].history = view[c] /\ ask[h].history \in Seq(AllTexts) /\ ask[h].text \in AllTexts
  BY <1>0, <1>1, <1>2 DEF Message, InStep
<1>4. Within(h, c) /\ Free(h, c)
  BY <1>0, <1>1, FreeIs DEF Within, Using
<1>5. view'[c] # <<>> => Mine(c, view'[c])
  BY <1>1, <1>3 DEF OwnInv, OwnWords
<1>6. Writing(h) => Writing(h)'
  <2>1. CASE Send(h)
    BY <2>1, SendIs DEF Writing
  <2>2. CASE Answer(h)
    BY <2>2, AnswerIs DEF Writing
  <2>3. CASE Refuse(h) \/ Lose(h) \/ Empty(h)
    BY <2>3, FailingIs DEF Writing
  <2> QED BY <2>1, <2>2, <2>3
<1>7. Continued(c)'
  BY <1>1, <1>3, <1>6, StaysContinued
<1>8. /\ ask'[h].history = view'[ask'[h].client] /\ ask'[h].text \in Texts[ask'[h].client]
      /\ conv'[h] \notin dead' /\ (fresh'[h] => ask'[h].history \notin DOMAIN store')
  BY <1>1, <1>2 DEF InStep, Using
<1>9. InStep(h)'
  <2>1. CASE Send(h)
    BY <2>1, <1>1, <1>2, <1>8, SendIs DEF InStep, Using, Turns
  <2>2. CASE Answer(h)
    <3>1. pc[h] = "await" /\ pc'[h] = "rid"
      BY <2>2, AnswerIs
    <3>2. PICK reply \in Replies :
            answer'[h] = (IF fresh[h] THEN ask[h].history ELSE sent[h].rid)
                           \o <<ask[h].text, reply>>
      BY <2>2, AnswerIs
    <3>3. (IF fresh[h] THEN ask[h].history ELSE sent[h].rid) = ask[h].history
      BY <1>2, <3>1 DEF InStep
    <3>4. answer'[h] = ask[h].history \o <<ask[h].text, reply>>
      BY <3>2, <3>3
    <3>5. answer'[h][Len(answer'[h])] = reply
      BY <3>4, <1>3, TurnIs DEF AllTexts
    <3>6. answer'[h] = ask'[h].history \o <<ask'[h].text, answer'[h][Len(answer'[h])]>>
      BY <1>1, <3>4, <3>5
    <3> QED BY <1>1, <1>2, <1>8, <3>1, <3>6 DEF InStep, Using, Turns
  <2>3. CASE Refuse(h) \/ Lose(h) \/ Empty(h)
    BY <2>3, <1>1, <1>2, <1>8, FailingIs DEF InStep, Using, Turns
  <2> QED BY <2>1, <2>2, <2>3
<1> QED BY <1>3, <1>4, <1>5, <1>7, <1>9, StepKeeps

LEMMA WriteKeeps ==
  ASSUME Typed, Typed', Alone, OwnInv, NEW h \in Handlers, WriteRid(h) \/ WriteRcid(h)
  PROVE  OwnInv'
<1>1. /\ OthersStay(h) /\ store' = store /\ view' = view /\ dead' = dead
      /\ ask' = ask /\ conv' = conv /\ fresh' = fresh /\ sent' = sent /\ answer' = answer
      /\ pc[h] \in {"rid", "rcid"} /\ pc'[h] \in {"rcid", "put"}
      /\ Assigns(h)
  BY WriteRidIs, WriteRcidIs
<1>2. InStep(h) /\ ask[h] \in Message /\ conv[h] \in 1..Len(convs) /\ answer[h] \in Seq(AllTexts)
  BY <1>1, TypedIs DEF OwnInv, Local
<1>0. PICK c \in Clients : c = ask[h].client
  BY <1>2 DEF Message
<1>3. ask[h].history = view[c]
  BY <1>0, <1>1, <1>2 DEF InStep
<1>4. Within(h, c) /\ Free(h, c)
  BY <1>0, <1>1, FreeIs DEF Within, Using, Assigns
<1>5. view'[c] # <<>> => Mine(c, view'[c])
  BY <1>1 DEF OwnInv, OwnWords
<1>6. Continued(c)'
  <2>1. Writing(h)' /\ ask'[h].client = c
    BY <1>0, <1>1 DEF Writing
  <2> QED BY <2>1 DEF Continued
<1>7. /\ ask'[h].history = view'[ask'[h].client] /\ ask'[h].text \in Texts[ask'[h].client]
      /\ conv'[h] \notin dead' /\ (fresh'[h] => ask'[h].history \notin DOMAIN store')
      /\ answer'[h] = ask'[h].history \o <<ask'[h].text, answer'[h][Len(answer'[h])]>>
  BY <1>1, <1>2 DEF InStep, Using
<1>8. InStep(h)'
  <2>1. CASE WriteRid(h)
    <3>1. /\ pc[h] = "rid" /\ pc'[h] = "rcid" /\ convs'[conv[h]].rid = answer[h]
          /\ turnRead'[h] = convs[conv[h]].turn /\ convs'[conv[h]].base = convs[conv[h]].base
      BY <2>1, WriteRidIs DEF Assigns
    <3>2. 2 * turnRead'[h] + convs'[conv'[h]].base = Len(ask'[h].history)
      BY <1>1, <1>2, <3>1 DEF InStep, Turns
    <3> QED BY <1>1, <1>7, <3>1, <3>2 DEF InStep, Using
  <2>2. CASE WriteRcid(h)
    <3>1. /\ pc[h] = "rcid" /\ pc'[h] = "put" /\ convs'[conv[h]].rid = convs[conv[h]].rid
          /\ convs'[conv[h]].turn = turnRead[h] + 1 /\ convs'[conv[h]].base = convs[conv[h]].base
      BY <2>2, WriteRcidIs DEF Assigns
    <3>2. convs[conv[h]].rid = answer[h]
          /\ 2 * turnRead[h] + convs[conv[h]].base = Len(ask[h].history)
          /\ answer[h] = Child(h)
      BY <1>2, <3>1 DEF InStep, Child
    <3>3. Len(answer[h]) = Len(ask[h].history) + 2
      BY <3>1, <3>2, ChildIs
    <3>4. turnRead[h] \in Nat /\ convs[conv[h]].base \in Nat /\ Len(ask[h].history) \in Nat
      <4>1. ask[h].history \in Seq(AllTexts)
        BY <1>2 DEF Message
      <4>2. convs \in Seq(ConvState) /\ turnRead[h] \in Nat
        BY <3>1, TypedIs DEF Local
      <4> QED BY <4>1, <4>2, <1>2, SomeConv
    <3>5. Turns(conv[h])' = Len(answer'[h])
      <4>0. \A a, b, l \in Nat : 2 * a + b = l => 2 * (a + 1) + b = l + 2
        OBVIOUS
      <4>1. 2 * (turnRead[h] + 1) + convs[conv[h]].base = Len(answer[h])
        BY <3>2, <3>3, <3>4, <4>0, Zenon
      <4> QED BY <4>1, <1>1, <3>1 DEF Turns
    <3> QED BY <1>1, <1>7, <3>1, <3>2, <3>5 DEF InStep, Using
  <2> QED BY <2>1, <2>2
<1> QED BY <1>4, <1>5, <1>6, <1>8, StepKeeps

LEMMA PutKeeps ==
  ASSUME Typed, Typed', BoundInv, Alone, OwnInv, NEW h \in Handlers, Put(h)
  PROVE  OwnInv'
<1>1. /\ OthersStay(h) /\ dead' = dead /\ pc[h] = "put" /\ pc'[h] = "idle" /\ Assigns(h)
      /\ convs'[conv[h]].rid = convs[conv[h]].rid /\ convs'[conv[h]].turn = convs[conv[h]].turn
      /\ view' = [view EXCEPT ![ask[h].client] = Child(h)]
      /\ \A k \in DOMAIN store' : \/ k \in DOMAIN store /\ store'[k] = store[k]
                                  \/ k = Child(h) /\ store'[k] = conv[h]
      /\ Child(h) \in DOMAIN store' => store'[Child(h)] = conv[h]
  BY PutDoes
<1>2. InStep(h) /\ ask[h] \in Message /\ conv[h] \in 1..Len(convs)
  BY <1>1, TypedIs DEF OwnInv, Local
<1>0. PICK c \in Clients : c = ask[h].client
  BY <1>2 DEF Message
<1>3. ask[h].history = view[c] /\ ask[h].text \in Texts[c] /\ ask[h].history \in Seq(AllTexts)
  BY <1>0, <1>1, <1>2 DEF InStep, Message
<1>4. view'[c] = Child(h) /\ \A d \in Clients \ {c} : view'[d] = view[d]
  BY <1>0, <1>1, TypedIs
<1>5. Mine(c, Child(h))
  BY <1>1, <1>3, ChildIs DEF OwnInv, OwnWords, Mine
<1>6. Within(h, c) /\ Free(h, c)
  <2>1. Using(h) /\ ~Using(h)'
    BY <1>1 DEF Using
  <2> QED BY <2>1, <1>0, <1>1, <1>4, <1>5, FreeIs DEF Within, Assigns
<1>7. InStep(h)'
  BY <1>1 DEF InStep, Using
<1>8. Continued(c)'
  <2>1. /\ convs[conv[h]].rid = answer[h] /\ Turns(conv[h]) = Len(answer[h])
        /\ answer[h] = Child(h) /\ conv[h] \notin dead
    BY <1>1, <1>2 DEF InStep, Child, Using
  <2>2. convs'[conv[h]].rid = view'[c]
        /\ 2 * convs'[conv[h]].turn + convs'[conv[h]].base = Len(view'[c])
        /\ conv[h] \notin dead'
    BY <2>1, <1>1, <1>4 DEF Assigns, Turns
  <2>3. view'[c] \in DOMAIN store' => store'[view'[c]] = conv[h]
    BY <1>1, <1>4
  <2> QED BY <2>2, <2>3 DEF Continued, Turns
<1> QED BY <1>4, <1>5, <1>6, <1>7, <1>8, StepKeeps

LEMMA FailKeeps ==
  ASSUME Typed, Typed', Alone, OwnInv, NEW h \in Handlers, Fail(h)
  PROVE  OwnInv'
<1>1. /\ OthersStay(h) /\ convs' = convs /\ view' = view
      /\ pc[h] = "fail" /\ pc'[h] = "idle"
      /\ \A k \in DOMAIN store' : k \in DOMAIN store /\ store'[k] = store[k]
      /\ \/ fresh[h] /\ dead' = dead /\ store' = store
         \/ ~fresh[h] /\ dead' = dead \cup {conv[h]} /\ ask[h].history \notin DOMAIN store'
  BY FailIs
<1>2. InStep(h) /\ ask[h] \in Message
  BY <1>1, TypedIs DEF OwnInv, Local
<1>0. PICK c \in Clients : c = ask[h].client
  BY <1>2 DEF Message
<1>3. ask[h].history = view[c] /\ (fresh[h] => view[c] \notin DOMAIN store)
  BY <1>0, <1>1, <1>2 DEF InStep, Using
<1>4. Within(h, c) /\ Free(h, c)
  BY <1>0, <1>1, FreeIs DEF Within, Using
<1>5. InStep(h)'
  BY <1>1 DEF InStep, Using
<1>6. Continued(c)'
  <2>1. view'[c] \notin DOMAIN store'
    BY <1>1, <1>3
  <2> QED BY <2>1 DEF Continued
<1>7. view'[c] # <<>> => Mine(c, view'[c])
  BY <1>1 DEF OwnInv, OwnWords
<1> QED BY <1>4, <1>5, <1>6, <1>7, StepKeeps

-----------------------------------------------------------------------------
(* The invariant *)

LEMMA Starts == Init => Inv
<1> SUFFICES ASSUME Init PROVE Inv
  OBVIOUS
<1>1. Typed
  BY DEF Init, Typed, TypeOK
<1>2. BoundInv
  <2>1. DOMAIN store = {}
    BY DEF Init
  <2> QED BY <2>1, FS_EmptySet, ConstantsAssumption DEF BoundInv, StoreBounded
<1>3. OwnInv
  <2>1. \A h \in Handlers : pc[h] = "idle"
    BY DEF Init
  <2>2. \A h \in Handlers : ~Using(h) /\ InStep(h)
    BY <2>1 DEF Using, InStep
  <2>3. DOMAIN store = {} /\ \A c \in Clients : view[c] = <<>>
    BY DEF Init
  <2>4. \A c \in Clients : \A i : ~Owns(c, i)
    BY <2>2, <2>3 DEF Owns
  <2> QED BY <2>1, <2>2, <2>3, <2>4 DEF OwnInv, OneOwner, OneRequest, OwnWords, Continued
<1> QED BY <1>1, <1>2, <1>3 DEF Inv

(* Only time passes, or nothing happens.                                   *)
LEMMA IdleKeeps ==
  ASSUME Inv, UNCHANGED <<store, convs, calls, view, pc, handler, dead>>, now' \in Nat
  PROVE  Inv'
<1>1. Typed'
  BY DEF Inv, Typed, TypeOK, handler
<1>2. BoundInv'
  BY DEF Inv, BoundInv, StoreBounded
<1>3. ASSUME Alone PROVE OwnInv'
  <2>1. OwnInv
    BY <1>3 DEF Inv
  <2>2. \A h \in Handlers : InStep(h)'
    BY <2>1 DEF OwnInv, InStep, Using, Turns, handler
  <2>3. OneOwner' /\ OneRequest' /\ OwnWords'
    BY <2>1 DEF OwnInv, OneOwner, OneRequest, OwnWords, Owns, Using, handler
  <2>4. \A c \in Clients : Continued(c)'
    BY <2>1 DEF OwnInv, Continued, Turns, Writing, handler
  <2> QED BY <2>2, <2>3, <2>4 DEF OwnInv
<1> QED BY <1>1, <1>2, <1>3 DEF Inv

LEMMA Keeps == Inv /\ [Next]_vars => Inv'
<1> SUFFICES ASSUME Inv, [Next]_vars PROVE Inv'
  OBVIOUS
<1>1. Typed /\ BoundInv /\ BoundInv' /\ now \in Nat
  BY BoundKeeps DEF Inv, Typed, TypeOK
<1>2. CASE UNCHANGED vars
  BY <1>1, <1>2, IdleKeeps DEF vars, handler
<1>3. CASE Tick
  BY <1>1, <1>3, IdleKeeps DEF Tick
<1>4. ASSUME NEW h \in Handlers, Ask(h) \/ Handle(h) PROVE Inv'
  <2>1. Typed'
    BY <1>1, <1>4, TypedKeeps
  <2>2. ASSUME Alone PROVE OwnInv'
    <3>1. OwnInv
      BY <2>2 DEF Inv
    <3>2. CASE Ask(h)
      BY <1>1, <2>1, <2>2, <3>1, <3>2, AskKeeps
    <3>3. CASE Get(h)
      BY <1>1, <2>1, <2>2, <3>1, <3>3, GetKeeps
    <3>4. CASE Send(h) \/ Refuse(h) \/ Answer(h) \/ Lose(h) \/ Empty(h)
      BY <1>1, <2>1, <2>2, <3>1, <3>4, QuietKeeps
    <3>5. CASE WriteRid(h) \/ WriteRcid(h)
      BY <1>1, <2>1, <2>2, <3>1, <3>5, WriteKeeps
    <3>6. CASE Put(h)
      BY <1>1, <2>1, <2>2, <3>1, <3>6, PutKeeps
    <3>7. CASE Fail(h)
      BY <1>1, <2>1, <2>2, <3>1, <3>7, FailKeeps
    <3> QED BY <1>4, <3>2, <3>3, <3>4, <3>5, <3>6, <3>7 DEF Handle
  <2> QED BY <1>1, <2>1, <2>2 DEF Inv
<1> QED BY <1>2, <1>3, <1>4 DEF Next

LEMMA Always == Spec => []Inv
  BY Starts, Keeps, PTL DEF Spec

-----------------------------------------------------------------------------
(* Theorems *)

(* The store and the conversations keep their shapes, and no handler holds *)
(* a conversation that does not exist.                                     *)
THEOREM TypeCorrect == Spec => []TypeOK
<1>1. Inv => TypeOK
  BY DEF Inv, Typed
<1> QED BY <1>1, Always, PTL

(* Whatever eviction takes, convPut leaves at most ConvMax entries: one    *)
(* was added to a map that had no more, and of those left too many one     *)
(* oldest always exists (conversation.go 84-103).                          *)
THEOREM StoreBoundedAlways == Spec => []StoreBounded
<1>1. Inv => StoreBounded
  BY DEF Inv, BoundInv
<1> QED BY <1>1, Always, PTL

(* A continuation carries the ids and the turn of its own history, however *)
(* many clients and handlers there are, whatever expires, is evicted or    *)
(* fails, as long as clients do not go back and do not speak alike.        *)
THEOREM OwnHistoryContinued == ASSUME Alone PROVE Spec => []ContinuesOwnHistory
<1>1. Inv => ContinuesOwnHistory
  <2> SUFFICES ASSUME Inv, NEW h \in Handlers, pc[h] = "await", ~fresh[h]
               PROVE  /\ sent[h].rid = ask[h].history
                      /\ 2 * sent[h].turn + convs[conv[h]].base = Len(ask[h].history)
    BY DEF ContinuesOwnHistory
  <2>1. InStep(h)
    BY DEF Inv, OwnInv
  <2> QED BY <2>1 DEF InStep, Turns
<1> QED BY <1>1, Always, PTL

(* A conversation one of whose continuations failed is never used again by *)
(* a continuation: the retry of its client starts a new one.               *)
THEOREM DeadNotContinued == ASSUME Alone PROVE Spec => DeadStaysDead
<1>1. Inv => \A h \in Handlers : Send(h) => fresh[h] \/ conv[h] \notin dead
  <2> SUFFICES ASSUME Inv, NEW h \in Handlers, Send(h) PROVE conv[h] \notin dead
    OBVIOUS
  <2>1. InStep(h) /\ Using(h)
    BY DEF Inv, OwnInv, Send, Using
  <2> QED BY <2>1 DEF InStep
<1>2. Inv /\ [Next]_vars => [\A h \in Handlers : Send(h) => fresh[h] \/ conv[h] \notin dead]_vars
  BY <1>1
<1> QED BY <1>2, Always, PTL DEF Spec, DeadStaysDead
=============================================================================
