---------------------------- MODULE Conversation ----------------------------
(***************************************************************************)
(* Native multi-turn conversations, internal/app/conversation.go.          *)
(*                                                                         *)
(* A handler recognises a continuation by the history its client sends     *)
(* back: convStore maps the fingerprint of a history to a convState, and   *)
(* on a hit only the last message goes to upstream, together with the ids  *)
(* of the turn upstream is to continue from.  After the answer the same    *)
(* convState is stored under the longer history; the entry for the shorter *)
(* one stays.  convMu guards the map, not the fields of the states in it,  *)
(* so every assignment to rid and to rcid and turn is a step of its own.   *)
(*                                                                         *)
(* A history is the sequence of its texts; hashing it is taken to be       *)
(* injective.  Upstream is external: an answer to ids that name a history  *)
(* extends exactly that history.                                           *)
(***************************************************************************)
EXTENDS Integers, FiniteSets, Sequences

CONSTANTS
  Clients, Handlers,
  Texts,      \* client -> what it may say
  Replies,    \* what upstream may answer
  Branching,  \* clients may go back and ask again from an earlier turn
  TTL,        \* convTTL
  ConvMax,    \* convMax (4000 in the code)
  Attempts,   \* retry_attempts
  MaxTime, MaxCalls, MaxTurns,  \* bounds
  None

ASSUME ConstantsAssumption ==
  /\ Texts \in [Clients -> SUBSET UNION {Texts[c] : c \in Clients}]
  /\ ConvMax \in Nat \ {0} /\ Attempts \in Nat \ {0} /\ TTL \in Nat

VARIABLES
  now,
  store,    \* convStore: history -> conversation
  convs,    \* the convStates: [rid, rcid, turn, updated, base]
  calls,    \* handlers started so far; a new conversation takes this number
  view,     \* what each client has on its screen
  pc,
  ask,      \* a handler's request: [client, history, text]
  conv,     \* the conversation it uses
  fresh,    \* whether it has just created it
  sent,     \* the ids and the turn it put into the body
  answer,   \* what upstream's turn is: the history it ends
  turnRead, \* the operand of turn++
  left,     \* attempts left
  dead      \* history: conversations one of whose continuations failed

handler == <<ask, conv, fresh, sent, answer, turnRead, left>>
vars == <<now, store, convs, calls, view, pc, handler, dead>>

Goto(h, label) == pc' = [pc EXCEPT ![h] = label]
Without(key) == [k \in DOMAIN store \ {key} |-> store[k]]
Expired(c) == now - convs[c].updated > TTL

Init ==
  /\ now = 0
  /\ store = <<>> /\ convs = <<>> /\ calls = 0
  /\ view = [c \in Clients |-> <<>>]
  /\ pc = [h \in Handlers |-> "idle"]
  /\ ask = [h \in Handlers |-> None]
  /\ conv = [h \in Handlers |-> None]
  /\ fresh = [h \in Handlers |-> FALSE]
  /\ sent = [h \in Handlers |-> None]
  /\ answer = [h \in Handlers |-> None]
  /\ turnRead = [h \in Handlers |-> 0]
  /\ left = [h \in Handlers |-> 0]
  /\ dead = {}

(* The handler returns; what it knew is gone.                              *)
Done(h) ==
  /\ Goto(h, "idle")
  /\ ask' = [ask EXCEPT ![h] = None]
  /\ conv' = [conv EXCEPT ![h] = None]
  /\ fresh' = [fresh EXCEPT ![h] = FALSE]
  /\ sent' = [sent EXCEPT ![h] = None]
  /\ answer' = [answer EXCEPT ![h] = None]
  /\ turnRead' = [turnRead EXCEPT ![h] = 0]
  /\ left' = [left EXCEPT ![h] = 0]

-----------------------------------------------------------------------------

(* Histories a client may ask from: what it sees or, going back, an        *)
(* earlier turn of it.                                                     *)
Asked(c) ==
  IF Branching THEN {SubSeq(view[c], 1, 2 * n) : n \in 0..(Len(view[c]) \div 2)}
               ELSE {view[c]}

(* A client sends its messages; a client that does not go back waits for   *)
(* its answer before it asks again.                                        *)
Ask(h) ==
  /\ pc[h] = "idle" /\ calls < MaxCalls
  /\ \E c \in Clients : \E history \in Asked(c), text \in Texts[c] :
       /\ Len(history) < 2 * MaxTurns
       /\ Branching \/ \A other \in Handlers : pc[other] # "idle" => ask[other].client # c
       /\ ask' = [ask EXCEPT ![h] = [client |-> c, history |-> history, text |-> text]]
  /\ calls' = calls + 1
  /\ Goto(h, "get")
  /\ UNCHANGED <<now, store, convs, view, conv, fresh, sent, answer, turnRead, left, dead>>

(* convParentKey and convGet: the conversation to continue, or a new one.  *)
(* A lone first message has no parent key.                                 *)
Get(h) ==
  LET key == ask[h].history
      hit == key # <<>> /\ key \in DOMAIN store /\ ~Expired(store[key]) IN
  /\ pc[h] = "get"
  /\ store' = IF hit THEN store ELSE Without(key)
  /\ fresh' = [fresh EXCEPT ![h] = ~hit]
  /\ conv' = [conv EXCEPT ![h] = IF hit THEN store[key] ELSE Len(convs) + 1]
  /\ convs' = IF hit THEN convs
              ELSE Append(convs, [rid |-> <<>>, rcid |-> <<>>, turn |-> 0,
                                  updated |-> now, base |-> Len(key)])
  /\ Goto(h, "send")
  /\ UNCHANGED <<now, calls, view, ask, sent, answer, turnRead, left, dead>>

(* streamGenerateConv reads the ids once, every retry sends the same body. *)
Send(h) ==
  LET c == convs[conv[h]] IN
  /\ pc[h] = "send"
  /\ sent' = [sent EXCEPT ![h] = [rid |-> c.rid, rcid |-> c.rcid, turn |-> c.turn]]
  /\ left' = [left EXCEPT ![h] = Attempts]
  /\ Goto(h, "await")
  /\ UNCHANGED <<now, store, convs, calls, view, ask, conv, fresh, answer, turnRead, dead>>

(* No slot, no page token: the call fails before anything is sent.         *)
Refuse(h) ==
  /\ pc[h] = "send"
  /\ Goto(h, "fail")
  /\ UNCHANGED <<now, store, convs, calls, view, handler, dead>>

(* Upstream's turn: the history the ids name, or for a new conversation    *)
(* all of what the client sent, with the new message and the reply.        *)
Answer(h) ==
  LET start == IF fresh[h] THEN ask[h].history ELSE sent[h].rid IN
  /\ pc[h] = "await"
  /\ \E reply \in Replies :
       answer' = [answer EXCEPT ![h] = start \o <<ask[h].text, reply>>]
  /\ Goto(h, "rid")
  /\ UNCHANGED <<now, store, convs, calls, view, ask, conv, fresh, sent, turnRead, left, dead>>

(* An error, another status or no content frame; parts already delivered   *)
(* to the client end the attempts at once.                                 *)
Lose(h) ==
  /\ pc[h] = "await"
  /\ left' = [left EXCEPT ![h] = @ - 1]
  /\ \/ Goto(h, "fail")
     \/ left[h] > 1 /\ UNCHANGED pc
  /\ UNCHANGED <<now, store, convs, calls, view, ask, conv, fresh, sent, answer, turnRead, dead>>

(* conv.cid and conv.rid; turn++ reads its operand.                        *)
WriteRid(h) ==
  /\ pc[h] = "rid"
  /\ convs' = [convs EXCEPT ![conv[h]].rid = answer[h]]
  /\ turnRead' = [turnRead EXCEPT ![h] = convs[conv[h]].turn]
  /\ Goto(h, "rcid")
  /\ UNCHANGED <<now, store, calls, view, ask, conv, fresh, sent, answer, left, dead>>

(* Deviation: the turn index is only set up, never advanced.               *)
WriteRcidOnly(h) ==
  /\ pc[h] = "rcid"
  /\ convs' = [convs EXCEPT ![conv[h]].rcid = answer[h], ![conv[h]].turn = 1]
  /\ Goto(h, "put")
  /\ UNCHANGED <<now, store, calls, view, handler, dead>>

(* conv.rcid, conv.tok26 and conv.turn.                                    *)
WriteRcid(h) ==
  /\ pc[h] = "rcid"
  /\ convs' = [convs EXCEPT ![conv[h]].rcid = answer[h],
                            ![conv[h]].turn = turnRead[h] + 1]
  /\ Goto(h, "put")
  /\ UNCHANGED <<now, store, calls, view, handler, dead>>

(* Deviation: only what has expired is evicted.                            *)
EvictExpiredOnly(full, age) ==
  LET old == {k \in DOMAIN full : now - age[full[k]].updated > TTL} IN
  IF Cardinality(DOMAIN full) <= ConvMax THEN {full}
  ELSE {[k \in DOMAIN full \ old |-> full[k]]}

(* What convPut leaves of a map: when it is too large the expired entries  *)
(* go, and if that is not enough one of the oldest, whichever of them the  *)
(* iteration over the map meets first.                                     *)
Evict(full, age) ==
  LET old == {k \in DOMAIN full : now - age[full[k]].updated > TTL}
      kept == DOMAIN full \ old
      oldest == {k \in kept : \A other \in kept :
                   age[full[k]].updated <= age[full[other]].updated} IN
  IF Cardinality(DOMAIN full) <= ConvMax THEN {full}
  ELSE IF Cardinality(kept) <= ConvMax THEN {[k \in kept |-> full[k]]}
  ELSE {[k \in kept \ {out} |-> full[k]] : out \in oldest}

(* convPut under convChildKey, and the answer goes to the client.  The     *)
(* child key is the client's history and not upstream's.                   *)
Put(h) ==
  LET key == ask[h].history \o <<ask[h].text, answer[h][Len(answer[h])]>>
      touched == [convs EXCEPT ![conv[h]].updated = now]
      full == [k \in DOMAIN store \cup {key} |-> IF k = key THEN conv[h] ELSE store[k]] IN
  /\ pc[h] = "put"
  /\ convs' = touched
  /\ store' \in Evict(full, touched)
  /\ view' = [view EXCEPT ![ask[h].client] = key]
  /\ Done(h)
  /\ UNCHANGED <<now, calls, dead>>

(* Upstream's text was empty: an error although the turn took place.       *)
Empty(h) ==
  /\ pc[h] = "put"
  /\ Goto(h, "fail")
  /\ UNCHANGED <<now, store, convs, calls, view, handler, dead>>

(* Deviation: the conversation stays although its continuation failed.     *)
FailKeeping(h) ==
  /\ pc[h] = "fail"
  /\ UNCHANGED store
  /\ dead' = IF fresh[h] THEN dead ELSE dead \cup {conv[h]}
  /\ Done(h)
  /\ UNCHANGED <<now, convs, calls, view>>

(* The client gets an error; convDelete for a continuation.                *)
Fail(h) ==
  /\ pc[h] = "fail"
  /\ store' = IF fresh[h] THEN store ELSE Without(ask[h].history)
  /\ dead' = IF fresh[h] THEN dead ELSE dead \cup {conv[h]}
  /\ Done(h)
  /\ UNCHANGED <<now, convs, calls, view>>

Tick ==
  /\ now < MaxTime
  /\ now' = now + 1
  /\ UNCHANGED <<store, convs, calls, view, pc, handler, dead>>

-----------------------------------------------------------------------------

Handle(h) ==
  \/ Get(h) \/ Send(h) \/ Refuse(h) \/ Answer(h) \/ Lose(h)
  \/ WriteRid(h) \/ WriteRcid(h) \/ Put(h) \/ Empty(h) \/ Fail(h)

Next == Tick \/ \E h \in Handlers : Ask(h) \/ Handle(h)

Spec == Init /\ [][Next]_vars

FairSpec == Spec /\ \A h \in Handlers : WF_vars(Handle(h))

-----------------------------------------------------------------------------

AllTexts == Replies \cup UNION {Texts[c] : c \in Clients}

ConvState == [rid : Seq(AllTexts), rcid : Seq(AllTexts), turn : Nat, updated : Nat, base : Nat]
Message == [client : Clients, history : Seq(AllTexts), text : AllTexts]

TypeOK ==
  /\ now \in Nat
  /\ convs \in Seq(ConvState)
  /\ \A k \in DOMAIN store : k \in Seq(AllTexts) \ {<<>>} /\ store[k] \in 1..Len(convs)
  /\ dead \subseteq 1..Len(convs)
  /\ view \in [Clients -> Seq(AllTexts)]
  /\ pc \in [Handlers -> {"idle", "get", "send", "await", "rid", "rcid", "put", "fail"}]
  /\ fresh \in [Handlers -> BOOLEAN]
  /\ \A h \in Handlers :
       /\ pc[h] # "idle" => ask[h] \in Message
       /\ pc[h] \notin {"idle", "get"} => conv[h] \in 1..Len(convs)
       /\ pc[h] = "await" => sent[h].rid \in Seq(AllTexts)
       /\ pc[h] \in {"rid", "rcid", "put"} => answer[h] \in Seq(AllTexts) \ {<<>>}
       /\ pc[h] = "rcid" => turnRead[h] \in Nat

(* A continuation continues the very history its client sent: the ids it   *)
(* carries name that history, and its turn index counts the turns since    *)
(* the conversation began.                                                 *)
ContinuesOwnHistory ==
  \A h \in Handlers : pc[h] = "await" /\ ~fresh[h] =>
    /\ sent[h].rid = ask[h].history
    /\ 2 * sent[h].turn + convs[conv[h]].base = Len(ask[h].history)

(* A conversation whose continuation failed is not continued: the retry    *)
(* sends everything to a new one.                                          *)
DeadStaysDead ==
  [][\A h \in Handlers : Send(h) => fresh[h] \/ conv[h] \notin dead]_vars

(* The store never holds more than ConvMax conversations between calls.    *)
StoreBounded == Cardinality(DOMAIN store) <= ConvMax

(* The ids of a conversation nobody is writing to belong to one turn.      *)
IdsOfOneTurn ==
  \A c \in 1..Len(convs) :
    (\A h \in Handlers : pc[h] \in {"rid", "rcid"} => conv[h] # c) =>
      convs[c].rid = convs[c].rcid

(* The client's next message finds the conversation that was just stored.  *)
StoredIsFound ==
  [][\A h \in Handlers : Put(h) => view'[ask[h].client] \in DOMAIN store']_vars

(* Every call ends with an answer or an error.                             *)
CallEnds == \A h \in Handlers : pc[h] # "idle" ~> pc[h] = "idle"
=============================================================================
