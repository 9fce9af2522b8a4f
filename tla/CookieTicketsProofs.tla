------------------------- MODULE CookieTicketsProofs -------------------------
(* Proofs about CookieTickets for every set of accounts, of goroutines and *)
(* of accounts a browser manages, and every value of the bounds.           *)
EXTENDS CookieTickets, TLAPS

Held == [id : Identities, ticket : Nat]
Entry == [id : Ids, managed : BOOLEAN, cookie : Held]
Moment == Nat \cup {None}
Phases == {"rotate", "serve"}
Causes == {"reply", "dropped", "foreign", "overlap"}

(* The shapes of the variables, without the bounds.                        *)
Typed ==
  /\ now \in Nat
  /\ DOMAIN db \subseteq Ids
  /\ \A i \in DOMAIN db : db[i] \in [managed : BOOLEAN, cookie : Held]
  /\ lastAt \in [Ids -> Moment]
  /\ google \in [Ids -> Nat]
  /\ pc \in [Procs -> Labels]
  /\ snap \in [Procs -> Entry \cup {None}]
  /\ \A p \in Procs : pc[p] \notin {"idle", "next"} => snap[p] \in Entry
  /\ cur \in [Procs -> Held]
  /\ touched \in [Procs -> BOOLEAN]
  /\ phase \in [Procs -> Phases]
  /\ queue \subseteq Entry
  /\ lostBy \in [Ids -> SUBSET Causes]
  /\ answered \in [Procs -> [Ids -> Moment]]
  /\ owned \in [Ids -> SUBSET Identities]

(* Who is about to exchange a ticket was let through for an account of the *)
(* service's own.                                                          *)
ManagedInv ==
  /\ \A i \in DOMAIN db : db[i].managed <=> i \in Managed
  /\ \A account \in queue : account.managed <=> account.id \in Managed
  /\ \A p \in Procs : pc[p] \in {"gate", "exchange"} => Id(p) \notin Managed

(* Between the two statements of updateAccountCookie the row may change,   *)
(* but what it was stored with remains.                                    *)
OwnInv ==
  /\ OwnIdentity
  /\ \A p \in Procs :
       pc[p] = "write" /\ Id(p) \in DOMAIN db => cur[p].id \in owned[Id(p)]

(* An answer is noted at the time it came or later, and stays noted.       *)
SpaceInv ==
  /\ \A i \in Ids : lastAt[i] # None => lastAt[i] <= now
  /\ \A p \in Procs, i \in Ids : answered[p][i] # None =>
       /\ answered[p][i] <= now
       /\ \/ lastAt[i] # None /\ answered[p][i] <= lastAt[i]
          \/ pc[p] = "note" /\ Id(p) = i
  /\ \A p \in Procs : pc[p] = "exchange" => Elapsed(answered[p][Id(p)], MinInterval)

(* No cookie has a ticket that upstream has not given out yet.             *)
GivenOut ==
  /\ \A i \in DOMAIN db : db[i].cookie.ticket <= google[i]
  /\ \A account \in queue : account.cookie.ticket <= google[account.id]
  /\ \A p \in Procs :
       pc[p] \notin {"idle", "next", "refetch"} => cur[p].ticket <= google[Id(p)]

Before == {"gate", "exchange", "note", "page"}

(* What was read of a row is not newer than the row, and until the cookie  *)
(* is touched its ticket is the one that was read.                         *)
Unlost(i) == i \in DOMAIN db /\ ~db[i].managed /\ lostBy[i] = {}
ReadInv ==
  /\ \A account \in queue :
       Unlost(account.id) => account.cookie.ticket <= db[account.id].cookie.ticket
  /\ \A p \in Procs : pc[p] \in Before =>
       /\ Unlost(Id(p)) => snap[p].cookie.ticket <= db[Id(p)].cookie.ticket
       /\ ~touched[p] => cur[p].ticket = snap[p].cookie.ticket

-----------------------------------------------------------------------------
(* The variables keep their shapes: every action.                          *)

LEMMA ReadIsEntry == ASSUME Typed, NEW i \in DOMAIN db PROVE Read(i) \in Entry
  BY DEF Typed, Read, Entry

LEMMA FirstIsHeld == First \in Held
  BY DEF First, Held, Identities

LEMMA TypedInit == Init => Typed
  BY IdsAssumption, FirstIsHeld DEF Init, Typed, Moment, Labels, Phases, Causes, Identities

LEMMA MergeTyped ==
  ASSUME Typed, NEW p \in Procs, Merge(p)
  PROVE  cur' \in [Procs -> Held] /\ touched' \in [Procs -> BOOLEAN]
<1>1. CASE UNCHANGED <<cur, touched>>
  BY <1>1 DEF Typed
<1>2. ASSUME NEW identity \in {cur[p].id, Foreign}, cur' = [cur EXCEPT ![p].id = identity],
             touched' = [touched EXCEPT ![p] = TRUE]
      PROVE  cur' \in [Procs -> Held] /\ touched' \in [Procs -> BOOLEAN]
  <2>1. cur[p] \in Held /\ identity \in Identities
    BY DEF Typed, Held, Identities
  <2>2. [cur[p] EXCEPT !.id = identity] \in Held
    BY <2>1 DEF Held
  <2> QED BY <1>2, <2>2 DEF Typed
<1> QED BY <1>1, <1>2 DEF Merge

LEMMA TypedStep == Typed /\ [Next]_vars => Typed'
<1> SUFFICES ASSUME Typed, [Next]_vars PROVE Typed'
  OBVIOUS
<1> USE IdsAssumption, FirstIsHeld DEF Labels, Phases, Causes
<1>f. ASSUME NEW p \in Procs, Finish(p), UNCHANGED <<now, db, lastAt, google, lostBy, answered, owned>>, queue' \subseteq queue
      PROVE Typed'
  BY <1>f DEF Typed, Finish, Goto
<1>t. ASSUME NEW p \in Procs, NEW account \in Entry, NEW label \in Labels, Take(p, account, label),
             phase' \in [Procs -> Phases],
             UNCHANGED <<now, db, lastAt, google, lostBy, answered, owned>>, queue' \subseteq queue
      PROVE Typed'
  BY <1>t DEF Typed, Take, Goto, Entry
<1>r. ASSUME NEW p \in Procs, NEW account \in Entry, RotateAccount(p, account),
             UNCHANGED <<now, db, lastAt, google, lostBy, answered, owned>>, queue' \subseteq queue
      PROVE Typed'
  <2>1. CASE account.managed
    BY <2>1, <1>r, <1>f DEF RotateAccount
  <2>2. CASE ~account.managed
    <3>1. Take(p, account, "gate") /\ phase' \in [Procs -> Phases]
      BY <2>2, <1>r DEF RotateAccount, Typed
    <3> QED BY <3>1, <1>t, <1>r
  <2> QED BY <2>1, <2>2
<1>1. CASE StartRound
  <2>1. queue' \subseteq Entry
    BY <1>1, ReadIsEntry DEF StartRound
  <2> QED BY <1>1, <2>1 DEF StartRound, Goto, Typed, history
<1>2. CASE NextAccount
  <2>1. CASE queue = {} /\ Goto(Keeper, "idle") /\ UNCHANGED <<snap, cur, touched, phase, queue>>
    BY <1>2, <2>1 DEF NextAccount, Goto, Typed, history
  <2>2. ASSUME NEW account \in queue, RotateAccount(Keeper, account), queue' = queue \ {account}
        PROVE Typed'
    <3>1. account \in Entry /\ Keeper \in Procs
      BY DEF Typed, Procs, Rotators
    <3> QED BY <1>2, <2>2, <3>1, <1>r DEF NextAccount, history
  <2> QED BY <1>2, <2>1, <2>2 DEF NextAccount
<1>3. CASE Tick
  BY <1>3 DEF Tick, Typed, history
<1>4. ASSUME NEW a \in Admins, AdminRotates(a) PROVE Typed'
  <2>1. a \in Procs
    BY DEF Procs, Rotators
  <2>2. PICK i \in DOMAIN db : RotateAccount(a, Read(i))
    BY <1>4 DEF AdminRotates
  <2> QED BY <1>4, <2>1, <2>2, <1>r, ReadIsEntry DEF AdminRotates, history
<1>5. ASSUME NEW r \in Requests, StartRequest(r) PROVE Typed'
  <2>1. r \in Procs
    BY DEF Procs, Rotators
  <2>2. PICK i \in DOMAIN db :
          \/ Take(r, Read(i), "send") /\ phase' = [phase EXCEPT ![r] = "serve"]
          \/ RotateAccount(r, Read(i))
    BY <1>5 DEF StartRequest
  <2>3. CASE RotateAccount(r, Read(i))
    BY <1>5, <2>1, <2>3, <1>r, ReadIsEntry DEF StartRequest, history
  <2>4. CASE Take(r, Read(i), "send") /\ phase' = [phase EXCEPT ![r] = "serve"]
    <3>1. phase' \in [Procs -> Phases]
      BY <2>4 DEF Typed
    <3> QED BY <1>5, <2>1, <2>4, <3>1, <1>t, ReadIsEntry DEF StartRequest, history
  <2> QED BY <2>2, <2>3, <2>4
<1>6. ASSUME NEW c \in Checkers, StartCheck(c) PROVE Typed'
  <2>1. c \in Procs /\ phase' \in [Procs -> Phases]
    BY <1>6 DEF Procs, Droppers, StartCheck, Typed
  <2> QED BY <1>6, <2>1, <1>t, ReadIsEntry DEF StartCheck, history
<1>7. ASSUME NEW g \in Guards, GuardFires(g) PROVE Typed'
  <2>1. g \in Procs
    BY DEF Procs, Droppers
  <2> QED BY <1>7, <2>1 DEF GuardFires, Goto, Typed, Entry, history
<1>8. ASSUME NEW g \in Guards, GuardReads(g) PROVE Typed'
  <2>1. g \in Procs
    BY DEF Procs, Droppers
  <2>2. CASE Id(g) \in DOMAIN db /\ ~db[Id(g)].managed
    <3>1. Take(g, Read(Id(g)), "gate") /\ phase' \in [Procs -> Phases]
      BY <1>8, <2>2 DEF GuardReads, Typed
    <3> QED BY <1>8, <2>1, <2>2, <3>1, <1>t, ReadIsEntry DEF GuardReads, history
  <2>3. CASE ~(Id(g) \in DOMAIN db /\ ~db[Id(g)].managed)
    BY <1>8, <2>1, <2>3, <1>f DEF GuardReads, history
  <2> QED BY <2>2, <2>3
<1>9. ASSUME NEW p \in Procs, Gate(p) PROVE Typed'
  BY <1>9 DEF Gate, Goto, Typed, Exchanged, history
<1>10. ASSUME NEW p \in Procs, Granted(p) PROVE Typed'
  <2>1. Id(p) \in Ids /\ cur[p] \in Held
    BY <1>10 DEF Granted, Typed, Id, Entry
  <2>2. google' \in [Ids -> Nat] /\ google'[Id(p)] \in Nat
    BY <1>10, <2>1 DEF Granted, Typed, Spend
  <2>3. cur' \in [Procs -> Held]
    BY <1>10, <2>1, <2>2 DEF Granted, Typed, Held
  <2>4. answered' \in [Procs -> [Ids -> Moment]]
    BY <1>10, <2>1 DEF Granted, Typed, Moment
  <2>5. lostBy' \in [Ids -> SUBSET Causes]
    <3>1. Lose(Id(p), "dropped") \/ UNCHANGED lostBy
      BY <1>10 DEF Granted
    <3> QED BY <2>1, <3>1 DEF Typed, Lose
  <2>6. /\ pc' \in [Procs -> Labels]
        /\ \A q \in Procs : pc'[q] \notin {"idle", "next"} => snap'[q] \in Entry
    BY <1>10 DEF Granted, Goto, Typed
  <2>7. touched' \in [Procs -> BOOLEAN]
    BY <1>10 DEF Granted, Typed
  <2>8. UNCHANGED <<now, db, lastAt, snap, phase, queue, owned>>
    BY <1>10 DEF Granted
  <2> QED BY <2>2, <2>3, <2>4, <2>5, <2>6, <2>7, <2>8 DEF Typed
<1>11. ASSUME NEW p \in Procs, Refused(p) PROVE Typed'
  BY <1>11 DEF Refused, Goto, Typed, Id, Entry, Moment
<1>12. ASSUME NEW p \in Procs, Unanswered(p) PROVE Typed'
  <2>1. Id(p) \in Ids
    BY <1>12 DEF Unanswered, Typed, Id, Entry
  <2>2. google' \in [Ids -> Nat]
    BY <1>12, <2>1 DEF Unanswered, Typed, Spend
  <2>3. lostBy' \in [Ids -> SUBSET Causes]
    BY <1>12, <2>1 DEF Unanswered, Typed, Lose
  <2> QED BY <1>12, <2>2, <2>3 DEF Unanswered, Goto, Typed, Exchanged
<1>13. ASSUME NEW p \in Procs, Note(p) PROVE Typed'
  BY <1>13 DEF Note, Goto, Typed, Id, Entry, Exchanged, Moment, history
<1>14. ASSUME NEW p \in Procs, Page(p) PROVE Typed'
  <2>1. cur' \in [Procs -> Held] /\ touched' \in [Procs -> BOOLEAN]
    BY <1>14, MergeTyped DEF Page
  <2> QED BY <1>14, <2>1 DEF Page, Goto, Typed, history
<1>15. ASSUME NEW p \in Procs, Send(p) PROVE Typed'
  <2>1. cur' \in [Procs -> Held] /\ touched' \in [Procs -> BOOLEAN]
    BY <1>15, MergeTyped DEF Send
  <2> QED BY <1>15, <2>1 DEF Send, Goto, Typed, history
<1>16. ASSUME NEW p \in Procs, Compare(p) PROVE Typed'
  BY <1>16 DEF Compare, Goto, Typed, Lose, Id, Entry
<1>17. ASSUME NEW p \in Procs, Write(p) PROVE Typed'
  <2>1. Id(p) \in Ids
    BY <1>17 DEF Write, Typed, Id, Entry
  <2>2. DOMAIN db' \subseteq Ids
    BY <1>17 DEF Write, Typed
  <2>3. \A i \in DOMAIN db' : db'[i] \in [managed : BOOLEAN, cookie : Held]
    <3>1. cur[p] \in Held
      BY DEF Typed
    <3>2. \A i \in DOMAIN db : [db[i] EXCEPT !.cookie = cur[p]] \in [managed : BOOLEAN, cookie : Held]
      BY <3>1 DEF Typed
    <3>3. ASSUME NEW i \in DOMAIN db' PROVE db'[i] \in [managed : BOOLEAN, cookie : Held]
      <4>1. i \in DOMAIN db /\ db'[i] \in {db[i], [db[i] EXCEPT !.cookie = cur[p]]}
        BY <1>17, <3>3 DEF Write
      <4> QED BY <3>2, <4>1 DEF Typed
    <3> QED BY <3>3
  <2>4. lostBy' \in [Ids -> SUBSET Causes]
    <3>1. Lose(Id(p), "overlap") \/ UNCHANGED lostBy
      BY <1>17 DEF Write
    <3> QED BY <2>1, <3>1 DEF Typed, Lose
  <2>5. /\ pc' \in [Procs -> Labels]
        /\ \A q \in Procs : pc'[q] \notin {"idle", "next"} => snap'[q] \in Entry
    BY <1>17 DEF Write, Goto, Typed
  <2>6. UNCHANGED <<now, lastAt, google, snap, cur, touched, phase, queue, answered, owned>>
    BY <1>17 DEF Write
  <2> QED BY <2>2, <2>3, <2>4, <2>5, <2>6 DEF Typed
<1>18. ASSUME NEW p \in Procs, Rotated(p) PROVE Typed'
  <2>1. CASE Finish(p)
    BY <1>18, <2>1, <1>f DEF Rotated, history
  <2>2. CASE ~Finish(p)
    BY <1>18, <2>2 DEF Rotated, Goto, Typed, history
  <2> QED BY <2>1, <2>2
<1>19. ASSUME NEW p \in Procs, Reread(p) PROVE Typed'
  <2>1. CASE Finish(p)
    BY <1>19, <2>1, <1>f DEF Reread, history
  <2>2. CASE ~Finish(p)
    <3>1. /\ Id(p) \in DOMAIN db /\ Take(p, Read(Id(p)), "send")
          /\ phase' \in [Procs -> Phases]
      BY <1>19, <2>2 DEF Reread, Typed
    <3> QED BY <1>19, <3>1, <1>t, ReadIsEntry DEF Reread, history
  <2> QED BY <2>1, <2>2
<1>20. ASSUME NEW i \in Ids, BrowserStores(i) PROVE Typed'
  BY <1>20 DEF BrowserStores, Spend, Typed, Held
<1>21. ASSUME NEW i \in Ids, Delete(i) PROVE Typed'
  BY <1>21 DEF Delete, Typed, history
<1>22. CASE UNCHANGED vars
  BY <1>22 DEF vars, history, Typed
<1> QED
  BY <1>1, <1>2, <1>3, <1>4, <1>5, <1>6, <1>7, <1>8, <1>9, <1>10, <1>11, <1>12, <1>13, <1>14,
     <1>15, <1>16, <1>17, <1>18, <1>19, <1>20, <1>21, <1>22 DEF Next, Step

(* Every variable keeps its shape in every behaviour.                      *)
THEOREM ShapesKept == Spec => []Typed
  BY TypedInit, TypedStep, PTL DEF Spec

-----------------------------------------------------------------------------
(* A ticket that belongs to a browser                                      *)

(* The flag of a row does not change, and whoever is let through read it.  *)
LEMMA ManagedStep ==
  ASSUME Typed, ManagedInv, [Next]_vars
  PROVE  ManagedInv'
<1>1. CASE StartRound
  BY <1>1 DEF StartRound, Typed, ManagedInv, Id, Goto, Procs, Rotators, Read, history
<1>2. CASE NextAccount
  BY <1>2, SMTT(30) DEF NextAccount, Typed, ManagedInv, Id, RotateAccount, Take, Finish, Goto,
     Procs, Rotators, history
<1>3. CASE Tick
  BY <1>3 DEF Tick, Typed, ManagedInv, Id, history
<1>4. ASSUME NEW a \in Admins, AdminRotates(a) PROVE ManagedInv'
  BY <1>4 DEF AdminRotates, Typed, ManagedInv, Id, Procs, Rotators, Read, RotateAccount, Take,
     Finish, Goto, history
<1>5. ASSUME NEW r \in Requests, StartRequest(r) PROVE ManagedInv'
  BY <1>5, SMTT(30) DEF StartRequest, Typed, ManagedInv, Id, Procs, Rotators, Read,
     RotateAccount, Take, Finish, Goto, history
<1>6. ASSUME NEW c \in Checkers, StartCheck(c) PROVE ManagedInv'
  BY <1>6 DEF StartCheck, Typed, ManagedInv, Id, Take, Goto, Procs, Droppers, Read, history
<1>7. ASSUME NEW g \in Guards, GuardFires(g) PROVE ManagedInv'
  BY <1>7 DEF GuardFires, Typed, ManagedInv, Id, Goto, Procs, Droppers, history
<1>8. ASSUME NEW g \in Guards, GuardReads(g) PROVE ManagedInv'
  BY <1>8 DEF GuardReads, Typed, ManagedInv, Id, Procs, Droppers, Take, Finish, Goto, Read,
     history
<1>9. ASSUME NEW p \in Procs, Gate(p) PROVE ManagedInv'
  BY <1>9 DEF Gate, Typed, ManagedInv, Id, Goto, Exchanged, history
<1>10. ASSUME NEW p \in Procs, Granted(p) PROVE ManagedInv'
  BY <1>10 DEF Granted, Typed, ManagedInv, Id, Goto
<1>11. ASSUME NEW p \in Procs, Refused(p) PROVE ManagedInv'
  BY <1>11 DEF Refused, Typed, ManagedInv, Id, Goto
<1>12. ASSUME NEW p \in Procs, Unanswered(p) PROVE ManagedInv'
  BY <1>12 DEF Unanswered, Typed, ManagedInv, Id, Goto, Exchanged
<1>13. ASSUME NEW p \in Procs, Note(p) PROVE ManagedInv'
  BY <1>13 DEF Note, Typed, ManagedInv, Id, Goto, Exchanged, history
<1>14. ASSUME NEW p \in Procs, Page(p) PROVE ManagedInv'
  BY <1>14 DEF Page, Typed, ManagedInv, Id, Goto, history
<1>15. ASSUME NEW p \in Procs, Send(p) PROVE ManagedInv'
  BY <1>15 DEF Send, Typed, ManagedInv, Id, Goto, history
<1>16. ASSUME NEW p \in Procs, Compare(p) PROVE ManagedInv'
  BY <1>16 DEF Compare, Typed, ManagedInv, Id, Goto
<1>17. ASSUME NEW p \in Procs, Write(p) PROVE ManagedInv'
  BY <1>17 DEF Write, Typed, ManagedInv, Id, Goto
<1>18. ASSUME NEW p \in Procs, Rotated(p) PROVE ManagedInv'
  BY <1>18 DEF Rotated, Typed, ManagedInv, Id, Finish, Goto, history
<1>19. ASSUME NEW p \in Procs, Reread(p) PROVE ManagedInv'
  BY <1>19, SMTT(30) DEF Reread, Typed, ManagedInv, Id, Finish, Take, Goto, Read, history
<1>20. ASSUME NEW i \in Ids, BrowserStores(i) PROVE ManagedInv'
  BY <1>20 DEF BrowserStores, Typed, ManagedInv, Id
<1>21. ASSUME NEW i \in Ids, Delete(i) PROVE ManagedInv'
  BY <1>21 DEF Delete, Typed, ManagedInv, Id, history
<1>22. CASE UNCHANGED vars
  BY <1>22 DEF vars, history, Typed, ManagedInv, Id
<1> QED
  BY <1>1, <1>2, <1>3, <1>4, <1>5, <1>6, <1>7, <1>8, <1>9, <1>10, <1>11, <1>12, <1>13, <1>14,
     <1>15, <1>16, <1>17, <1>18, <1>19, <1>20, <1>21, <1>22 DEF Next, Step


(* No caller of the service exchanges the ticket of a browser's account.   *)
THEOREM BrowserTicketsLeft == Spec => LeftToBrowser
<1>1. Init => ManagedInv
  <2> SUFFICES ASSUME Init PROVE ManagedInv
    OBVIOUS
  <2>1. \A i \in DOMAIN db : db[i].managed <=> i \in Managed
    BY Zenon DEF Init
  <2>2. queue = {} /\ \A p \in Procs : pc[p] = "idle"
    BY DEF Init
  <2> QED BY <2>1, <2>2 DEF ManagedInv
<1>2. ManagedInv /\ Typed /\ [Next]_vars =>
        [\A p \in Procs : pc[p] = "exchange" /\ pc'[p] # "exchange" => Id(p) \notin Managed]_vars
  BY DEF ManagedInv
<1> QED
  BY <1>1, <1>2, ShapesKept, ManagedStep, PTL DEF Spec, LeftToBrowser

-----------------------------------------------------------------------------
(* The identity of a row                                                   *)

(* Identities stored for a row are never forgotten.                        *)
LEMMA OwnStep ==
  ASSUME Typed, OwnInv, [Next]_vars
  PROVE  OwnInv'
<1>1. CASE StartRound
  BY <1>1 DEF StartRound, Typed, OwnInv, OwnIdentity, Id, Goto, Procs, Rotators, Read, history
<1>2. CASE NextAccount
  BY <1>2, SMTT(30) DEF NextAccount, Typed, OwnInv, OwnIdentity, Id, RotateAccount, Take,
     Finish, Goto, Procs, Rotators, history
<1>3. CASE Tick
  BY <1>3 DEF Tick, Typed, OwnInv, OwnIdentity, Id, history
<1>4. ASSUME NEW a \in Admins, AdminRotates(a) PROVE OwnInv'
  BY <1>4, SMTT(30) DEF AdminRotates, Typed, OwnInv, OwnIdentity, Id, Procs, Rotators, Read,
     RotateAccount, Take, Finish, Goto, history
<1>5. ASSUME NEW r \in Requests, StartRequest(r) PROVE OwnInv'
  BY <1>5, SMTT(30) DEF StartRequest, Typed, OwnInv, OwnIdentity, Id, Procs, Rotators, Read,
     RotateAccount, Take, Finish, Goto, history
<1>6. ASSUME NEW c \in Checkers, StartCheck(c) PROVE OwnInv'
  BY <1>6 DEF StartCheck, Typed, OwnInv, OwnIdentity, Id, Take, Goto, Procs, Droppers, Read,
     history
<1>7. ASSUME NEW g \in Guards, GuardFires(g) PROVE OwnInv'
  BY <1>7 DEF GuardFires, Typed, OwnInv, OwnIdentity, Id, Goto, Procs, Droppers, history
<1>8. ASSUME NEW g \in Guards, GuardReads(g) PROVE OwnInv'
  <2>1. g \in Procs
    BY DEF Procs, Droppers
  <2>2. CASE Take(g, Read(Id(g)), "gate")
    BY <1>8, <2>1, <2>2 DEF GuardReads, Typed, OwnInv, OwnIdentity, Id, Take, Goto, history
  <2>3. CASE Finish(g)
    BY <1>8, <2>1, <2>3 DEF GuardReads, Typed, OwnInv, OwnIdentity, Id, Finish, Goto, history
  <2> QED BY <1>8, <2>2, <2>3 DEF GuardReads
<1>9. ASSUME NEW p \in Procs, Gate(p) PROVE OwnInv'
  BY <1>9 DEF Gate, Typed, OwnInv, OwnIdentity, Id, Goto, Exchanged, history
<1>10. ASSUME NEW p \in Procs, Granted(p) PROVE OwnInv'
  BY <1>10 DEF Granted, Typed, OwnInv, OwnIdentity, Id, Goto
<1>11. ASSUME NEW p \in Procs, Refused(p) PROVE OwnInv'
  BY <1>11 DEF Refused, Typed, OwnInv, OwnIdentity, Id, Goto
<1>12. ASSUME NEW p \in Procs, Unanswered(p) PROVE OwnInv'
  BY <1>12 DEF Unanswered, Typed, OwnInv, OwnIdentity, Id, Goto, Exchanged
<1>13. ASSUME NEW p \in Procs, Note(p) PROVE OwnInv'
  BY <1>13 DEF Note, Typed, OwnInv, OwnIdentity, Id, Goto, Exchanged, history
<1>14. ASSUME NEW p \in Procs, Page(p) PROVE OwnInv'
  BY <1>14 DEF Page, Typed, OwnInv, OwnIdentity, Id, Goto, Merge, history
<1>15. ASSUME NEW p \in Procs, Send(p) PROVE OwnInv'
  BY <1>15 DEF Send, Typed, OwnInv, OwnIdentity, Id, Goto, Merge, history
<1>16. ASSUME NEW p \in Procs, Compare(p) PROVE OwnInv'
  BY <1>16 DEF Compare, Typed, OwnInv, OwnIdentity, Id, Goto
<1>17. ASSUME NEW p \in Procs, Write(p) PROVE OwnInv'
  BY <1>17, SMTT(30) DEF Write, Typed, OwnInv, OwnIdentity, Id, Goto
<1>18. ASSUME NEW p \in Procs, Rotated(p) PROVE OwnInv'
  BY <1>18, SMTT(30) DEF Rotated, Typed, OwnInv, OwnIdentity, Id, Finish, Goto, history
<1>19. ASSUME NEW p \in Procs, Reread(p) PROVE OwnInv'
  <2>1. UNCHANGED <<db, google, queue, owned>>
    BY <1>19 DEF Reread, history
  <2>2. \A q \in Procs \ {p} : UNCHANGED <<pc[q], snap[q], cur[q]>>
    BY <1>19 DEF Reread, Take, Finish, Goto, Typed
  <2>3. \/ pc'[p] \in {"idle", "next"}
        \/ pc'[p] = "send" /\ Id(p) \in DOMAIN db /\ Id(p)' = Id(p) /\ cur'[p] = db[Id(p)].cookie
    <3>1. CASE Finish(p)
      BY <3>1 DEF Finish, Goto, Typed
    <3>2. CASE Id(p) \in DOMAIN db /\ Take(p, Read(Id(p)), "send")
      BY <3>2 DEF Take, Read, Goto, Typed, Id
    <3> QED BY <1>19, <3>1, <3>2 DEF Reread
  <2> QED BY <2>1, <2>2, <2>3 DEF OwnInv, OwnIdentity, Id
<1>20. ASSUME NEW i \in Ids, BrowserStores(i) PROVE OwnInv'
  BY <1>20 DEF BrowserStores, Typed, OwnInv, OwnIdentity, Id
<1>21. ASSUME NEW i \in Ids, Delete(i) PROVE OwnInv'
  BY <1>21 DEF Delete, Typed, OwnInv, OwnIdentity, Id, history
<1>22. CASE UNCHANGED vars
  BY <1>22 DEF vars, history, Typed, OwnInv, OwnIdentity, Id
<1> QED
  BY <1>1, <1>2, <1>3, <1>4, <1>5, <1>6, <1>7, <1>8, <1>9, <1>10, <1>11, <1>12, <1>13, <1>14,
     <1>15, <1>16, <1>17, <1>18, <1>19, <1>20, <1>21, <1>22 DEF Next, Step


(* No row carries an identity that was not stored for it.                  *)
THEOREM IdentityKept == Spec => []OwnIdentity
<1>1. Init => OwnInv
  <2> SUFFICES ASSUME Init PROVE OwnInv
    OBVIOUS
  <2>1. \A i \in DOMAIN db : db[i].cookie = First /\ owned[i] = {Own}
    BY DEF Init
  <2>2. \A p \in Procs : pc[p] = "idle"
    BY DEF Init
  <2> QED BY <2>1, <2>2 DEF OwnInv, OwnIdentity, First
<1>2. OwnInv => OwnIdentity
  BY DEF OwnInv
<1> QED
  BY <1>1, <1>2, ShapesKept, OwnStep, PTL DEF Spec

-----------------------------------------------------------------------------
(* The distance between two exchanges of one caller                        *)

(* Only the exchange, its note and the clock matter.                       *)
LEMMA SpaceFrame ==
  ASSUME SpaceInv, UNCHANGED <<now, lastAt, answered>>,
         \A q \in Procs : pc[q] = "note" \/ pc'[q] = "exchange" =>
           pc'[q] = pc[q] /\ snap'[q] = snap[q]
  PROVE  SpaceInv'
  BY DEF SpaceInv, Elapsed, Id

(* An answer is noted before its caller can come back to the gate.         *)
LEMMA SpaceStep ==
  ASSUME Typed, SpaceInv, [Next]_vars
  PROVE  SpaceInv'
<1>1. CASE StartRound
  BY <1>1, SpaceFrame DEF StartRound, Typed, Goto, Procs, Rotators, Read, history
<1>2. CASE NextAccount
  BY <1>2, SpaceFrame DEF NextAccount, Typed, RotateAccount, Take, Finish, Goto, Procs,
     Rotators, history
<1>3. CASE Tick
  <2>1. \A x \in Moment : x # None => x \in Nat
    BY DEF Moment
  <2>2. \A p \in Procs, i \in Ids : answered[p][i] \in Moment /\ lastAt[i] \in Moment
    BY DEF Typed
  <2>3. ASSUME NEW p \in Procs, pc[p] = "exchange" PROVE Elapsed(answered[p][Id(p)], MinInterval)'
    <3>1. Id(p) \in Ids
      BY <2>3 DEF Typed, Id, Entry
    <3>2. Elapsed(answered[p][Id(p)], MinInterval)
      BY <2>3 DEF SpaceInv
    <3> QED
      BY <1>3, <2>1, <2>2, <3>1, <3>2, IntervalAssumption DEF Tick, Elapsed, Typed, Id, history
  <2>4. now' = now + 1 /\ UNCHANGED <<lastAt, answered, pc, snap>>
    BY <1>3 DEF Tick, history
  <2>5. \A i \in Ids : lastAt[i] # None => lastAt[i] <= now'
    BY <2>1, <2>2, <2>4 DEF SpaceInv, Typed
  <2>6. \A p \in Procs, i \in Ids : answered[p][i] # None => answered[p][i] <= now'
    BY <2>1, <2>2, <2>4 DEF SpaceInv, Typed
  <2> QED BY <2>3, <2>4, <2>5, <2>6 DEF SpaceInv, Id
<1>4. ASSUME NEW a \in Admins, AdminRotates(a) PROVE SpaceInv'
  BY <1>4, SpaceFrame DEF AdminRotates, Typed, Procs, Rotators, Read, RotateAccount, Take,
     Finish, Goto, history
<1>5. ASSUME NEW r \in Requests, StartRequest(r) PROVE SpaceInv'
  BY <1>5, SpaceFrame DEF StartRequest, Typed, Procs, Rotators, Read, RotateAccount, Take,
     Finish, Goto, history
<1>6. ASSUME NEW c \in Checkers, StartCheck(c) PROVE SpaceInv'
  BY <1>6, SpaceFrame DEF StartCheck, Typed, Take, Goto, Procs, Droppers, Read, history
<1>7. ASSUME NEW g \in Guards, GuardFires(g) PROVE SpaceInv'
  BY <1>7, SpaceFrame DEF GuardFires, Typed, Goto, Procs, Droppers, history
<1>8. ASSUME NEW g \in Guards, GuardReads(g) PROVE SpaceInv'
  BY <1>8, SpaceFrame DEF GuardReads, Typed, Procs, Droppers, Take, Finish, Goto, Read, history
<1>9. ASSUME NEW p \in Procs, Gate(p) PROVE SpaceInv'
  <2>1. /\ UNCHANGED <<now, lastAt, answered, snap>>
        /\ \A q \in Procs \ {p} : pc'[q] = pc[q]
        /\ pc[p] = "gate" /\ pc'[p] # "note"
        /\ pc'[p] = "exchange" => Elapsed(lastAt[Id(p)], MinInterval)
    BY <1>9 DEF Gate, Goto, Exchanged, Typed, history
  <2>2. Id(p) \in Ids
    BY <2>1 DEF Typed, Id, Entry
  <2>3. /\ answered[p][Id(p)] \in Moment /\ lastAt[Id(p)] \in Moment
        /\ answered[p][Id(p)] # None =>
             lastAt[Id(p)] # None /\ answered[p][Id(p)] <= lastAt[Id(p)]
    BY <2>1, <2>2 DEF SpaceInv, Typed
  <2>4. Elapsed(lastAt[Id(p)], MinInterval) => Elapsed(answered[p][Id(p)], MinInterval)
    BY <2>3, IntervalAssumption DEF Elapsed, Moment, Typed
  <2> QED BY <2>1, <2>4 DEF SpaceInv, Elapsed, Id
<1>10. ASSUME NEW p \in Procs, Granted(p) PROVE SpaceInv'
  BY <1>10, IntervalAssumption, NoneAssumption
  DEF Granted, Typed, SpaceInv, Moment, Elapsed, Id, Goto
<1>11. ASSUME NEW p \in Procs, Refused(p) PROVE SpaceInv'
  BY <1>11, IntervalAssumption, NoneAssumption
  DEF Refused, Typed, SpaceInv, Moment, Elapsed, Id, Goto
<1>12. ASSUME NEW p \in Procs, Unanswered(p) PROVE SpaceInv'
  BY <1>12, IntervalAssumption, NoneAssumption
  DEF Unanswered, Typed, SpaceInv, Moment, Elapsed, Id, Goto, Exchanged
<1>13. ASSUME NEW p \in Procs, Note(p) PROVE SpaceInv'
  BY <1>13, IntervalAssumption, NoneAssumption
  DEF Note, Typed, SpaceInv, Moment, Elapsed, Id, Goto, Exchanged, history
<1>14. ASSUME NEW p \in Procs, Page(p) PROVE SpaceInv'
  BY <1>14, SpaceFrame DEF Page, Typed, Goto, history
<1>15. ASSUME NEW p \in Procs, Send(p) PROVE SpaceInv'
  BY <1>15, SpaceFrame DEF Send, Typed, Goto, history
<1>16. ASSUME NEW p \in Procs, Compare(p) PROVE SpaceInv'
  BY <1>16, SpaceFrame DEF Compare, Typed, Goto
<1>17. ASSUME NEW p \in Procs, Write(p) PROVE SpaceInv'
  BY <1>17, SpaceFrame DEF Write, Typed, Goto
<1>18. ASSUME NEW p \in Procs, Rotated(p) PROVE SpaceInv'
  BY <1>18, SpaceFrame DEF Rotated, Typed, Finish, Goto, history
<1>19. ASSUME NEW p \in Procs, Reread(p) PROVE SpaceInv'
  BY <1>19, SpaceFrame DEF Reread, Typed, Finish, Take, Goto, Read, history
<1>20. ASSUME NEW i \in Ids, BrowserStores(i) PROVE SpaceInv'
  BY <1>20, SpaceFrame DEF BrowserStores, Typed
<1>21. ASSUME NEW i \in Ids, Delete(i) PROVE SpaceInv'
  BY <1>21, SpaceFrame DEF Delete, Typed, history
<1>22. CASE UNCHANGED vars
  BY <1>22, SpaceFrame DEF vars, history, Typed
<1> QED
  BY <1>1, <1>2, <1>3, <1>4, <1>5, <1>6, <1>7, <1>8, <1>9, <1>10, <1>11, <1>12, <1>13, <1>14,
     <1>15, <1>16, <1>17, <1>18, <1>19, <1>20, <1>21, <1>22 DEF Next, Step


(* No caller gets two answers for one account within MinInterval.          *)
THEOREM CallersSpaced == Spec => SpacedPerCaller
<1>1. Init => SpaceInv
  BY IdsAssumption, NoneAssumption DEF Init, SpaceInv
<1>2. SpaceInv /\ Typed /\ [Next]_vars =>
        [\A p \in Procs : pc[p] = "exchange" /\ pc'[p] = "note" =>
           Elapsed(answered[p][Id(p)], MinInterval)]_vars
  BY DEF SpaceInv
<1> QED
  BY <1>1, <1>2, ShapesKept, SpaceStep, PTL DEF Spec, SpacedPerCaller

-----------------------------------------------------------------------------
(* Where the current ticket is                                             *)

LEMMA MergeKeeps ==
  ASSUME Typed, NEW p \in Procs, Merge(p)
  PROVE  \A q \in Procs : cur'[q].ticket = cur[q].ticket
  BY DEF Merge, Typed, Held

(* Tickets only grow, and what is held was given out.                      *)
LEMMA GivenOutStep ==
  ASSUME Typed, GivenOut, [Next]_vars
  PROVE  GivenOut'
<1>1. CASE StartRound
  BY <1>1 DEF StartRound, Typed, GivenOut, Id, Entry, Held, Goto, Procs, Rotators, Read,
     history
<1>2. CASE NextAccount
  BY <1>2, SMTT(30) DEF NextAccount, Typed, GivenOut, Id, Entry, Held, RotateAccount, Take,
     Finish, Goto, Procs, Rotators, history
<1>3. CASE Tick
  BY <1>3 DEF Tick, Typed, GivenOut, Id, Entry, Held, history
<1>4. ASSUME NEW a \in Admins, AdminRotates(a) PROVE GivenOut'
  BY <1>4, SMTT(30) DEF AdminRotates, Typed, GivenOut, Id, Entry, Held, Procs, Rotators, Read,
     RotateAccount, Take, Finish, Goto, history
<1>5. ASSUME NEW r \in Requests, StartRequest(r) PROVE GivenOut'
  BY <1>5, SMTT(30) DEF StartRequest, Typed, GivenOut, Id, Entry, Held, Procs, Rotators, Read,
     RotateAccount, Take, Finish, Goto, history
<1>6. ASSUME NEW c \in Checkers, StartCheck(c) PROVE GivenOut'
  BY <1>6 DEF StartCheck, Typed, GivenOut, Id, Entry, Held, Take, Goto, Procs, Droppers, Read,
     history
<1>7. ASSUME NEW g \in Guards, GuardFires(g) PROVE GivenOut'
  BY <1>7 DEF GuardFires, Typed, GivenOut, Id, Entry, Held, Goto, Procs, Droppers, history
<1>8. ASSUME NEW g \in Guards, GuardReads(g) PROVE GivenOut'
  BY <1>8, SMTT(30) DEF GuardReads, Typed, GivenOut, Id, Entry, Held, Procs, Droppers, Take,
     Finish, Goto, Read, history
<1>9. ASSUME NEW p \in Procs, Gate(p) PROVE GivenOut'
  BY <1>9 DEF Gate, Typed, GivenOut, Id, Entry, Held, Goto, Exchanged, history
<1>10. ASSUME NEW p \in Procs, Granted(p) PROVE GivenOut'
  BY <1>10 DEF Granted, Typed, GivenOut, Id, Entry, Held, Goto, Spend
<1>11. ASSUME NEW p \in Procs, Refused(p) PROVE GivenOut'
  BY <1>11 DEF Refused, Typed, GivenOut, Id, Entry, Held, Goto
<1>12. ASSUME NEW p \in Procs, Unanswered(p) PROVE GivenOut'
  <2>0. Id(p) \in Ids /\ \A j \in Ids : google[j] \in Nat
    BY <1>12 DEF Unanswered, Typed, Id, Entry
  <2>1. \A j \in Ids : google[j] \in Nat /\ google[j] <= google'[j]
    <3>1. CASE UNCHANGED google
      BY <2>0, <3>1
    <3>2. CASE google' = [google EXCEPT ![Id(p)] = google[Id(p)] + 1]
      BY <2>0, <3>2 DEF Typed
    <3> QED BY <1>12, <3>1, <3>2 DEF Unanswered, Spend
  <2>2. pc[p] = "exchange" /\ UNCHANGED <<db, queue, snap, cur>>
    BY <1>12 DEF Unanswered
  <2>3. \A q \in Procs : pc'[q] \notin {"idle", "next", "refetch"} =>
          pc[q] \notin {"idle", "next", "refetch"}
    BY <1>12 DEF Unanswered, Goto, Typed
  <2>4. \A t \in Nat, j \in Ids : t <= google[j] => t <= google'[j]
    <3>1. ASSUME NEW t \in Nat, NEW j \in Ids, t <= google[j] PROVE t <= google'[j]
      <4>1. google'[j] \in Nat
        BY <1>12 DEF Unanswered, Spend, Typed
      <4> QED BY <2>1, <3>1, <4>1
    <3> QED BY <3>1
  <2>5. /\ \A i \in DOMAIN db : i \in Ids /\ db[i].cookie.ticket \in Nat
        /\ \A account \in queue : account.id \in Ids /\ account.cookie.ticket \in Nat
        /\ \A q \in Procs : pc[q] \notin {"idle", "next"} => Id(q) \in Ids /\ cur[q].ticket \in Nat
    BY DEF Typed, Entry, Held, Id
  <2> QED BY <2>2, <2>3, <2>4, <2>5 DEF GivenOut, Id
<1>13. ASSUME NEW p \in Procs, Note(p) PROVE GivenOut'
  BY <1>13 DEF Note, Typed, GivenOut, Id, Entry, Held, Goto, Exchanged, history
<1>14. ASSUME NEW p \in Procs, Page(p) PROVE GivenOut'
  BY <1>14 DEF Page, Typed, GivenOut, Id, Entry, Held, Goto, Merge, history
<1>15. ASSUME NEW p \in Procs, Send(p) PROVE GivenOut'
  <2>1. \A q \in Procs : cur'[q].ticket = cur[q].ticket
    BY <1>15, MergeKeeps DEF Send
  <2>2. \A q \in Procs : pc'[q] \notin {"idle", "next", "refetch"} =>
          pc[q] \notin {"idle", "next", "refetch"}
    BY <1>15 DEF Send, Goto, Typed
  <2>3. UNCHANGED <<db, google, queue, snap>>
    BY <1>15 DEF Send
  <2> QED BY <2>1, <2>2, <2>3 DEF GivenOut, Id
<1>16. ASSUME NEW p \in Procs, Compare(p) PROVE GivenOut'
  BY <1>16 DEF Compare, Typed, GivenOut, Id, Entry, Held, Goto
<1>17. ASSUME NEW p \in Procs, Write(p) PROVE GivenOut'
  <2>1. UNCHANGED <<google, queue, snap, cur>> /\ pc[p] = "write"
    BY <1>17 DEF Write
  <2>2. \A q \in Procs : pc'[q] \notin {"idle", "next", "refetch"} =>
          pc[q] \notin {"idle", "next", "refetch"}
    BY <1>17 DEF Write, Goto, Typed
  <2>3. \A i \in DOMAIN db' : i \in DOMAIN db /\ (db'[i] = db[i] \/ (i = Id(p) /\ db'[i].cookie = cur[p]))
    BY <1>17 DEF Write, Typed
  <2> QED BY <2>1, <2>2, <2>3 DEF GivenOut, Id
<1>18. ASSUME NEW p \in Procs, Rotated(p) PROVE GivenOut'
  <2>1. UNCHANGED <<db, google, queue>>
    BY <1>18 DEF Rotated
  <2>2. \A q \in Procs \ {p} : UNCHANGED <<pc[q], snap[q], cur[q]>>
    BY <1>18 DEF Rotated, Finish, Goto, Typed
  <2>3. \/ pc'[p] \in {"idle", "next"}
        \/ pc[p] = "rotated" /\ UNCHANGED <<snap, cur>>
    BY <1>18 DEF Rotated, Finish, Goto, Typed
  <2> QED BY <2>1, <2>2, <2>3 DEF GivenOut, Id
<1>19. ASSUME NEW p \in Procs, Reread(p) PROVE GivenOut'
  <2>1. UNCHANGED <<db, google, queue, owned>>
    BY <1>19 DEF Reread, history
  <2>2. \A q \in Procs \ {p} : UNCHANGED <<pc[q], snap[q], cur[q]>>
    BY <1>19 DEF Reread, Take, Finish, Goto, Typed
  <2>3. \/ pc'[p] \in {"idle", "next"}
        \/ pc'[p] = "send" /\ Id(p) \in DOMAIN db /\ Id(p)' = Id(p) /\ cur'[p] = db[Id(p)].cookie
    <3>1. CASE Finish(p)
      BY <3>1 DEF Finish, Goto, Typed
    <3>2. CASE Id(p) \in DOMAIN db /\ Take(p, Read(Id(p)), "send")
      BY <3>2 DEF Take, Read, Goto, Typed, Id
    <3> QED BY <1>19, <3>1, <3>2 DEF Reread
  <2> QED BY <2>1, <2>2, <2>3 DEF GivenOut, Id
<1>20. ASSUME NEW i \in Ids, BrowserStores(i) PROVE GivenOut'
  BY <1>20 DEF BrowserStores, Typed, GivenOut, Id, Entry, Held, Spend
<1>21. ASSUME NEW i \in Ids, Delete(i) PROVE GivenOut'
  BY <1>21 DEF Delete, Typed, GivenOut, Id, Entry, Held, history
<1>22. CASE UNCHANGED vars
  BY <1>22 DEF vars, history, Typed, GivenOut, Id, Entry, Held
<1> QED
  BY <1>1, <1>2, <1>3, <1>4, <1>5, <1>6, <1>7, <1>8, <1>9, <1>10, <1>11, <1>12, <1>13, <1>14,
     <1>15, <1>16, <1>17, <1>18, <1>19, <1>20, <1>21, <1>22 DEF Next, Step


(* Rows do not become older, unless that is on record; whoever has read    *)
(* one either keeps what it read or has just read it.                      *)
RowsGrow ==
  \A i \in Ids : Unlost(i)' => Unlost(i) /\ db[i].cookie.ticket <= db'[i].cookie.ticket
Keeps(q) ==
  /\ pc[q] \in Before /\ snap'[q] = snap[q]
  /\ touched'[q] \/ (~touched[q] /\ cur'[q].ticket = cur[q].ticket)
Takes(q) ==
  /\ Unlost(Id(q))' => snap'[q].cookie.ticket <= db'[Id(q)'].cookie.ticket
  /\ cur'[q].ticket = snap'[q].cookie.ticket
Reading == \A q \in Procs : pc'[q] \in Before => Keeps(q) \/ Takes(q)

LEMMA RowsSame ==
  ASSUME Typed, UNCHANGED db,
         UNCHANGED lostBy \/ \E i \in Ids, cause \in Causes : Lose(i, cause)
  PROVE  RowsGrow
<1>1. \A i \in DOMAIN db : db[i].cookie.ticket \in Nat
  BY DEF Typed, Held
<1>2. \A i \in Ids : lostBy'[i] = {} => lostBy[i] = {}
  BY DEF Lose, Typed
<1> QED BY <1>1, <1>2 DEF RowsGrow, Unlost

LEMMA OthersKeep ==
  ASSUME Typed, NEW q \in Procs, UNCHANGED <<pc[q], snap[q], cur[q], touched[q]>>,
         pc'[q] \in Before
  PROVE  Keeps(q)
<1>1. touched[q] \in BOOLEAN
  BY DEF Typed
<1>2. CASE touched[q]
  BY <1>2 DEF Keeps
<1>3. CASE ~touched[q]
  BY <1>3 DEF Keeps
<1> QED BY <1>1, <1>2, <1>3

LEMMA TakeReads ==
  ASSUME Typed, NEW p \in Procs, NEW i \in DOMAIN db, NEW label \in Labels,
         Take(p, Read(i), label), UNCHANGED <<db, lostBy>>
  PROVE  Reading
<1>1. Takes(p)
  <2>1. snap'[p] = Read(i) /\ cur'[p] = Read(i).cookie
    BY DEF Take, Typed
  <2>2. Id(p)' = i /\ snap'[p].cookie = db[i].cookie /\ db[i].cookie.ticket \in Nat
    BY <2>1 DEF Id, Read, Typed, Held
  <2> QED BY <2>1, <2>2 DEF Takes, Read
<1>2. ASSUME NEW q \in Procs \ {p}, pc'[q] \in Before PROVE Keeps(q) \/ Takes(q)
  <2>1. UNCHANGED <<pc[q], snap[q], cur[q], touched[q]>>
    BY DEF Take, Goto, Typed
  <2> QED BY <1>2, <2>1, OthersKeep
<1> QED BY <1>1, <1>2 DEF Reading

LEMMA ReadFrame ==
  ASSUME Typed, Typed', ReadInv, RowsGrow, Reading, queue' \subseteq queue
  PROVE  ReadInv'
<1>1. ASSUME NEW i \in Ids, NEW t \in Nat, Unlost(i) => t <= db[i].cookie.ticket, Unlost(i)'
      PROVE  t <= db'[i].cookie.ticket
  <2>1. db[i].cookie.ticket \in Nat /\ db'[i].cookie.ticket \in Nat
    BY <1>1 DEF RowsGrow, Unlost, Typed, Held
  <2> QED BY <1>1, <2>1 DEF RowsGrow
<1>2. ASSUME NEW account \in queue', Unlost(account.id)'
      PROVE  account.cookie.ticket <= db'[account.id].cookie.ticket
  <2>1. account.id \in Ids /\ account.cookie.ticket \in Nat
    BY DEF Typed, Entry, Held
  <2> QED BY <1>1, <1>2, <2>1 DEF ReadInv
<1>3. ASSUME NEW q \in Procs, pc'[q] \in Before, Keeps(q)
      PROVE  /\ Unlost(Id(q))' => snap'[q].cookie.ticket <= db'[Id(q)'].cookie.ticket
             /\ ~touched'[q] => cur'[q].ticket = snap'[q].cookie.ticket
  <2>1. Id(q)' = Id(q) /\ Id(q) \in Ids /\ snap[q].cookie.ticket \in Nat
    BY <1>3 DEF Keeps, Typed, Entry, Held, Id, Before
  <2> QED BY <1>1, <1>3, <2>1 DEF Keeps, ReadInv
<1> QED BY <1>2, <1>3 DEF ReadInv, Reading, Takes, Id

(* A row that becomes older than what was read of it has lost its ticket.  *)
LEMMA ReadStep ==
  ASSUME Typed, Typed', ReadInv, [Next]_vars
  PROVE  ReadInv'
<1>1. CASE StartRound
  BY <1>1 DEF StartRound, history, Typed, ReadInv, Unlost, Before, Id, Entry, Held, Goto, Procs,
     Rotators, Read
<1>2. CASE NextAccount
  <2>1. RowsGrow
    BY <1>2, RowsSame DEF NextAccount, history
  <2>2. Reading
    BY <1>2 DEF NextAccount, history, RotateAccount, Take, Finish, Goto, Procs, Rotators, Typed,
       Reading, Keeps, Takes, Before, Unlost, Id, ReadInv
  <2>3. queue' \subseteq queue
    BY <1>2 DEF NextAccount, history
  <2> QED BY <2>1, <2>2, <2>3, ReadFrame
<1>3. CASE Tick
  <2>1. RowsGrow
    BY <1>3, RowsSame DEF Tick, history
  <2>2. Reading
    BY <1>3 DEF Tick, history, Typed, Reading, Keeps, Takes, Before, Unlost, Id
  <2>3. queue' \subseteq queue
    BY <1>3 DEF Tick, history
  <2> QED BY <2>1, <2>2, <2>3, ReadFrame
<1>4. ASSUME NEW a \in Admins, AdminRotates(a) PROVE ReadInv'
  <2>1. a \in Procs
    BY DEF Procs, Rotators
  <2>2. PICK i \in DOMAIN db : RotateAccount(a, Read(i))
    BY <1>4 DEF AdminRotates
  <2>3. UNCHANGED <<db, lostBy, queue>>
    BY <1>4 DEF AdminRotates, history
  <2>4. Take(a, Read(i), "gate") => Reading
    BY <2>1, <2>3, TakeReads DEF Labels
  <2>5. Finish(a) => Reading
    BY <2>1 DEF Finish, Goto, Reading, Keeps, Before, Typed
  <2> QED BY <2>2, <2>3, <2>4, <2>5, RowsSame, ReadFrame DEF RotateAccount
<1>5. ASSUME NEW r \in Requests, StartRequest(r) PROVE ReadInv'
  <2>1. r \in Procs
    BY DEF Procs, Rotators
  <2>2. PICK i \in DOMAIN db : Take(r, Read(i), "send") \/ RotateAccount(r, Read(i))
    BY <1>5 DEF StartRequest
  <2>3. UNCHANGED <<db, lostBy, queue>>
    BY <1>5 DEF StartRequest, history
  <2>4. Take(r, Read(i), "send") \/ Take(r, Read(i), "gate") => Reading
    BY <2>1, <2>3, TakeReads DEF Labels
  <2>5. Finish(r) => Reading
    BY <2>1 DEF Finish, Goto, Reading, Keeps, Before, Typed
  <2> QED BY <2>2, <2>3, <2>4, <2>5, RowsSame, ReadFrame DEF RotateAccount
<1>6. ASSUME NEW c \in Checkers, StartCheck(c) PROVE ReadInv'
  <2>1. c \in Procs
    BY DEF Procs, Droppers
  <2>2. PICK i \in DOMAIN db : Take(c, Read(i), "gate")
    BY <1>6 DEF StartCheck
  <2>3. UNCHANGED <<db, lostBy, queue>>
    BY <1>6 DEF StartCheck, history
  <2> QED BY <2>1, <2>2, <2>3, TakeReads, RowsSame, ReadFrame DEF Labels
<1>7. ASSUME NEW g \in Guards, GuardFires(g) PROVE ReadInv'
  <2>1. RowsGrow
    BY <1>7, RowsSame DEF GuardFires, history
  <2>2. Reading
    BY <1>7 DEF GuardFires, history, Goto, Procs, Droppers, Typed, Reading, Keeps, Takes, Before,
       Unlost, Id
  <2>3. queue' \subseteq queue
    BY <1>7 DEF GuardFires, history
  <2> QED BY <2>1, <2>2, <2>3, ReadFrame
<1>8. ASSUME NEW g \in Guards, GuardReads(g) PROVE ReadInv'
  <2>1. g \in Procs
    BY DEF Procs, Droppers
  <2>2. UNCHANGED <<db, lostBy, queue>>
    BY <1>8 DEF GuardReads, history
  <2>3. Id(g) \in DOMAIN db /\ Take(g, Read(Id(g)), "gate") => Reading
    BY <2>1, <2>2, TakeReads DEF Labels
  <2>4. Finish(g) => Reading
    BY <2>1 DEF Finish, Goto, Reading, Keeps, Before, Typed
  <2> QED BY <1>8, <2>2, <2>3, <2>4, RowsSame, ReadFrame DEF GuardReads
<1>9. ASSUME NEW p \in Procs, Gate(p) PROVE ReadInv'
  <2>1. RowsGrow
    BY <1>9, RowsSame DEF Gate, history
  <2>2. Reading
    BY <1>9 DEF Gate, history, Goto, Exchanged, Typed, Reading, Keeps, Takes, Before, Unlost, Id
  <2>3. queue' \subseteq queue
    BY <1>9 DEF Gate, history
  <2> QED BY <2>1, <2>2, <2>3, ReadFrame
<1>10. ASSUME NEW p \in Procs, Granted(p) PROVE ReadInv'
  <2>1. Id(p) \in Ids
    BY <1>10 DEF Granted, Typed, Id, Entry
  <2>2. RowsGrow
    BY <1>10, <2>1, RowsSame DEF Granted, Causes
  <2>3. Keeps(p)
    <3>1. touched' = [touched EXCEPT ![p] = TRUE] /\ pc[p] = "exchange" /\ snap' = snap
      BY <1>10 DEF Granted
    <3>2. touched'[p]
      BY <3>1 DEF Typed
    <3>3. pc[p] \in Before /\ snap'[p] = snap[p]
      BY <3>1 DEF Before
    <3> QED BY <3>2, <3>3, Zenon DEF Keeps
  <2>4. \A q \in Procs \ {p} : UNCHANGED <<pc[q], snap[q], cur[q], touched[q]>>
    BY <1>10 DEF Granted, Goto, Typed
  <2>5. Reading
    BY <2>3, <2>4, OthersKeep DEF Reading
  <2> QED BY <1>10, <2>2, <2>5, ReadFrame DEF Granted
<1>11. ASSUME NEW p \in Procs, Refused(p) PROVE ReadInv'
  <2>1. RowsGrow
    BY <1>11, RowsSame DEF Refused
  <2>2. Reading
    BY <1>11 DEF Refused, Goto, Typed, Reading, Keeps, Takes, Before, Unlost, Id
  <2>3. queue' \subseteq queue
    BY <1>11 DEF Refused
  <2> QED BY <2>1, <2>2, <2>3, ReadFrame
<1>12. ASSUME NEW p \in Procs, Unanswered(p) PROVE ReadInv'
  <2>1. RowsGrow
    BY <1>12, RowsSame DEF Unanswered, Spend, Typed, Id, Entry, Causes
  <2>2. Reading
    BY <1>12 DEF Unanswered, Goto, Exchanged, Typed, Reading, Keeps, Takes, Before, Unlost, Id
  <2>3. queue' \subseteq queue
    BY <1>12 DEF Unanswered
  <2> QED BY <2>1, <2>2, <2>3, ReadFrame
<1>13. ASSUME NEW p \in Procs, Note(p) PROVE ReadInv'
  <2>1. RowsGrow
    BY <1>13, RowsSame DEF Note, history
  <2>2. Reading
    BY <1>13 DEF Note, history, Goto, Exchanged, Typed, Reading, Keeps, Takes, Before, Unlost, Id
  <2>3. queue' \subseteq queue
    BY <1>13 DEF Note, history
  <2> QED BY <2>1, <2>2, <2>3, ReadFrame
<1>14. ASSUME NEW p \in Procs, Page(p) PROVE ReadInv'
  BY <1>14 DEF Page, history, Typed, ReadInv, Unlost, Before, Id, Entry, Held, Goto, Merge
<1>15. ASSUME NEW p \in Procs, Send(p) PROVE ReadInv'
  <2>1. RowsGrow
    BY <1>15, RowsSame DEF Send, history
  <2>2. Reading
    <3>1. \A q \in Procs \ {p} : UNCHANGED <<pc[q], snap[q], cur[q], touched[q]>>
      BY <1>15 DEF Send, Goto, Merge, Typed
    <3>2. pc'[p] \notin Before
      BY <1>15 DEF Send, Goto, Before, Typed
    <3> QED BY <3>1, <3>2, OthersKeep DEF Reading
  <2> QED BY <1>15, <2>1, <2>2, ReadFrame DEF Send
<1>16. ASSUME NEW p \in Procs, Compare(p) PROVE ReadInv'
  <2>1. RowsGrow
    BY <1>16, RowsSame DEF Compare, Spend, Typed, Id, Entry, Causes
  <2>2. Reading
    BY <1>16 DEF Compare, Goto, Typed, Reading, Keeps, Takes, Before, Unlost, Id
  <2>3. queue' \subseteq queue
    BY <1>16 DEF Compare
  <2> QED BY <2>1, <2>2, <2>3, ReadFrame
<1>17. ASSUME NEW p \in Procs, Write(p) PROVE ReadInv'
  <2>1. RowsGrow
    <3>1. cur[p].ticket \in Nat
      BY DEF Typed, Held
    <3>2. ASSUME NEW i \in Ids, Unlost(i)'
          PROVE  Unlost(i) /\ db[i].cookie.ticket <= db'[i].cookie.ticket
      <4>1. i \in DOMAIN db /\ db[i].cookie.ticket \in Nat
        BY <1>17, <3>2 DEF Write, Unlost, Typed, Held
      <4>2. CASE i # Id(p)
        BY <1>17, <3>2, <4>1, <4>2 DEF Write, Lose, Unlost, Typed
      <4>3. CASE i = Id(p)
        <5>1. db'[i].cookie = cur[p] /\ db'[i].managed = db[i].managed
          BY <1>17, <4>1, <4>3 DEF Write, Typed
        <5>2. ~(cur[p].ticket < db[i].cookie.ticket) /\ UNCHANGED lostBy
          <6>1. lostBy'[i] = {}
            BY <3>2 DEF Unlost
          <6>2. ~Lose(i, "overlap")
            BY <6>1, ZenonT(60) DEF Lose, Typed
          <6> QED BY <1>17, <4>1, <4>3, <6>2 DEF Write
        <5>3. Unlost(i)
          BY <3>2, <4>1, <5>1, <5>2, Zenon DEF Unlost
        <5>4. db[i].cookie.ticket <= cur[p].ticket
          BY <3>1, <4>1, <5>2
        <5> QED BY <5>1, <5>3, <5>4
      <4> QED BY <4>2, <4>3
    <3> QED BY <3>2 DEF RowsGrow
  <2>2. Reading
    <3>1. \A q \in Procs \ {p} : UNCHANGED <<pc[q], snap[q], cur[q], touched[q]>>
      BY <1>17 DEF Write, Goto, Typed
    <3>2. pc'[p] \notin Before
      BY <1>17 DEF Write, Goto, Before, Typed
    <3> QED BY <3>1, <3>2, OthersKeep DEF Reading
  <2> QED BY <1>17, <2>1, <2>2, ReadFrame DEF Write
<1>18. ASSUME NEW p \in Procs, Rotated(p) PROVE ReadInv'
  <2>1. \A q \in Procs \ {p} : UNCHANGED <<pc[q], snap[q], cur[q], touched[q]>>
    BY <1>18 DEF Rotated, Finish, Goto, Typed
  <2>2. pc'[p] \notin Before
    BY <1>18 DEF Rotated, Finish, Goto, Before, Typed
  <2>3. Reading
    BY <2>1, <2>2, OthersKeep DEF Reading
  <2>4. RowsGrow /\ queue' \subseteq queue
    BY <1>18, RowsSame DEF Rotated, history
  <2> QED BY <2>3, <2>4, ReadFrame
<1>19. ASSUME NEW p \in Procs, Reread(p) PROVE ReadInv'
  <2>1. UNCHANGED <<db, lostBy, queue>>
    BY <1>19 DEF Reread, history
  <2>2. CASE Finish(p)
    <3>1. \A q \in Procs \ {p} : UNCHANGED <<pc[q], snap[q], cur[q], touched[q]>>
      BY <2>2 DEF Finish, Goto, Typed
    <3>2. pc'[p] \notin Before
      BY <2>2 DEF Finish, Goto, Before, Typed
    <3> QED BY <2>1, <3>1, <3>2, OthersKeep, RowsSame, ReadFrame DEF Reading
  <2>3. CASE Id(p) \in DOMAIN db /\ Take(p, Read(Id(p)), "send")
    <3>1. Reading
      BY <2>1, <2>3, TakeReads DEF Labels
    <3> QED BY <2>1, <3>1, RowsSame, ReadFrame
  <2> QED BY <1>19, <2>2, <2>3 DEF Reread
<1>20. ASSUME NEW i \in Ids, BrowserStores(i) PROVE ReadInv'
  <2>1. /\ UNCHANGED lostBy /\ DOMAIN db' = DOMAIN db /\ db[i].managed = db'[i].managed
        /\ db[i].managed /\ \A j \in DOMAIN db \ {i} : db'[j] = db[j]
    BY <1>20, ZenonT(60) DEF BrowserStores, Typed
  <2>2. RowsGrow
    <3>1. ASSUME NEW j \in Ids, Unlost(j)'
          PROVE  Unlost(j) /\ db[j].cookie.ticket <= db'[j].cookie.ticket
      <4>1. j # i
        BY <2>1, <3>1, Zenon DEF Unlost
      <4>2. j \in DOMAIN db /\ db'[j] = db[j] /\ lostBy'[j] = lostBy[j]
        BY <2>1, <3>1, <4>1, Zenon DEF Unlost
      <4>3. db[j].cookie.ticket \in Nat
        BY <4>2 DEF Typed, Held
      <4>4. Unlost(j)
        BY <3>1, <4>2, Zenon DEF Unlost
      <4> QED BY <4>2, <4>3, <4>4
    <3> QED BY <3>1 DEF RowsGrow
  <2>3. Reading
    BY <1>20, OthersKeep DEF BrowserStores, Reading
  <2> QED BY <1>20, <2>2, <2>3, ReadFrame DEF BrowserStores
<1>21. ASSUME NEW i \in Ids, Delete(i) PROVE ReadInv'
  BY <1>21 DEF Delete, history, Typed, ReadInv, Unlost, Before, Id, Entry, Held
<1>22. CASE UNCHANGED vars
  BY <1>22 DEF vars, history, Typed, ReadInv, Unlost, Before, Id
<1> QED
  BY <1>1, <1>2, <1>3, <1>4, <1>5, <1>6, <1>7, <1>8, <1>9, <1>10, <1>11, <1>12, <1>13, <1>14,
     <1>15, <1>16, <1>17, <1>18, <1>19, <1>20, <1>21, <1>22 DEF Next, Step



Carrying == {"note", "page", "compare", "write"}

(* What is carried stays accounted for, where neither a row nor upstream's *)
(* ticket changes.                                                         *)
LEMMA StillCarried ==
  ASSUME TicketAccounted, NEW i \in DOMAIN db, i \in DOMAIN db', db'[i] = db[i], google'[i] = google[i],
         lostBy[i] # {} => lostBy'[i] # {},
         \A q \in Rotators : Carries(q, i) => Carries(q, i)'
  PROVE  \/ db'[i].managed
         \/ db'[i].cookie.ticket = google'[i]
         \/ lostBy'[i] # {}
         \/ \E q \in Rotators : Carries(q, i)'
  BY DEF TicketAccounted

LEMMA AccountedFrame ==
  ASSUME TicketAccounted, UNCHANGED <<google, lostBy>>, DOMAIN db' \subseteq DOMAIN db,
         \A i \in DOMAIN db' : db'[i] = db[i],
         \A q \in Rotators : pc[q] \in Carrying =>
           pc'[q] \in Carrying /\ snap'[q] = snap[q] /\ cur'[q].ticket = cur[q].ticket
  PROVE  TicketAccounted'
<1>1. \A q \in Rotators, i \in DOMAIN db : Carries(q, i) => Carries(q, i)'
  BY DEF Carries, Carrying, Id
<1> QED BY <1>1, StillCarried DEF TicketAccounted

(* Each of the steps that move a ticket, spend it or write a row.          *)
LEMMA AccountedStep ==
  ASSUME Typed, GivenOut, ReadInv, TicketAccounted, [Next]_vars
  PROVE  TicketAccounted'
<1>1. CASE StartRound
  <2>1. \A q \in Rotators : pc[q] \in Carrying =>
          pc'[q] \in Carrying /\ snap'[q] = snap[q] /\ cur'[q].ticket = cur[q].ticket
    BY <1>1 DEF StartRound, history, Carrying, Goto, Procs, Read, Rotators, Typed
  <2> QED BY <1>1, <2>1, AccountedFrame DEF StartRound, history
<1>2. CASE NextAccount
  <2>1. \A q \in Rotators : pc[q] \in Carrying =>
          pc'[q] \in Carrying /\ snap'[q] = snap[q] /\ cur'[q].ticket = cur[q].ticket
    BY <1>2 DEF NextAccount, history, Carrying, Finish, Goto, Procs, RotateAccount, Rotators,
       Take, Typed
  <2> QED BY <1>2, <2>1, AccountedFrame DEF NextAccount, history
<1>3. CASE Tick
  <2>1. \A q \in Rotators : pc[q] \in Carrying =>
          pc'[q] \in Carrying /\ snap'[q] = snap[q] /\ cur'[q].ticket = cur[q].ticket
    BY <1>3 DEF Tick, history, Carrying, Typed
  <2> QED BY <1>3, <2>1, AccountedFrame DEF Tick, history
<1>4. ASSUME NEW a \in Admins, AdminRotates(a) PROVE TicketAccounted'
  <2>1. \A q \in Rotators : pc[q] \in Carrying =>
          pc'[q] \in Carrying /\ snap'[q] = snap[q] /\ cur'[q].ticket = cur[q].ticket
    BY <1>4 DEF AdminRotates, history, Carrying, Finish, Goto, Procs, Read, RotateAccount,
       Rotators, Take, Typed
  <2> QED BY <1>4, <2>1, AccountedFrame DEF AdminRotates, history
<1>5. ASSUME NEW r \in Requests, StartRequest(r) PROVE TicketAccounted'
  <2>1. \A q \in Rotators : pc[q] \in Carrying =>
          pc'[q] \in Carrying /\ snap'[q] = snap[q] /\ cur'[q].ticket = cur[q].ticket
    BY <1>5 DEF StartRequest, history, Carrying, Finish, Goto, Procs, Read, RotateAccount,
       Rotators, Take, Typed
  <2> QED BY <1>5, <2>1, AccountedFrame DEF StartRequest, history
<1>6. ASSUME NEW c \in Checkers, StartCheck(c) PROVE TicketAccounted'
  <2>1. \A q \in Rotators : pc[q] \in Carrying =>
          pc'[q] \in Carrying /\ snap'[q] = snap[q] /\ cur'[q].ticket = cur[q].ticket
    BY <1>6 DEF StartCheck, history, Carrying, Droppers, Goto, Procs, Read, Take, Typed
  <2> QED BY <1>6, <2>1, AccountedFrame DEF StartCheck, history
<1>7. ASSUME NEW g \in Guards, GuardFires(g) PROVE TicketAccounted'
  <2>1. \A q \in Rotators : pc[q] \in Carrying =>
          pc'[q] \in Carrying /\ snap'[q] = snap[q] /\ cur'[q].ticket = cur[q].ticket
    BY <1>7 DEF GuardFires, history, Carrying, Droppers, Goto, Procs, Typed
  <2> QED BY <1>7, <2>1, AccountedFrame DEF GuardFires, history
<1>8. ASSUME NEW g \in Guards, GuardReads(g) PROVE TicketAccounted'
  <2>1. \A q \in Rotators : pc[q] \in Carrying =>
          pc'[q] \in Carrying /\ snap'[q] = snap[q] /\ cur'[q].ticket = cur[q].ticket
    BY <1>8 DEF GuardReads, history, Carrying, Droppers, Finish, Goto, Procs, Read, Take, Typed
  <2> QED BY <1>8, <2>1, AccountedFrame DEF GuardReads, history
<1>9. ASSUME NEW p \in Procs, Gate(p) PROVE TicketAccounted'
  <2>1. \A q \in Rotators : pc[q] \in Carrying =>
          pc'[q] \in Carrying /\ snap'[q] = snap[q] /\ cur'[q].ticket = cur[q].ticket
    BY <1>9 DEF Gate, history, Carrying, Exchanged, Goto, Typed
  <2> QED BY <1>9, <2>1, AccountedFrame DEF Gate, history
<1>10. ASSUME NEW p \in Procs, Granted(p) PROVE TicketAccounted'
  <2>1. /\ Id(p) \in Ids /\ Id(p)' = Id(p) /\ pc[p] = "exchange" /\ pc'[p] = "note"
        /\ UNCHANGED <<db, snap>>
        /\ \A j \in Ids \ {Id(p)} : google'[j] = google[j]
        /\ \A j \in Ids \ {Id(p)} : lostBy'[j] = lostBy[j]
    BY <1>10 DEF Granted, Goto, Spend, Lose, Typed, Id, Entry
  <2>2. \A q \in Rotators \ {p} : UNCHANGED <<pc[q], snap[q], cur[q]>>
    BY <1>10 DEF Granted, Goto, Typed, Procs
  <2>3. ASSUME NEW i \in DOMAIN db, i # Id(p)
        PROVE  \/ db[i].managed
               \/ db[i].cookie.ticket = google'[i]
               \/ lostBy'[i] # {}
               \/ \E q \in Rotators : Carries(q, i)'
    <3>1. i \in Ids
      BY DEF Typed
    <3>2. \A q \in Rotators : Carries(q, i) => Carries(q, i)'
      BY <2>1, <2>2, <2>3, <3>1 DEF Carries, Id
    <3> QED BY <2>1, <2>3, <3>1, <3>2 DEF TicketAccounted
  <2>4. lostBy'[Id(p)] # {} \/ (p \in Rotators /\ Carries(p, Id(p))')
    <3>1. CASE p \in Droppers
      BY <1>10, <2>1, <3>1, ZenonT(60) DEF Granted, Lose, Typed
    <3>2. CASE p \notin Droppers
      <4>1. p \in Rotators
        BY <3>2 DEF Procs
      <4>2. cur'[p].ticket = google'[Id(p)]
        BY <1>10, <4>1 DEF Granted, Typed, Held
      <4> QED BY <2>1, <4>1, <4>2 DEF Carries
    <3> QED BY <3>1, <3>2
  <2> QED BY <2>1, <2>3, <2>4 DEF TicketAccounted
<1>11. ASSUME NEW p \in Procs, Refused(p) PROVE TicketAccounted'
  <2>1. \A q \in Rotators : pc[q] \in Carrying =>
          pc'[q] \in Carrying /\ snap'[q] = snap[q] /\ cur'[q].ticket = cur[q].ticket
    BY <1>11 DEF Refused, Carrying, Goto, Typed
  <2> QED BY <1>11, <2>1, AccountedFrame DEF Refused
<1>12. ASSUME NEW p \in Procs, Unanswered(p) PROVE TicketAccounted'
  <2>1. \A q \in Rotators : pc[q] \in Carrying =>
          pc'[q] = pc[q] /\ snap'[q] = snap[q] /\ cur'[q].ticket = cur[q].ticket
    BY <1>12 DEF Unanswered, Carrying, Exchanged, Goto, Typed, Procs
  <2>2. CASE UNCHANGED <<google, lostBy>>
    BY <1>12, <2>1, <2>2, AccountedFrame DEF Unanswered
  <2>3. CASE Spend(Id(p)) /\ Lose(Id(p), "reply")
    <3>1. Id(p) \in Ids /\ UNCHANGED db
      BY <1>12 DEF Unanswered, Typed, Id, Entry
    <3>2. /\ lostBy'[Id(p)] # {}
          /\ \A j \in Ids \ {Id(p)} : google'[j] = google[j] /\ lostBy'[j] = lostBy[j]
      BY <2>3, <3>1 DEF Spend, Lose, Typed
    <3>3. ASSUME NEW i \in DOMAIN db, i # Id(p)
          PROVE  \/ db[i].managed
                 \/ db[i].cookie.ticket = google'[i]
                 \/ lostBy'[i] # {}
                 \/ \E q \in Rotators : Carries(q, i)'
      <4>1. i \in Ids
        BY DEF Typed
      <4>2. \A q \in Rotators : Carries(q, i) => Carries(q, i)'
        BY <2>1, <3>2, <3>3, <4>1 DEF Carries, Carrying, Id
      <4> QED BY <3>2, <3>3, <4>1, <4>2 DEF TicketAccounted
    <3> QED BY <3>1, <3>2, <3>3 DEF TicketAccounted
  <2> QED BY <1>12, <2>2, <2>3 DEF Unanswered
<1>13. ASSUME NEW p \in Procs, Note(p) PROVE TicketAccounted'
  <2>1. \A q \in Rotators : pc[q] \in Carrying =>
          pc'[q] \in Carrying /\ snap'[q] = snap[q] /\ cur'[q].ticket = cur[q].ticket
    BY <1>13 DEF Note, history, Carrying, Exchanged, Goto, Typed
  <2> QED BY <1>13, <2>1, AccountedFrame DEF Note, history
<1>14. ASSUME NEW p \in Procs, Page(p) PROVE TicketAccounted'
  <2>1. UNCHANGED <<db, google, lostBy, snap>> /\ pc[p] = "page"
    BY <1>14 DEF Page, history
  <2>2. \A q \in Rotators \ {p} : UNCHANGED <<pc[q], snap[q], cur[q]>>
    BY <1>14 DEF Page, Goto, Merge, Typed, Procs
  <2>3. cur'[p].ticket = cur[p].ticket
    BY <1>14, MergeKeeps DEF Page
  <2>4. CASE pc'[p] = "compare"
    <3>1. \A q \in Rotators : pc[q] \in Carrying =>
            pc'[q] \in Carrying /\ snap'[q] = snap[q] /\ cur'[q].ticket = cur[q].ticket
      BY <2>1, <2>2, <2>3, <2>4 DEF Carrying
    <3> QED BY <2>1, <3>1, AccountedFrame
  <2>5. CASE pc'[p] # "compare"
    <3>1. ~touched[p]
      <4>1. ~touched'[p]
        BY <1>14, <2>5 DEF Page, Goto, Typed
      <4> QED BY <1>14, <4>1 DEF Page, Merge, Typed
    <3>2. ASSUME NEW i \in DOMAIN db
          PROVE  \/ db[i].managed
                 \/ db[i].cookie.ticket = google[i]
                 \/ lostBy[i] # {}
                 \/ \E q \in Rotators : Carries(q, i)'
      <4>1. ASSUME Carries(p, i), ~db[i].managed, lostBy[i] = {} PROVE db[i].cookie.ticket = google[i]
        <5>1. Id(p) = i /\ cur[p].ticket = google[i]
          BY <4>1 DEF Carries
        <5>2. cur[p].ticket = snap[p].cookie.ticket /\ snap[p].cookie.ticket <= db[i].cookie.ticket
          BY <2>1, <3>1, <4>1, <5>1 DEF ReadInv, Before, Unlost
        <5>3. db[i].cookie.ticket <= google[i]
          BY DEF GivenOut
        <5>4. db[i].cookie.ticket \in Nat /\ google[i] \in Nat
          BY DEF Typed, Held
        <5> QED BY <5>1, <5>2, <5>3, <5>4
      <4>2. \A q \in Rotators \ {p} : Carries(q, i) => Carries(q, i)'
        BY <2>1, <2>2 DEF Carries, Id
      <4> QED BY <4>1, <4>2 DEF TicketAccounted
    <3> QED BY <2>1, <3>2 DEF TicketAccounted
  <2> QED BY <2>4, <2>5
<1>15. ASSUME NEW p \in Procs, Send(p) PROVE TicketAccounted'
  <2>1. pc[p] \notin Carrying /\ UNCHANGED <<db, google, lostBy>>
    BY <1>15 DEF Send, history, Carrying
  <2>2. \A q \in Rotators \ {p} : UNCHANGED <<pc[q], snap[q], cur[q]>>
    BY <1>15 DEF Send, Merge, Goto, Procs, Typed
  <2>3. \A q \in Rotators : pc[q] \in Carrying =>
          pc'[q] \in Carrying /\ snap'[q] = snap[q] /\ cur'[q].ticket = cur[q].ticket
    BY <2>1, <2>2
  <2> QED BY <2>1, <2>3, AccountedFrame
<1>16. ASSUME NEW p \in Procs, Compare(p) PROVE TicketAccounted'
  <2>1. UNCHANGED <<db, google, snap, cur>> /\ pc[p] = "compare" /\ Id(p) \in Ids
    BY <1>16 DEF Compare, Typed, Id, Entry
  <2>2. \A q \in Rotators \ {p} : UNCHANGED pc[q]
    BY <1>16 DEF Compare, Goto, Typed, Procs
  <2>3. \A i \in Ids : lostBy[i] # {} => lostBy'[i] # {}
    BY <1>16, <2>1 DEF Compare, Lose, Typed
  <2>4. ASSUME NEW i \in DOMAIN db, lostBy'[i] = {}, NEW q \in Rotators, Carries(q, i)
        PROVE  Carries(q, i)'
    <3>1. CASE q # p
      BY <2>1, <2>2, <2>4, <3>1 DEF Carries, Id
    <3>2. CASE q = p
      <4>1. Id(p) = i /\ cur[p].ticket = google[i]
        BY <2>4, <3>2 DEF Carries
      <4>2. ~Lose(i, "foreign")
        BY <2>1, <2>4, <4>1, ZenonT(60) DEF Lose, Typed
      <4>3. pc'[p] = "write"
        BY <1>16, <4>1, <4>2 DEF Compare, Goto, Typed
      <4> QED BY <2>1, <2>4, <3>2, <4>3 DEF Carries, Id
    <3> QED BY <3>1, <3>2
  <2>5. DOMAIN db \subseteq Ids
    BY DEF Typed
  <2> QED BY <2>1, <2>3, <2>4, <2>5 DEF TicketAccounted
<1>17. ASSUME NEW p \in Procs, Write(p) PROVE TicketAccounted'
  <2>1. UNCHANGED <<google, snap, cur>> /\ pc[p] = "write" /\ Id(p) \in Ids /\ DOMAIN db' = DOMAIN db
    BY <1>17 DEF Write, Typed, Id, Entry
  <2>2. \A q \in Rotators \ {p} : UNCHANGED pc[q]
    BY <1>17 DEF Write, Goto, Typed, Procs
  <2>3. ASSUME NEW i \in DOMAIN db
        PROVE  \/ db'[i].managed
               \/ db'[i].cookie.ticket = google[i]
               \/ lostBy'[i] # {}
               \/ \E q \in Rotators : Carries(q, i)'
    <3>1. i \in Ids /\ \A q \in Rotators \ {p} : Carries(q, i) => Carries(q, i)'
      BY <2>1, <2>2 DEF Carries, Id, Typed
    <3>2. lostBy[i] # {} => lostBy'[i] # {}
      BY <1>17, <2>1, <3>1 DEF Write, Lose, Typed
    <3>3. CASE i # Id(p)
      <4>1. db'[i] = db[i] /\ ~Carries(p, i)
        BY <1>17, <3>3 DEF Write, Carries
      <4> QED BY <3>1, <3>2, <4>1 DEF TicketAccounted
    <3>4. CASE i = Id(p)
      <4>1. db'[i].cookie = cur[p] /\ db'[i].managed = db[i].managed
        BY <1>17, <3>4 DEF Write, Typed
      <4>2. CASE cur[p].ticket < db[i].cookie.ticket
        <5>1. Lose(i, "overlap")
          BY <1>17, <3>4, <4>2 DEF Write
        <5> QED BY <3>1, <5>1 DEF Lose, Typed
      <4>3. CASE ~(cur[p].ticket < db[i].cookie.ticket)
        <5>1. cur[p].ticket <= google[i] /\ db[i].cookie.ticket <= google[i]
          BY <2>1, <3>4 DEF GivenOut
        <5>2. cur[p].ticket \in Nat /\ db[i].cookie.ticket \in Nat /\ google[i] \in Nat
          BY <3>1 DEF Typed, Held
        <5>3. db[i].cookie.ticket = google[i] => cur[p].ticket = google[i]
          BY <4>3, <5>1, <5>2
        <5>4. Carries(p, i) => cur[p].ticket = google[i]
          BY DEF Carries
        <5> QED BY <3>1, <3>2, <4>1, <5>3, <5>4 DEF TicketAccounted
      <4> QED BY <4>2, <4>3
    <3> QED BY <3>3, <3>4
  <2> QED BY <2>1, <2>3 DEF TicketAccounted
<1>18. ASSUME NEW p \in Procs, Rotated(p) PROVE TicketAccounted'
  <2>1. pc[p] \notin Carrying /\ UNCHANGED <<db, google, lostBy>>
    BY <1>18 DEF Rotated, history, Carrying
  <2>2. \A q \in Rotators \ {p} : UNCHANGED <<pc[q], snap[q], cur[q]>>
    BY <1>18 DEF Rotated, Finish, Goto, Procs, Typed
  <2>3. \A q \in Rotators : pc[q] \in Carrying =>
          pc'[q] \in Carrying /\ snap'[q] = snap[q] /\ cur'[q].ticket = cur[q].ticket
    BY <2>1, <2>2
  <2> QED BY <2>1, <2>3, AccountedFrame
<1>19. ASSUME NEW p \in Procs, Reread(p) PROVE TicketAccounted'
  <2>1. pc[p] \notin Carrying /\ UNCHANGED <<db, google, lostBy>>
    BY <1>19 DEF Reread, history, Carrying
  <2>2. \A q \in Rotators \ {p} : UNCHANGED <<pc[q], snap[q], cur[q]>>
    BY <1>19 DEF Reread, Finish, Take, Goto, Procs, Typed
  <2>3. \A q \in Rotators : pc[q] \in Carrying =>
          pc'[q] \in Carrying /\ snap'[q] = snap[q] /\ cur'[q].ticket = cur[q].ticket
    BY <2>1, <2>2
  <2> QED BY <2>1, <2>3, AccountedFrame
<1>20. ASSUME NEW i \in Ids, BrowserStores(i) PROVE TicketAccounted'
  <2>1. /\ UNCHANGED <<lostBy, pc, snap, cur>> /\ DOMAIN db' = DOMAIN db
        /\ db'[i].managed = db[i].managed /\ db[i].managed
        /\ \A j \in DOMAIN db \ {i} : db'[j] = db[j] /\ google'[j] = google[j]
    <3>1. i \in DOMAIN db /\ db[i].managed /\ UNCHANGED <<lostBy, pc, snap, cur>>
      BY <1>20 DEF BrowserStores
    <3>2. \A j \in DOMAIN db \ {i} : google'[j] = google[j]
      BY <1>20 DEF BrowserStores, Spend, Typed
    <3>3. PICK cookie : db' = [db EXCEPT ![i].cookie = cookie]
      BY <1>20 DEF BrowserStores
    <3>4. DOMAIN db' = DOMAIN db /\ \A j \in DOMAIN db \ {i} : db'[j] = db[j]
      BY <3>3
    <3>5. db'[i].managed = db[i].managed
      BY <3>1, <3>3 DEF Typed
    <3> QED BY <3>1, <3>2, <3>4, <3>5
  <2>2. ASSUME NEW j \in DOMAIN db, j # i
        PROVE  \/ db'[j].managed
               \/ db'[j].cookie.ticket = google'[j]
               \/ lostBy'[j] # {}
               \/ \E q \in Rotators : Carries(q, j)'
    <3>1. \A q \in Rotators : Carries(q, j) => Carries(q, j)'
      BY <2>1, <2>2 DEF Carries, Id
    <3> QED BY <2>1, <2>2, <3>1 DEF TicketAccounted
  <2> QED BY <2>1, <2>2 DEF TicketAccounted
<1>21. ASSUME NEW i \in Ids, Delete(i) PROVE TicketAccounted'
  <2>1. \A q \in Rotators : pc[q] \in Carrying =>
          pc'[q] \in Carrying /\ snap'[q] = snap[q] /\ cur'[q].ticket = cur[q].ticket
    BY <1>21 DEF Delete, history, Carrying, Typed
  <2> QED BY <1>21, <2>1, AccountedFrame DEF Delete, history, Typed
<1>22. CASE UNCHANGED vars
  <2>1. UNCHANGED <<db, google, lostBy, pc, snap, cur>>
    BY <1>22 DEF vars, history
  <2> QED BY <2>1, AccountedFrame
<1> QED
  BY <1>1, <1>2, <1>3, <1>4, <1>5, <1>6, <1>7, <1>8, <1>9, <1>10, <1>11, <1>12, <1>13, <1>14,
     <1>15, <1>16, <1>17, <1>18, <1>19, <1>20, <1>21, <1>22 DEF Next, Step


(* The current ticket of an account is in its row or on its way there, or  *)
(* it is on record how it was lost.                                        *)
THEOREM TicketsAccounted == Spec => []TicketAccounted
<1>1. Init => GivenOut /\ ReadInv /\ TicketAccounted
  <2> SUFFICES ASSUME Init PROVE GivenOut /\ ReadInv /\ TicketAccounted
    OBVIOUS
  <2>1. DOMAIN db = Ids /\ \A i \in Ids : db[i].cookie = First /\ google[i] = 1
    BY DEF Init
  <2>2. queue = {} /\ \A p \in Procs : pc[p] = "idle"
    BY DEF Init
  <2> QED BY <2>1, <2>2 DEF GivenOut, ReadInv, TicketAccounted, Before, First
<1>2. Typed /\ Typed' /\ GivenOut /\ ReadInv /\ TicketAccounted /\ [Next]_vars =>
        (GivenOut /\ ReadInv /\ TicketAccounted)'
  BY GivenOutStep, ReadStep, AccountedStep
<1> QED
  BY <1>1, <1>2, ShapesKept, PTL DEF Spec
=============================================================================
