-------------------- MODULE ConnectionSubscriptionsProofs --------------------
(***************************************************************************)
(* Proofs about ConnectionSubscriptions for any connections, projects,     *)
(* clients and subscriptions of the five kinds.                            *)
(*                                                                         *)
(* That the view follows the requests is not inductive: it speaks of       *)
(* stored connections only, and a subscription may be created and          *)
(* switched long before its connection is there.  Answered says, of every  *)
(* subscription by itself, which value its document holds given what its   *)
(* owner last asked for; the view is then a matter of sets.                *)
(***************************************************************************)
EXTENDS ConnectionSubscriptions, SequenceTheorems, TLAPS

\* A document is there once it was asked for, and holds what was asked last;
\* the field of a fabric subscription is absent at first.
Answered ==
  \A s \in Subs :
    /\ asked[s] = "nothing" <=> sub[s] = None
    /\ asked[s] = "created" => sub[s].subscribed = IF kind[s] = "fabric" THEN None ELSE TRUE
    /\ asked[s] = "on" => sub[s].subscribed = TRUE
    /\ asked[s] = "off" => sub[s].subscribed = FALSE

IInv == TypeOK /\ Answered

-----------------------------------------------------------------------------
(* What the setters write *)

Fields == {"subscribed", "isClientActive", "isProjectActive"}

\* One field of a document is written and nothing else.
LEMMA SetOne ==
  ASSUME NEW d \in Subscription, NEW field \in Fields, NEW value \in BOOLEAN
  PROVE  /\ [d EXCEPT ![field] = value] \in Subscription
         /\ field = "subscribed" => [d EXCEPT ![field] = value].subscribed = value
         /\ field # "subscribed" => [d EXCEPT ![field] = value].subscribed = d.subscribed
<1>1. CASE field = "subscribed"
  BY <1>1 DEF Subscription, Maybe
<1>2. CASE field = "isClientActive"
  BY <1>2 DEF Subscription, Maybe
<1>3. CASE field = "isProjectActive"
  BY <1>3 DEF Subscription, Maybe
<1> QED BY <1>1, <1>2, <1>3 DEF Fields

\* A query only names documents that are there.
LEMMA RowsAreThere ==
  /\ \A k, s : WithId(k, s) \subseteq OfKind(k)
  /\ \A k, p : WithProjectId(k, p) \subseteq OfKind(k)
  /\ \A k, c : WithClientId(k, c) \subseteq OfKind(k)
  /\ \A k : OfKind(k) \subseteq {t \in Subs : sub[t] # None}
BY DEF WithId, WithProjectId, WithClientId, OfKind

\* The documents keep their types, the named ones get the value, and nothing
\* appears or goes away.
SetRight(rows, field, value) ==
  /\ sub' \in [Subs -> Subscription \union {None}]
  /\ \A t \in Subs : sub'[t] = None <=> sub[t] = None
  /\ \A t \in Subs \ rows : sub'[t] = sub[t]
  /\ \A t \in rows : field = "subscribed" => sub'[t].subscribed = value
  /\ \A t \in rows : field # "subscribed" => sub'[t].subscribed = sub[t].subscribed

LEMMA SetIsRight ==
  ASSUME ConstantsFit, TypeOK, NEW rows \in SUBSET {t \in Subs : sub[t] # None},
         NEW field \in Fields, NEW value \in BOOLEAN, Set(rows, field, value)
  PROVE  SetRight(rows, field, value)
<1>0. sub \in [Subs -> Subscription \union {None}]
  BY DEF TypeOK
<1>1. \A t \in rows : sub[t] \in Subscription
  BY <1>0
<1>2. sub' = [t \in Subs |-> IF t \in rows THEN [sub[t] EXCEPT ![field] = value] ELSE sub[t]]
  BY DEF Set
<1>3. \A t \in rows : /\ sub'[t] \in Subscription
                      /\ field = "subscribed" => sub'[t].subscribed = value
                      /\ field # "subscribed" => sub'[t].subscribed = sub[t].subscribed
  BY <1>1, <1>2, SetOne
<1>4. \A t \in Subs \ rows : sub'[t] = sub[t]
  BY <1>2
<1>5. \A t \in Subs : sub'[t] \in Subscription \union {None}
  BY <1>0, <1>3, <1>4
<1>6. sub' \in [Subs -> Subscription \union {None}]
  BY <1>2, <1>5
<1>7. \A t \in Subs : sub'[t] = None <=> sub[t] = None
  BY <1>3, <1>4 DEF ConstantsFit
<1> QED BY <1>3, <1>4, <1>6, <1>7 DEF SetRight

\* What is asked for reaches the documents the query names, no others.
LEMMA SetSubscribedKeepsIInv ==
  ASSUME ConstantsFit, IInv, NEW rows \in SUBSET {t \in Subs : sub[t] # None},
         NEW owned, NEW b \in BOOLEAN,
         \A t \in Subs : t \in rows <=> sub[t] # None /\ t \in owned,
         SetSubscribed(rows, b), Ask(owned, b)
  PROVE  IInv'
<1>1. SetRight(rows, "subscribed", b)
  BY SetIsRight DEF SetSubscribed, IInv, Fields
<1>2. UNCHANGED <<kind, home, conn, jobs, queue, run>>
  BY DEF SetSubscribed
<1>3. asked' = [t \in Subs |-> IF t \in rows THEN (IF b THEN "on" ELSE "off") ELSE asked[t]]
  BY DEF Ask
<1>4. TypeOK'
  <2>1. asked' \in [Subs -> {"nothing", "created", "on", "off"}]
    BY <1>3 DEF IInv, TypeOK
  <2>2. sub' \in [Subs -> Subscription \union {None}]
    BY <1>1 DEF SetRight
  <2> QED BY <1>2, <2>1, <2>2 DEF IInv, TypeOK
<1>5. Answered'
  <2> SUFFICES ASSUME NEW s \in Subs
               PROVE  /\ asked'[s] = "nothing" <=> sub'[s] = None
                      /\ asked'[s] = "created" => sub'[s].subscribed = IF kind'[s] = "fabric" THEN None ELSE TRUE
                      /\ asked'[s] = "on" => sub'[s].subscribed = TRUE
                      /\ asked'[s] = "off" => sub'[s].subscribed = FALSE
    BY DEF Answered
  <2>1. CASE s \in rows
    <3>1. sub'[s] # None /\ sub'[s].subscribed = b
      BY <1>1, <2>1 DEF SetRight
    <3>2. asked'[s] = IF b THEN "on" ELSE "off"
      BY <1>3, <2>1
    <3>3. CASE b = TRUE
      BY <3>1, <3>2, <3>3
    <3>4. CASE b = FALSE
      BY <3>1, <3>2, <3>4
    <3> QED BY <3>3, <3>4
  <2>2. CASE s \notin rows
    <3>1. sub'[s] = sub[s] /\ asked'[s] = asked[s] /\ kind'[s] = kind[s]
      BY <1>1, <1>2, <1>3, <2>2 DEF SetRight
    <3> QED BY <3>1 DEF IInv, Answered
  <2> QED BY <2>1, <2>2
<1> QED BY <1>4, <1>5 DEF IInv

\* The flags of the client and the project are not what was asked for.
LEMMA SetActiveKeepsIInv ==
  ASSUME ConstantsFit, IInv, NEW rows \in SUBSET {t \in Subs : sub[t] # None},
         NEW field \in {"isClientActive", "isProjectActive"}, NEW b \in BOOLEAN,
         SetActive(rows, field, b)
  PROVE  IInv'
<1>1. SetRight(rows, field, b) /\ field # "subscribed"
  BY SetIsRight DEF SetActive, IInv, Fields
<1>2. UNCHANGED <<kind, home, conn, jobs, queue, run, asked>>
  BY DEF SetActive
<1>3. TypeOK'
  BY <1>1, <1>2 DEF IInv, TypeOK, SetRight
<1>4. \A s \in Subs : (sub'[s] = None <=> sub[s] = None) /\ sub'[s].subscribed = sub[s].subscribed
  BY <1>1 DEF SetRight
<1>5. Answered'
  BY <1>2, <1>4 DEF IInv, Answered
<1> QED BY <1>3, <1>5 DEF IInv

-----------------------------------------------------------------------------
(* The setters: the query of each names the documents it is asked for       *)

Setters(b) ==
  \/ \E s \in Subs : SetSubscribedById(s, b)
  \/ \E k \in Kinds, p \in ProjectIds : SetSubscribedByProjectId(k, p, b) \/ SetProjectActive(k, p, b)
  \/ \E k \in Kinds, c \in Clients : SetSubscribedByClientId(k, c, b) \/ SetClientActive(k, c, b)

LEMMA SettersKeepIInv ==
  ASSUME ConstantsFit, IInv, NEW b \in BOOLEAN, Setters(b)
  PROVE  IInv'
<1>1. ASSUME NEW s \in Subs, SetSubscribedById(s, b) PROVE IInv'
  <2>1. SetSubscribed(WithId(kind[s], s), b) /\ Ask({s}, b)
    BY <1>1 DEF SetSubscribedById
  <2>2. \A t \in Subs : t \in WithId(kind[s], s) <=> sub[t] # None /\ t \in {s}
    BY DEF WithId, OfKind
  <2>3. WithId(kind[s], s) \in SUBSET {t \in Subs : sub[t] # None}
    BY DEF WithId, OfKind
  <2> QED BY <2>1, <2>2, <2>3, SetSubscribedKeepsIInv
<1>2. ASSUME NEW k \in Kinds, NEW p \in ProjectIds, SetSubscribedByProjectId(k, p, b) PROVE IInv'
  <2>1. SetSubscribed(WithProjectId(k, p), b) /\ Ask(Owned(k, p), b)
    BY <1>2 DEF SetSubscribedByProjectId
  <2>2. \A t \in Subs : t \in WithProjectId(k, p) <=> sub[t] # None /\ t \in Owned(k, p)
    BY DEF WithProjectId, OfKind, Owned
  <2>3. WithProjectId(k, p) \in SUBSET {t \in Subs : sub[t] # None}
    BY DEF WithProjectId, OfKind
  <2> QED BY <2>1, <2>2, <2>3, SetSubscribedKeepsIInv
<1>3. ASSUME NEW k \in Kinds, NEW c \in Clients, SetSubscribedByClientId(k, c, b) PROVE IInv'
  <2> DEFINE owned == UNION {Owned(k, p) : p \in {q \in ProjectIds : ClientOf[q] = c}}
  <2>1. SetSubscribed(WithClientId(k, c), b) /\ Ask(owned, b)
    BY <1>3 DEF SetSubscribedByClientId
  <2>2. \A t \in Subs : t \in WithClientId(k, c) <=> sub[t] # None /\ t \in owned
    <3>1. \A t \in Subs : t \in owned <=> kind[t] = k /\ ClientOf[ProjectOf[t]] = c
      BY DEF Owned, ProjectIds
    <3> HIDE DEF owned
    <3> QED BY <3>1 DEF WithClientId, OfKind
  <2>3. WithClientId(k, c) \in SUBSET {t \in Subs : sub[t] # None}
    BY DEF WithClientId, OfKind
  <2> HIDE DEF owned
  <2> QED BY <2>1, <2>2, <2>3, SetSubscribedKeepsIInv
<1>4. ASSUME NEW k \in Kinds, NEW p \in ProjectIds, SetProjectActive(k, p, b) PROVE IInv'
  <2>1. WithProjectId(k, p) \in SUBSET {t \in Subs : sub[t] # None}
    BY DEF WithProjectId, OfKind
  <2> QED BY <1>4, <2>1, SetActiveKeepsIInv DEF SetProjectActive
<1>5. ASSUME NEW k \in Kinds, NEW c \in Clients, SetClientActive(k, c, b) PROVE IInv'
  <2>1. WithClientId(k, c) \in SUBSET {t \in Subs : sub[t] # None}
    BY DEF WithClientId, OfKind
  <2> QED BY <1>5, <2>1, SetActiveKeepsIInv DEF SetClientActive
<1> QED BY <1>1, <1>2, <1>3, <1>4, <1>5 DEF Setters

\* createSubscription: the first values of each kind.
LEMMA CreateSubscriptionKeepsIInv ==
  ASSUME ConstantsFit, IInv, NEW s \in Subs, CreateSubscription(s)
  PROVE  IInv'
<1> DEFINE new == NewSubscription(kind[s])
<1>1. new \in Subscription /\ new.subscribed = IF kind[s] = "fabric" THEN None ELSE TRUE
  <2>1. kind[s] \in Kinds
    BY DEF IInv, TypeOK
  <2>2. New(TRUE, TRUE) \in Subscription /\ New(TRUE, TRUE).subscribed = TRUE
    BY DEF New, Subscription, Maybe
  <2>3. New(TRUE, None) \in Subscription /\ New(TRUE, None).subscribed = TRUE
    BY DEF New, Subscription, Maybe
  <2>4. New(None, None) \in Subscription /\ New(None, None).subscribed = None
    BY DEF New, Subscription, Maybe
  <2>5. new = IF kind[s] = "address" THEN New(TRUE, TRUE)
              ELSE IF kind[s] = "fabric" THEN New(None, None) ELSE New(TRUE, None)
    BY <2>1 DEF Kinds, NewSubscription, NewAddressSubscription, NewContractSubscription,
                NewTransactionSubscription, NewOraclizeSubscription, NewFabricSubscription
  <2>6. CASE kind[s] = "address"
    BY <2>2, <2>5, <2>6
  <2>7. CASE kind[s] = "fabric"
    BY <2>4, <2>5, <2>7
  <2>8. CASE kind[s] \notin {"address", "fabric"}
    BY <2>3, <2>5, <2>8
  <2> QED BY <2>6, <2>7, <2>8
<1>2. /\ sub' = [sub EXCEPT ![s] = new]
      /\ asked' = [asked EXCEPT ![s] = "created"]
      /\ UNCHANGED <<kind, home, conn, jobs, queue, run>>
  BY DEF CreateSubscription
<1> HIDE DEF new
<1>3. TypeOK'
  BY <1>1, <1>2 DEF IInv, TypeOK
<1>4. new # None
  BY <1>1 DEF ConstantsFit
<1>5. \A t \in Subs : /\ t = s => sub'[t] = new /\ asked'[t] = "created"
                      /\ t # s => sub'[t] = sub[t] /\ asked'[t] = asked[t]
  BY <1>2 DEF IInv, TypeOK
<1>6. Answered'
  <2> SUFFICES ASSUME NEW t \in Subs
               PROVE  /\ asked'[t] = "nothing" <=> sub'[t] = None
                      /\ asked'[t] = "created" => sub'[t].subscribed = IF kind'[t] = "fabric" THEN None ELSE TRUE
                      /\ asked'[t] = "on" => sub'[t].subscribed = TRUE
                      /\ asked'[t] = "off" => sub'[t].subscribed = FALSE
    BY DEF Answered
  <2>1. CASE t = s
    <3>1. sub'[t] = new /\ asked'[t] = "created" /\ kind'[t] = kind[s]
      BY <1>2, <1>5, <2>1
    <3> QED BY <1>1, <1>4, <3>1
  <2>2. CASE t # s
    <3>1. sub'[t] = sub[t] /\ asked'[t] = asked[t] /\ kind'[t] = kind[t]
      BY <1>2, <1>5, <2>2
    <3> QED BY <3>1 DEF IInv, Answered
  <2> QED BY <2>1, <2>2
<1> QED BY <1>3, <1>6 DEF IInv

-----------------------------------------------------------------------------
(* Connections, the queue and its job do not touch the subscriptions         *)

LEMMA OthersKeepAnswered ==
  ASSUME IInv, UNCHANGED <<kind, sub, asked>>
  PROVE  Answered'
BY DEF IInv, Answered

LEMMA ConnectionsKeepIInv ==
  ASSUME ConstantsFit, IInv,
         \/ \E n \in Conns : CreateConnection(n) \/ SaveJob(n) \/ SaveJobFails(n) \/ Tick(n)
         \/ \E gone \in SUBSET Conns \ {{}} : RemoveConnections(gone)
  PROVE  IInv'
<1>0. UNCHANGED <<kind, home, sub, run, asked>>
  BY DEF CreateConnection, SaveJob, SaveJobFails, Tick, RemoveConnections
<1>1. TypeOK'
  <2>1. ASSUME NEW n \in Conns, CreateConnection(n) \/ SaveJob(n) \/ SaveJobFails(n) PROVE TypeOK'
    BY <1>0, <2>1 DEF IInv, TypeOK, Phases, CreateConnection, SaveJob, SaveJobFails
  <2>2. ASSUME NEW n \in Conns, Tick(n) PROVE TypeOK'
    <3>1. queue \in Seq(Conns) /\ Len(queue) \in Nat
      BY DEF IInv, TypeOK
    <3>2. Append(queue, n) \in Seq(Conns) /\ Len(Append(queue, n)) = Len(queue) + 1
      BY <3>1, AppendProperties
    <3>3. queue' \in Seq(Conns) /\ Len(queue') <= MaxQueue
      BY <2>2, <3>1, <3>2 DEF ConstantsFit, Tick
    <3> QED BY <1>0, <2>2, <3>3 DEF IInv, TypeOK, Tick
  <2>3. ASSUME NEW gone \in SUBSET Conns, RemoveConnections(gone) PROVE TypeOK'
    <3>1. conn' \in [Conns -> Phases]
      BY <2>3 DEF IInv, TypeOK, Phases, RemoveConnections
    <3> QED BY <1>0, <2>3, <3>1 DEF IInv, TypeOK, RemoveConnections
  <2> QED BY <2>1, <2>2, <2>3
<1> QED BY <1>0, <1>1, OthersKeepAnswered DEF IInv

\* The view of a connection is null or a set of subscriptions.
LEMMA ViewTypes ==
  ASSUME NEW n, NEW status
  PROVE  View(n, status) = None \/ View(n, status) \in SUBSET Subs
BY DEF View, Filter, Match, Joined

LEMMA RunKeepsIInv ==
  ASSUME ConstantsFit, IInv,
         StartRun \/ Receive \/ NothingReceived \/ ReadView \/ ReadFails \/ FinishRun
  PROVE  IInv'
<1>0. UNCHANGED <<kind, home, sub, conn, jobs, asked>>
  BY DEF StartRun, Receive, NothingReceived, ReadView, ReadFails, FinishRun
<1>1. Idle \in Runs /\ [Idle EXCEPT !.pc = "empty queue"] \in Runs
  BY DEF Idle, Runs
<1>2. run \in Runs /\ queue \in Seq(Conns) /\ Len(queue) \in Nat /\ Len(queue) <= MaxQueue
  BY DEF IInv, TypeOK
<1>3. run' \in Runs
  <2>1. CASE StartRun
    BY <1>2, <2>1 DEF StartRun, Runs
  <2>2. CASE Receive
    <3>1. Head(queue) \in Conns
      BY <1>2, <2>2, HeadTailProperties DEF Receive
    <3> QED BY <1>2, <2>2, <3>1 DEF Receive, Runs
  <2>3. CASE NothingReceived \/ ReadFails \/ FinishRun
    BY <1>1, <2>3 DEF NothingReceived, ReadFails, FinishRun
  <2>4. CASE ReadView
    <3> DEFINE given == View(run.conn, "Subscribed")
    <3>1. given = None \/ given \in SUBSET Subs
      BY ViewTypes
    <3>2. run' = IF given = None THEN [Idle EXCEPT !.pc = "empty queue"]
                 ELSE [run EXCEPT !.pc = "handlers", !.given = given]
      BY <2>4 DEF ReadView
    <3> HIDE DEF given
    <3>3. CASE given = None
      BY <1>1, <3>2, <3>3
    <3>4. CASE given # None
      BY <1>2, <3>1, <3>2, <3>4 DEF Runs
    <3> QED BY <3>3, <3>4
  <2> QED BY <2>1, <2>2, <2>3, <2>4
<1>4. queue' \in Seq(Conns) /\ Len(queue') <= MaxQueue
  <2>1. CASE Receive
    <3>1. Tail(queue) \in Seq(Conns) /\ Len(Tail(queue)) = Len(queue) - 1
      BY <1>2, <2>1, HeadTailProperties DEF Receive
    <3>2. queue' = Tail(queue) /\ MaxQueue \in Nat
      BY <2>1 DEF ConstantsFit, Receive
    <3> QED BY <1>2, <3>1, <3>2
  <2>2. CASE UNCHANGED queue
    BY <1>2, <2>2
  <2> QED BY <2>1, <2>2 DEF StartRun, NothingReceived, ReadView, ReadFails, FinishRun
<1>5. TypeOK'
  BY <1>0, <1>3, <1>4 DEF IInv, TypeOK
<1> QED BY <1>0, <1>5, OthersKeepAnswered DEF IInv

-----------------------------------------------------------------------------
LEMMA InitIInv ==
  ASSUME ConstantsFit, Init
  PROVE  IInv
<1>1. kind \in [Subs -> Kinds] /\ home \in [Subs -> Conns]
  BY DEF ConstantsFit, Init
<1>2. Idle \in Runs
  BY DEF Idle, Runs
<1>3. TypeOK
  BY <1>1, <1>2 DEF ConstantsFit, Init, TypeOK, Phases
<1>4. Answered
  BY DEF Init, Answered
<1> QED BY <1>3, <1>4 DEF IInv

LEMMA NextKeepsIInv ==
  ASSUME ConstantsFit, IInv, [Next]_vars
  PROVE  IInv'
<1>1. CASE \/ \E n \in Conns : CreateConnection(n) \/ SaveJob(n) \/ SaveJobFails(n) \/ Tick(n)
           \/ \E gone \in SUBSET Conns \ {{}} : RemoveConnections(gone)
  BY <1>1, ConnectionsKeepIInv
<1>2. CASE \E s \in Subs : CreateSubscription(s)
  BY <1>2, CreateSubscriptionKeepsIInv
<1>3. CASE \E b \in BOOLEAN : Setters(b)
  BY <1>3, SettersKeepIInv
<1>4. CASE StartRun \/ Receive \/ NothingReceived \/ ReadView \/ ReadFails \/ FinishRun
  BY <1>4, RunKeepsIInv
<1>5. CASE UNCHANGED vars
  BY <1>5 DEF IInv, TypeOK, Answered, vars
<1> QED BY <1>1, <1>2, <1>3, <1>4, <1>5 DEF Next, Setters

-----------------------------------------------------------------------------
(* The view and the queries *)

\* Whatever the view matches by its subscribed field is what was asked for.
LEMMA MatchFollowsRequests ==
  ASSUME ConstantsFit, IInv, NEW n
  PROVE  /\ Match(n, "All") = {s \in Subs : home[s] = n /\ asked[s] # "nothing"}
         /\ Match(n, "Subscribed") =
              {s \in Subs : /\ home[s] = n /\ asked[s] # "nothing"
                            /\ asked[s] = "on" \/ (asked[s] = "created" /\ kind[s] # "fabric")}
         /\ Match(n, "Unsubscribed") =
              {s \in Subs : home[s] = n /\ asked[s] # "nothing" /\ asked[s] = "off"}
<1>1. Joined(n) = {s \in Subs : home[s] = n /\ asked[s] # "nothing"}
  BY DEF Joined, IInv, Answered
<1>2. \A s \in Joined(n) :
        /\ sub[s].subscribed = TRUE <=> asked[s] = "on" \/ (asked[s] = "created" /\ kind[s] # "fabric")
        /\ sub[s].subscribed = FALSE <=> asked[s] = "off"
  <2> SUFFICES ASSUME NEW s \in Joined(n)
               PROVE  /\ sub[s].subscribed = TRUE <=>
                           asked[s] = "on" \/ (asked[s] = "created" /\ kind[s] # "fabric")
                      /\ sub[s].subscribed = FALSE <=> asked[s] = "off"
    OBVIOUS
  <2>1. s \in Subs /\ asked[s] \in {"created", "on", "off"}
    BY <1>1 DEF IInv, TypeOK
  <2>2. None # TRUE /\ None # FALSE
    BY DEF ConstantsFit
  <2>3. CASE asked[s] = "created"
    BY <2>1, <2>2, <2>3 DEF IInv, Answered
  <2>4. CASE asked[s] = "on"
    BY <2>1, <2>4 DEF IInv, Answered
  <2>5. CASE asked[s] = "off"
    BY <2>1, <2>5 DEF IInv, Answered
  <2> QED BY <2>1, <2>3, <2>4, <2>5
<1>3. /\ Match(n, "All") = Joined(n)
      /\ Match(n, "Subscribed") = {s \in Joined(n) : sub[s].subscribed = TRUE}
      /\ Match(n, "Unsubscribed") = {s \in Joined(n) : sub[s].subscribed = FALSE}
  BY DEF Match
<1> QED BY <1>1, <1>2, <1>3

\* For a stored connection the view is what the filter leaves.
LEMMA ViewIsMatch ==
  ASSUME NEW n, Stored(n)
  PROVE  /\ View(n, "All") = Match(n, "All")
         /\ \A status \in {"Subscribed", "Unsubscribed"} :
              View(n, status) = IF Match(n, status) = {} THEN None ELSE Match(n, status)
BY DEF View, Filter

LEMMA IInvFollows ==
  ASSUME ConstantsFit, IInv
  PROVE  ViewFollowsRequests
<1> SUFFICES ASSUME NEW n \in Conns, Stored(n)
             PROVE  LET here == {s \in Subs : home[s] = n /\ asked[s] # "nothing"}
                        on == {s \in here : asked[s] = "on" \/ (asked[s] = "created" /\ kind[s] # "fabric")}
                        off == {s \in here : asked[s] = "off"}
                        shown(rows) == IF rows = {} THEN None ELSE rows
                    IN  /\ View(n, "All") = here
                        /\ View(n, "Subscribed") = shown(on)
                        /\ View(n, "Unsubscribed") = shown(off)
  BY DEF ViewFollowsRequests
<1> DEFINE here == {s \in Subs : home[s] = n /\ asked[s] # "nothing"}
           on == {s \in here : asked[s] = "on" \/ (asked[s] = "created" /\ kind[s] # "fabric")}
           off == {s \in here : asked[s] = "off"}
<1>1. /\ Match(n, "All") = here
      /\ Match(n, "Subscribed") = on
      /\ Match(n, "Unsubscribed") = off
  <2>1. /\ on = {s \in Subs : /\ home[s] = n /\ asked[s] # "nothing"
                              /\ asked[s] = "on" \/ (asked[s] = "created" /\ kind[s] # "fabric")}
        /\ off = {s \in Subs : home[s] = n /\ asked[s] # "nothing" /\ asked[s] = "off"}
    OBVIOUS
  <2> QED BY <2>1, MatchFollowsRequests
<1> HIDE DEF here, on, off
<1>2. /\ View(n, "All") = here
      /\ View(n, "Subscribed") = IF on = {} THEN None ELSE on
      /\ View(n, "Unsubscribed") = IF off = {} THEN None ELSE off
  BY <1>1, ViewIsMatch
<1> QED BY <1>2 DEF here, on, off

\* Every query that looks for active subscriptions asks for subscribed.
LEMMA ActiveIsSubscribed ==
  ASSUME NEW s \in ActiveOnly
  PROVE  s \in Subs /\ sub[s] # None /\ sub[s].subscribed = TRUE
BY DEF ActiveOnly, ActiveAddresses, ActiveContracts, ActiveFabrics, ActiveTransactions, ActiveOraclizes,
       AllActive, Subscribed, Flagged, OfKind

LEMMA ActiveIsHandled == ConstantsFit => ActiveOnlyIsHandled
<1> SUFFICES ASSUME ConstantsFit, NEW s \in ActiveOnly, Stored(home[s])
             PROVE  View(home[s], "Subscribed") # None /\ s \in View(home[s], "Subscribed")
  BY DEF ActiveOnlyIsHandled
<1>1. s \in Match(home[s], "Subscribed")
  BY ActiveIsSubscribed DEF Match, Joined
<1>2. View(home[s], "Subscribed") = Match(home[s], "Subscribed")
  BY <1>1, ViewIsMatch
<1>3. Match(home[s], "Subscribed") \in SUBSET Subs
  BY DEF Match, Joined
<1> QED BY <1>1, <1>2, <1>3 DEF ConstantsFit

-----------------------------------------------------------------------------
\* Connections, subscriptions, the queue and its job keep their types.
THEOREM TypeCorrect ==
  ASSUME ConstantsFit
  PROVE  Spec => []TypeOK
<1>1. Init => IInv
  BY InitIInv
<1>2. IInv /\ [Next]_vars => IInv'
  BY NextKeepsIInv
<1>3. IInv => TypeOK
  BY DEF IInv
<1> QED BY <1>1, <1>2, <1>3, PTL DEF Spec

\* The aggregation of transport.connection.subscription.dao.ts gives the
\* listener exactly the subscriptions whose owners last asked for it, however
\* many of each kind there are, in whichever order connections and
\* subscriptions were created and whichever setters were used.
THEOREM ViewIsWhatWasAsked ==
  ASSUME ConstantsFit
  PROVE  Spec => []ViewFollowsRequests
<1>1. Init => IInv
  BY InitIInv
<1>2. IInv /\ [Next]_vars => IInv'
  BY NextKeepsIInv
<1>3. IInv => ViewFollowsRequests
  BY IInvFollows
<1> QED BY <1>1, <1>2, <1>3, PTL DEF Spec

\* Nothing an ActiveOnly query lists is missing from what the handlers of its
\* connection are given: the five queries and the view agree on subscribed.
THEOREM NothingActiveIsMissed ==
  ASSUME ConstantsFit
  PROVE  Spec => []ActiveOnlyIsHandled
<1>1. Init => IInv
  BY InitIInv
<1>2. IInv /\ [Next]_vars => IInv'
  BY NextKeepsIInv
<1>3. IInv => ActiveOnlyIsHandled
  BY ActiveIsHandled
<1> QED BY <1>1, <1>2, <1>3, PTL DEF Spec
=============================================================================
