---------------------- MODULE ConnectionSubscriptions ----------------------
(***************************************************************************)
(* From a stored subscription to the run of the listener that is given it  *)
(* (fluence.lib.services: transport.connection.service.ts, the services    *)
(* and DAOs of the five kinds of subscriptions, and the view               *)
(* transport.connection.subscription.dao.ts; fluence.ms.abstract.blockchain*)
(* src/cronjobs).                                                          *)
(*                                                                         *)
(* Creating a connection stores a document and then an agenda job.  The    *)
(* scheduler turns the job, each time its cron expression is due, into a   *)
(* queue message; a job of the blockchain's microservice empties the queue *)
(* and reads, for each message, the view of the connection together with   *)
(* its subscriptions.  The flags that follow the status of the client and  *)
(* of the project are only looked at by the ActiveOnly queries, never by   *)
(* the view.                                                               *)
(***************************************************************************)
EXTENDS Integers, Sequences, FiniteSets

CONSTANTS
  Conns, Subs,             \* connections and subscriptions that can be made
  ProjectOf, ClientOf,     \* of each subscription, of each project
  Mixes,                   \* pairs: the kinds the subscriptions can have,
                           \* and the connections they can belong to
  None,                    \* no document, no such field
  MaxQueue                 \* bound: messages waiting in the queue

VARIABLES
  kind,    \* the kind of each subscription; chosen once
  home,    \* the connection of each subscription; chosen once
  sub,     \* the document of each subscription, or None
  conn,    \* how far each connection is in its life
  jobs,    \* connections that an agenda job was saved for
  queue,   \* messages: the connection whose job was due
  run,     \* the job that empties the queue
  asked    \* history: what the owner last asked for each subscription

vars == <<kind, home, sub, conn, jobs, queue, run, asked>>

Kinds == {"address", "contract", "transaction", "oraclize", "fabric"}
Maybe == BOOLEAN \union {None}
ProjectIds == {ProjectOf[s] : s \in Subs}
Clients == {ClientOf[p] : p \in ProjectIds}

Subscription == [subscribed : Maybe, isClientActive : Maybe, isProjectActive : Maybe]

\* What is assumed of the constants.
ConstantsFit ==
  /\ None \notin BOOLEAN /\ None \notin Subscription /\ \A rows \in SUBSET Subs : rows # None
  /\ \A mix \in Mixes : mix[1] \in [Subs -> Kinds] /\ mix[2] \in [Subs -> Conns]
  /\ MaxQueue \in Nat

\* absent, the document inserted, the caller answered or rejected, removed
Phases == {"absent", "inserted", "answered", "rejected", "removed"}

Idle == [pc |-> "idle", conn |-> None, given |-> {}]
Runs == [pc : {"idle", "empty queue", "read view", "handlers"},
         conn : Conns \union {None}, given : SUBSET Subs]

TypeOK ==
  /\ kind \in [Subs -> Kinds] /\ home \in [Subs -> Conns]
  /\ sub \in [Subs -> Subscription \union {None}]
  /\ conn \in [Conns -> Phases]
  /\ jobs \subseteq Conns
  /\ queue \in Seq(Conns) /\ Len(queue) <= MaxQueue
  /\ run \in Runs
  /\ asked \in [Subs -> {"nothing", "created", "on", "off"}]

Init ==
  /\ \E mix \in Mixes : kind = mix[1] /\ home = mix[2]
  /\ sub = [s \in Subs |-> None]
  /\ conn = [n \in Conns |-> "absent"]
  /\ jobs = {} /\ queue = <<>> /\ run = Idle
  /\ asked = [s \in Subs |-> "nothing"]

Stored(n) == conn[n] \in {"inserted", "answered", "rejected"}

-----------------------------------------------------------------------------
(* TransportConnectionService *)

\* (Bound: only connections that will have subscriptions are created.)
CreateConnection(n) ==
  /\ conn[n] = "absent" /\ \E s \in Subs : home[s] = n
  /\ conn' = [conn EXCEPT ![n] = "inserted"]
  /\ UNCHANGED <<kind, home, sub, jobs, queue, run, asked>>

\* Faulty variant: the caller is answered before the job is saved.
SaveJobTooLate(n) ==
  /\ conn[n] = "inserted"
  /\ conn' = [conn EXCEPT ![n] = "answered"]
  /\ UNCHANGED <<kind, home, sub, jobs, queue, run, asked>>

\* The agenda job of a new connection is saved.
SaveJob(n) ==
  /\ conn[n] = "inserted"
  /\ jobs' = jobs \union {n}
  /\ conn' = [conn EXCEPT ![n] = "answered"]
  /\ UNCHANGED <<kind, home, sub, queue, run, asked>>

\* CANT_CREATE_AGENDA_JOB: the document stays.
SaveJobFails(n) ==
  /\ conn[n] = "inserted"
  /\ conn' = [conn EXCEPT ![n] = "rejected"]
  /\ UNCHANGED <<kind, home, sub, jobs, queue, run, asked>>

\* removeById, removeByIds: the agenda job stays and goes on firing.
RemoveConnections(gone) ==
  /\ \A n \in gone : conn[n] \in {"answered", "rejected"}
  /\ conn' = [n \in Conns |-> IF n \in gone THEN "removed" ELSE conn[n]]
  /\ UNCHANGED <<kind, home, sub, jobs, queue, run, asked>>

-----------------------------------------------------------------------------
(* The services and collections of the five kinds *)

New(subscribed, active) ==
  [subscribed |-> subscribed, isClientActive |-> active, isProjectActive |-> active]

\* What createSubscription stores.
NewAddressSubscription == New(TRUE, TRUE)
NewContractSubscription == New(TRUE, None)
NewTransactionSubscription == New(TRUE, None)
NewOraclizeSubscription == New(TRUE, None)
NewFabricSubscription == New(None, None)

NewSubscription(k) ==
  CASE k = "address"     -> NewAddressSubscription
    [] k = "contract"    -> NewContractSubscription
    [] k = "transaction" -> NewTransactionSubscription
    [] k = "oraclize"    -> NewOraclizeSubscription
    [] k = "fabric"      -> NewFabricSubscription

\* The contract service first checks the events, and creates nothing if one
\* of them is none of the contract's.
CreateSubscription(s) ==
  /\ sub[s] = None
  /\ sub' = [sub EXCEPT ![s] = NewSubscription(kind[s])]
  /\ asked' = [asked EXCEPT ![s] = "created"]
  /\ UNCHANGED <<kind, home, conn, jobs, queue, run>>

\* The documents of one kind a filter names: by id, by project, by client.
OfKind(k) == {t \in Subs : sub[t] # None /\ kind[t] = k}
WithId(k, s) == {t \in OfKind(k) : t = s}
WithProjectId(k, p) == {t \in OfKind(k) : ProjectOf[t] = p}
WithClientId(k, c) == {t \in OfKind(k) : ClientOf[ProjectOf[t]] = c}

\* updateRaw with $set of one field
Set(rows, field, value) ==
  sub' = [t \in Subs |-> IF t \in rows THEN [sub[t] EXCEPT ![field] = value] ELSE sub[t]]

SetSubscribed(rows, subscribed) ==
  /\ rows # {}
  /\ Set(rows, "subscribed", subscribed)
  /\ UNCHANGED <<kind, home, conn, jobs, queue, run>>

\* What is asked for reaches every subscription of the kind and the owner.
Ask(owned, subscribed) ==
  asked' = [t \in Subs |-> IF sub[t] # None /\ t \in owned
                           THEN (IF subscribed THEN "on" ELSE "off") ELSE asked[t]]

Owned(k, p) == {t \in Subs : kind[t] = k /\ ProjectOf[t] = p}

SetSubscribedById(s, b) == SetSubscribed(WithId(kind[s], s), b) /\ Ask({s}, b)

SetSubscribedByProjectId(k, p, b) ==
  SetSubscribed(WithProjectId(k, p), b) /\ Ask(Owned(k, p), b)

SetSubscribedByClientId(k, c, b) ==
  /\ SetSubscribed(WithClientId(k, c), b)
  /\ Ask(UNION {Owned(k, p) : p \in {q \in ProjectIds : ClientOf[q] = c}}, b)

SetActive(rows, field, b) ==
  /\ rows # {}
  /\ Set(rows, field, b)
  /\ UNCHANGED <<kind, home, conn, jobs, queue, run, asked>>

SetClientActive(k, c, b) == SetActive(WithClientId(k, c), "isClientActive", b)
SetProjectActive(k, p, b) == SetActive(WithProjectId(k, p), "isProjectActive", b)

\* The documents a query asks for: subscribed, and with both flags set.
Subscribed(k) == {t \in OfKind(k) : sub[t].subscribed = TRUE}
Flagged(k) == {t \in OfKind(k) : sub[t].isClientActive = TRUE /\ sub[t].isProjectActive = TRUE}

\* Faulty variant: the queries forget subscribed.
AllActiveUnsubscribed(k) == Flagged(k)

AllActive(k) == Subscribed(k) \intersect Flagged(k)

\* The ActiveOnly queries.  Those of the transaction hash subscriptions and
\* the by-status queries of oraclize look at subscribed alone.
ActiveAddresses == AllActive("address")
ActiveContracts == AllActive("contract")
ActiveFabrics == AllActive("fabric")
ActiveTransactions == Subscribed("transaction")
ActiveOraclizes == Subscribed("oraclize")

ActiveOnly ==
  ActiveAddresses \union ActiveContracts \union ActiveFabrics
    \union ActiveTransactions \union ActiveOraclizes

-----------------------------------------------------------------------------
(* The view *)

\* The five arrays that are joined to a connection.
Joined(n) == {s \in Subs : sub[s] # None /\ home[s] = n}

Match(n, status) ==
  IF status = "All" THEN Joined(n)
  ELSE {s \in Joined(n) : sub[s].subscribed = (status = "Subscribed")}

\* Faulty variant: the arrays are not filtered, so that one subscription
\* brings the whole connection with it.
FilterNot(n, status) ==
  IF Match(n, status) = {} /\ status # "All" THEN None ELSE Joined(n)

\* With a status, some subscription must match and only those that do are
\* kept; a document without the field matches neither status.
Filter(n, status) ==
  IF Match(n, status) = {} /\ status # "All" THEN None ELSE Match(n, status)

\* getById, getByIdAndStatus: the subscriptions the document shows, or null.
View(n, status) == IF Stored(n) THEN Filter(n, status) ELSE None

-----------------------------------------------------------------------------
(* The scheduler, the queue and the job that empties it *)

\* The cron expression of a job is due: a message is sent.
Tick(n) ==
  /\ n \in jobs /\ Len(queue) < MaxQueue
  /\ queue' = Append(queue, n)
  /\ UNCHANGED <<kind, home, sub, conn, jobs, run, asked>>

StartRun ==
  /\ run.pc = "idle"
  /\ run' = [run EXCEPT !.pc = "empty queue"]
  /\ UNCHANGED <<kind, home, sub, conn, jobs, queue, asked>>

Receive ==
  /\ run.pc = "empty queue" /\ queue # <<>>
  /\ run' = [run EXCEPT !.pc = "read view", !.conn = Head(queue)]
  /\ queue' = Tail(queue)
  /\ UNCHANGED <<kind, home, sub, conn, jobs, asked>>

NothingReceived ==
  /\ run.pc = "empty queue" /\ queue = <<>>
  /\ run' = Idle
  /\ UNCHANGED <<kind, home, sub, conn, jobs, queue, asked>>

\* BlockchainListener.execute reads the view; null ends it, and so does an
\* error: the message is gone.
ReadView ==
  /\ run.pc = "read view"
  /\ LET given == View(run.conn, "Subscribed") IN
     run' = IF given = None THEN [Idle EXCEPT !.pc = "empty queue"]
            ELSE [run EXCEPT !.pc = "handlers", !.given = given]
  /\ UNCHANGED <<kind, home, sub, conn, jobs, queue, asked>>

ReadFails ==
  /\ run.pc = "read view"
  /\ run' = [Idle EXCEPT !.pc = "empty queue"]
  /\ UNCHANGED <<kind, home, sub, conn, jobs, queue, asked>>

\* The handlers have worked on what the run was given.
FinishRun ==
  /\ run.pc = "handlers"
  /\ run' = [Idle EXCEPT !.pc = "empty queue"]
  /\ UNCHANGED <<kind, home, sub, conn, jobs, queue, asked>>

Next ==
  \/ \E n \in Conns : CreateConnection(n) \/ SaveJob(n) \/ SaveJobFails(n) \/ Tick(n)
  \/ \E gone \in SUBSET Conns \ {{}} : RemoveConnections(gone)
  \/ \E s \in Subs : CreateSubscription(s)
  \/ \E b \in BOOLEAN :
       \/ \E s \in Subs : SetSubscribedById(s, b)
       \/ \E k \in Kinds, p \in ProjectIds :
            SetSubscribedByProjectId(k, p, b) \/ SetProjectActive(k, p, b)
       \/ \E k \in Kinds, c \in Clients :
            SetSubscribedByClientId(k, c, b) \/ SetClientActive(k, c, b)
  \/ StartRun \/ Receive \/ NothingReceived \/ ReadView \/ ReadFails \/ FinishRun

\* Every job that is saved becomes due again and again, the job that empties
\* the queue is started again and its steps are taken; the database does not
\* refuse every read for one connection.
Proceed == StartRun \/ Receive \/ NothingReceived \/ FinishRun

ReadViewOf(n) == ReadView /\ run.conn = n

Fairness ==
  WF_vars(Proceed) /\ \A n \in Conns : SF_vars(Tick(n)) /\ SF_vars(ReadViewOf(n))

Spec == Init /\ [][Next]_vars /\ Fairness

-----------------------------------------------------------------------------
\* The view shows, for every status, what the owners last asked for: a
\* connection is given to the handlers with exactly the subscriptions that
\* were created or switched on and not switched off since, through whichever
\* of the three setters.  A fabric subscription that was only created is in
\* neither list.
ViewFollowsRequests ==
  \A n \in {m \in Conns : Stored(m)} :
    LET here == {s \in Subs : home[s] = n /\ asked[s] # "nothing"}
        on == {s \in here : asked[s] = "on" \/ (asked[s] = "created" /\ kind[s] # "fabric")}
        off == {s \in here : asked[s] = "off"}
        shown(rows) == IF rows = {} THEN None ELSE rows
    IN  /\ View(n, "All") = here
        /\ View(n, "Subscribed") = shown(on)
        /\ View(n, "Unsubscribed") = shown(off)

\* What an ActiveOnly query of a service lists is what the handlers of its
\* connection are given.  (The converse fails: the view ignores the flags.)
ActiveOnlyIsHandled ==
  \A s \in ActiveOnly : Stored(home[s]) =>
    View(home[s], "Subscribed") # None /\ s \in View(home[s], "Subscribed")

\* A subscription of a connection whose creation was answered is handed to
\* the handlers sooner or later, unless it is switched off or the connection
\* is removed first.
Due(s) == conn[home[s]] = "answered" /\ sub[s] # None /\ sub[s].subscribed = TRUE

SubscribedIsHandled ==
  \A s \in Subs : Due(s) ~> (s \in run.given \/ ~Due(s))
=============================================================================
