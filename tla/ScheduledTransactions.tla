----------------------- MODULE ScheduledTransactions -----------------------
(***************************************************************************)
(* Scheduled transactions, from the request that stores one to the webhook *)
(* and the hash subscription that report on it                             *)
(* (fluence.lib.services: scheduled.tx.service.ts, blockchain.service.ts,  *)
(* webhook.action.service.ts, webhook.caller.service.ts and their DAOs;    *)
(* fluence.ms.abstract.blockchain: scheduled.tx.handler.service.ts,        *)
(* queue.listener.job.ts, schedule.tx.queue.listener.job.ts).              *)
(*                                                                         *)
(* Every time the job of a scheduled transaction is due a message is sent; *)
(* one job of the microservice receives the messages one by one and        *)
(* handles each: reads, broadcast, webhook, subscription, with an await    *)
(* between them and no transaction around them.  A rejected message ends   *)
(* that execution of the job.  The loop that delivers webhooks is outside  *)
(* the repository.                                                         *)
(***************************************************************************)
EXTENDS Integers, Sequences, FiniteSets

CONSTANTS
  Scheduled,             \* scheduled transactions that can be stored
  Txs, Crons,            \* what they can contain
  ProjectOf,             \* ProjectOf[t]: the id of its project
  Clients,               \* the ids of the clients
  None,
  MaxQueue,              \* bound: messages waiting
  MaxFails               \* bound: failed deliveries of one webhook

\* What is assumed of the constants.
ConstantsFit ==
  /\ None \notin Scheduled \union Txs \union Crons
  /\ None \notin {"CREATED", "FAILED", "SENT"}
  /\ MaxQueue \in Nat /\ MaxFails \in Nat

ProjectIds == {ProjectOf[t] : t \in Scheduled}

VARIABLES
  projectOn, clientOn,   \* is a status Active, by id
  doc,        \* the stored scheduled transactions, or None
  due,        \* the cron expression agenda fires each of them by, or None
  queue,      \* messages: the scheduled transaction to send
  run,        \* the job that receives them
  sent,       \* history: pairs of scheduled and broadcast transaction
  webhooks,   \* the collection, in order of insertion
  subs,       \* hash subscriptions: pairs like those of sent
  sender,     \* the delivery of one webhook
  received    \* history: webhooks some endpoint has received

vars == <<projectOn, clientOn, doc, due, queue, run, sent, webhooks, subs, sender, received>>
statuses == <<projectOn, clientOn>>
schedule == <<doc, due>>
delivery == <<sender, received>>

\* Only items written by fill have a webhookUrl; createAction stores none,
\* and no status either.
WebhookActionItem ==
  [refId : Scheduled \union {None}, tx : Txs \union {None}, url : BOOLEAN,
   status : {"CREATED", "FAILED", "SENT", None}, failedCount : 0 .. MaxFails]

Idle == [pc |-> "idle", t |-> None, tx |-> None, on |-> FALSE]
Runs == [pc : {"idle", "receive", "load", "client", "send", "look", "insert", "status", "subscribe"},
         t : Scheduled \union {None}, tx : Txs \union {None}, on : BOOLEAN]
Resting == [pc |-> "idle", item |-> 0, statusCode |-> 0]

TypeOK ==
  /\ projectOn \in [ProjectIds -> BOOLEAN] /\ clientOn \in [Clients -> BOOLEAN]
  /\ doc \in [Scheduled -> [tx : Txs, cron : Crons, creating : BOOLEAN] \union {None}]
  /\ due \in [Scheduled -> Crons \union {None}]
  /\ queue \in Seq(Scheduled) /\ Len(queue) <= MaxQueue
  /\ run \in Runs
  /\ sent \subseteq Scheduled \X Txs /\ subs \subseteq Scheduled \X Txs
  /\ webhooks \in Seq(WebhookActionItem)
  /\ sender \in [pc : {"idle", "called"}, item : 0 .. Len(webhooks), statusCode : {0, 200, 502}]
  /\ received \subseteq 1 .. Len(webhooks)

\* One webhook of a listener's handler is there from the start.
Init ==
  /\ projectOn = [p \in ProjectIds |-> TRUE] /\ clientOn = [c \in Clients |-> TRUE]
  /\ doc = [t \in Scheduled |-> None] /\ due = [t \in Scheduled |-> None]
  /\ queue = <<>> /\ run = Idle /\ sent = {} /\ subs = {}
  /\ webhooks = <<[refId |-> None, tx |-> None, url |-> TRUE, status |-> "CREATED", failedCount |-> 0]>>
  /\ sender = Resting /\ received = {}

-----------------------------------------------------------------------------
(* ScheduledTxService *)

SetProjectStatus(p) ==
  /\ projectOn' = [projectOn EXCEPT ![p] = ~@]
  /\ UNCHANGED <<clientOn, schedule, queue, run, sent, webhooks, subs, delivery>>

SetClientStatus(c) ==
  /\ clientOn' = [clientOn EXCEPT ![c] = ~@]
  /\ UNCHANGED <<projectOn, schedule, queue, run, sent, webhooks, subs, delivery>>

\* createScheduledTx, for a project and a client that exist, whatever their
\* status: the document is inserted, then the agenda job is saved.
CreateScheduledTx(t, tx, cron) ==
  /\ doc[t] = None
  /\ doc' = [doc EXCEPT ![t] = [tx |-> tx, cron |-> cron, creating |-> TRUE]]
  /\ UNCHANGED <<due, statuses, queue, run, sent, webhooks, subs, delivery>>

\* The job is saved, or CANT_CREATE_AGENDA_JOB leaves a document no job is for.
SaveJob(t) ==
  /\ doc[t] # None /\ doc[t].creating
  /\ doc' = [doc EXCEPT ![t].creating = FALSE]
  /\ \/ due' = [due EXCEPT ![t] = doc[t].cron]
     \/ UNCHANGED due
  /\ UNCHANGED <<statuses, queue, run, sent, webhooks, subs, delivery>>

Change(t, new) ==
  /\ doc[t] # None /\ ~doc[t].creating
  /\ doc' = [doc EXCEPT ![t] = new]
  /\ UNCHANGED <<due, statuses, queue, run, sent, webhooks, subs, delivery>>

\* setCronExpression, setTransaction: the agenda job keeps its expression.
SetCronExpression(t, cron) == Change(t, [doc[t] EXCEPT !.cron = cron])
SetTransaction(t, tx) == Change(t, [doc[t] EXCEPT !.tx = tx])

-----------------------------------------------------------------------------
(* The queue and the job that empties it *)

Tick(t) ==
  /\ due[t] # None /\ Len(queue) < MaxQueue
  /\ queue' = Append(queue, t)
  /\ UNCHANGED <<statuses, schedule, run, sent, webhooks, subs, delivery>>

Go(pc) == run' = [run EXCEPT !.pc = pc]

StartRun ==
  /\ run.pc = "idle" /\ Go("receive")
  /\ UNCHANGED <<queue, sent, webhooks, subs>>

Receive ==
  /\ run.pc = "receive"
  /\ IF queue = <<>> THEN run' = Idle /\ UNCHANGED queue
     ELSE /\ run' = [run EXCEPT !.pc = "load", !.t = Head(queue)]
          /\ queue' = Tail(queue)
  /\ UNCHANGED <<sent, webhooks, subs>>

\* handle returns and the next message is received.
HandleReturns == run' = [Idle EXCEPT !.pc = "receive"]

\* Faulty variant: the job is not started again once it has failed.
RejectForever == run' = [Idle EXCEPT !.pc = "failed"]

\* handle rejects, and with it execute; the job ends until it is due again.
Reject == run' = Idle

-----------------------------------------------------------------------------
(* ScheduledTxHandlerService.handle *)

\* The document and its project; an error or a missing document is logged.
Load ==
  /\ run.pc = "load"
  /\ \/ /\ doc[run.t] # None
        /\ run' = [run EXCEPT !.pc = "client", !.tx = doc[run.t].tx,
                              !.on = projectOn[ProjectOf[run.t]]]
     \/ HandleReturns
  /\ UNCHANGED <<queue, sent, webhooks, subs>>

\* clientService.getById(project.id): the client is looked up by the id of
\* the project.  No such client, no such connection or a network that is not
\* registered: the exception is thrown outside the try.
LoadClient ==
  /\ run.pc = "client"
  /\ LET id == ProjectOf[run.t] IN
     \/ IF id \notin Clients THEN Reject
        ELSE IF run.on /\ clientOn[id] THEN Go("send") \/ Reject ELSE HandleReturns
     \/ HandleReturns
  /\ UNCHANGED <<queue, sent, webhooks, subs>>

\* The broadcast answers with the transaction; or it does not, and may have
\* taken place all the same.  The FAILED webhook is never stored: reading the hash of
\* the transaction there is none of makes handle reject.
Send ==
  /\ run.pc = "send"
  /\ \/ sent' = sent \union {<<run.t, run.tx>>} /\ (Go("look") \/ Reject)
     \/ UNCHANGED sent /\ Reject
  /\ UNCHANGED <<queue, webhooks, subs>>

\* Faulty variant: createAction is called without looking first.
LookNot ==
  /\ run.pc = "look" /\ Go("insert")
  /\ UNCHANGED <<queue, sent, webhooks, subs>>

\* createAction looks for an item with the same unique information, which
\* here is the scheduled transaction alone; WEBHOOK_ALREADY_EXISTS and a failing read
\* end in the FAILED branch.
Look ==
  /\ run.pc = "look"
  /\ \/ (\A i \in 1 .. Len(webhooks) : webhooks[i].refId # run.t) /\ Go("insert")
     \/ Reject
  /\ UNCHANGED <<queue, sent, webhooks, subs>>

Insert ==
  /\ run.pc = "insert"
  /\ \/ /\ webhooks' = Append(webhooks,
             [refId |-> run.t, tx |-> run.tx, url |-> FALSE, status |-> None, failedCount |-> 0])
        /\ Go("status")
     \/ UNCHANGED webhooks /\ Reject
  /\ UNCHANGED <<queue, sent, subs>>

Newest == Len(webhooks)

\* setStatus(created.id, Created): if it fails the item keeps no status.
Release ==
  /\ run.pc = "status"
  /\ \/ webhooks' = [webhooks EXCEPT ![Newest].status = "CREATED"] /\ Go("subscribe")
     \/ UNCHANGED webhooks /\ Reject
  /\ UNCHANGED <<queue, sent, subs>>

\* A subscription that cannot be created is logged.
Subscribe ==
  /\ run.pc = "subscribe"
  /\ \/ subs' = subs \union {<<run.t, run.tx>>}
     \/ UNCHANGED subs
  /\ HandleReturns
  /\ UNCHANGED <<queue, sent, webhooks>>

Handle ==
  /\ Receive \/ Load \/ LoadClient \/ Send \/ Look \/ Insert \/ Release \/ Subscribe
  /\ UNCHANGED <<statuses, schedule, delivery>>

-----------------------------------------------------------------------------
(* Delivery *)

\* Faulty variant: an error of the call keeps the initial status code.
CallOptimistic(i) ==
  /\ sender.pc = "idle" /\ webhooks[i].status \in {"CREATED", "FAILED"}
  /\ \E code \in {200, 502}, arrives \in BOOLEAN :
       /\ sender' = [pc |-> "called", item |-> i, statusCode |-> code]
       /\ received' = IF arrives /\ webhooks[i].url THEN received \union {i} ELSE received
  /\ UNCHANGED <<statuses, schedule, queue, run, sent, webhooks, subs>>

\* WebhookCallerService.send: an error -- the answer came too late, there is
\* no url -- becomes the status code 502, although the endpoint may have been
\* reached.
Call(i) ==
  /\ sender.pc = "idle" /\ webhooks[i].status \in {"CREATED", "FAILED"}
  /\ \E code \in {200, 502}, arrives \in BOOLEAN :
       /\ code = 200 => arrives /\ webhooks[i].url
       /\ sender' = [pc |-> "called", item |-> i, statusCode |-> code]
       /\ received' = IF arrives /\ webhooks[i].url THEN received \union {i} ELSE received
  /\ UNCHANGED <<statuses, schedule, queue, run, sent, webhooks, subs>>

\* setStatus(Sent) after an answer, addFailReport after a failure; either may be lost.
Report ==
  /\ sender.pc = "called"
  /\ LET i == sender.item IN
     \/ sender.statusCode = 200 /\ webhooks' = [webhooks EXCEPT ![i].status = "SENT"]
     \/ /\ sender.statusCode # 200 /\ webhooks[i].failedCount < MaxFails
        /\ webhooks' = [webhooks EXCEPT ![i].status = "FAILED", ![i].failedCount = @ + 1]
     \/ UNCHANGED webhooks
  /\ sender' = Resting
  /\ UNCHANGED <<statuses, schedule, queue, run, sent, subs, received>>

-----------------------------------------------------------------------------
Next ==
  \/ \E p \in ProjectIds : SetProjectStatus(p)
  \/ \E c \in Clients : SetClientStatus(c)
  \/ \E t \in Scheduled :
       \/ \E tx \in Txs, cron \in Crons : CreateScheduledTx(t, tx, cron)
       \/ SaveJob(t) \/ Tick(t)
       \/ \E cron \in Crons : SetCronExpression(t, cron)
       \/ \E tx \in Txs : SetTransaction(t, tx)
  \/ StartRun /\ UNCHANGED <<statuses, schedule, delivery>>
  \/ Handle
  \/ \E i \in 1 .. Len(webhooks) : Call(i)
  \/ Report

\* The job that empties the queue is started again and again, and what it
\* awaits comes back.
Proceed == (StartRun /\ UNCHANGED <<statuses, schedule, delivery>>) \/ Handle

Fairness == WF_vars(Proceed)

Spec == Init /\ [][Next]_vars /\ Fairness

-----------------------------------------------------------------------------
\* What is reported about a scheduled transaction happened: a webhook names a
\* transaction that was broadcast for it, there is never a second webhook
\* however often the cron expression fires, and a hash subscription is only
\* made for a transaction whose webhook was stored and released.
ReportsAreTrue ==
  /\ \A i \in 1 .. Len(webhooks) : webhooks[i].refId # None =>
       /\ <<webhooks[i].refId, webhooks[i].tx>> \in sent
       /\ \A j \in 1 .. Len(webhooks) : webhooks[j].refId = webhooks[i].refId => i = j
  /\ \A s \in subs : \E i \in 1 .. Len(webhooks) :
       <<webhooks[i].refId, webhooks[i].tx>> = s /\ webhooks[i].status # None

\* A webhook marked as sent has been received by its endpoint, however calls,
\* late answers and lost reports interleave.
SentWasReceived ==
  \A i \in 1 .. Len(webhooks) : webhooks[i].status = "SENT" => i \in received

\* A message that is rejected ends the execution of the job, never the
\* messages behind it: each message is handled sooner or later.
MessagesAreHandled ==
  \A t \in Scheduled :
    (\E i \in 1 .. Len(queue) : queue[i] = t) ~> (run.pc = "load" /\ run.t = t)
=============================================================================
