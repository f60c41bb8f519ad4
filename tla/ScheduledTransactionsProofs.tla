-------------------- MODULE ScheduledTransactionsProofs --------------------
(***************************************************************************)
(* Proofs about ScheduledTransactions for any scheduled transactions,      *)
(* projects, clients and bounds.                                           *)
(*                                                                         *)
(* What is reported about a scheduled transaction is written after it      *)
(* happened, but several awaits later; so the invariant also says, for     *)
(* each step of the run, what that step may rely on (Phased, Prepared),    *)
(* and for the delivery what it knows between the call and its report      *)
(* (Called).                                                               *)
(***************************************************************************)
EXTENDS ScheduledTransactions, SequenceTheorems, TLAPS

\* From the load on the run is about a scheduled transaction, and once its
\* document was read, about what was in it.
Phased ==
  /\ run.pc \notin {"idle", "receive"} => run.t \in Scheduled
  /\ run.pc \notin {"idle", "receive", "load"} => run.tx \in Txs

\* What the steps after the broadcast rely on: it took place; at the
\* insertion there is no webhook yet; afterwards the newest is this one.
Prepared ==
  /\ run.pc \in {"look", "insert", "status", "subscribe"} => <<run.t, run.tx>> \in sent
  /\ run.pc = "insert" => \A i \in 1 .. Len(webhooks) : webhooks[i].refId # run.t
  /\ run.pc \in {"status", "subscribe"} =>
       Len(webhooks) > 0 /\ webhooks[Newest].refId = run.t /\ webhooks[Newest].tx = run.tx
  /\ run.pc = "subscribe" => webhooks[Newest].status # None

WebhooksAreTrue ==
  \A i \in 1 .. Len(webhooks) : webhooks[i].refId # None =>
    /\ <<webhooks[i].refId, webhooks[i].tx>> \in sent
    /\ \A j \in 1 .. Len(webhooks) : webhooks[j].refId = webhooks[i].refId => i = j

SubsAreTrue ==
  \A s \in subs : \E i \in 1 .. Len(webhooks) :
    <<webhooks[i].refId, webhooks[i].tx>> = s /\ webhooks[i].status # None

\* A call that is not yet reported is about a webhook there is, and if it was
\* answered that one has been received.
Called ==
  sender.pc = "called" =>
    sender.item > 0 /\ (sender.statusCode = 200 => sender.item \in received)

IInv == TypeOK /\ Phased /\ Prepared /\ WebhooksAreTrue /\ SubsAreTrue /\ Called /\ SentWasReceived

\* What the run and the delivery say is told apart from the rest of the state.
Reports == WebhooksAreTrue /\ SubsAreTrue

-----------------------------------------------------------------------------
(* Changes that leave the reports as they are *)

\* The webhooks only get another status, or another count.
Restamped ==
  /\ Len(webhooks') = Len(webhooks)
  /\ \A i \in 1 .. Len(webhooks) :
       /\ webhooks'[i].refId = webhooks[i].refId
       /\ webhooks'[i].tx = webhooks[i].tx
       /\ webhooks[i].status # None => webhooks'[i].status # None

LEMMA RestampingKeepsReports ==
  ASSUME Reports, Restamped, sent \subseteq sent', subs' = subs
  PROVE  Reports'
<1>1. WebhooksAreTrue'
  BY DEF Reports, Restamped, WebhooksAreTrue
<1>2. SubsAreTrue'
  <2> SUFFICES ASSUME NEW s \in subs
               PROVE  \E i \in 1 .. Len(webhooks') :
                        <<webhooks'[i].refId, webhooks'[i].tx>> = s /\ webhooks'[i].status # None
    BY DEF SubsAreTrue
  <2>1. PICK i \in 1 .. Len(webhooks) :
               <<webhooks[i].refId, webhooks[i].tx>> = s /\ webhooks[i].status # None
    BY DEF Reports, SubsAreTrue
  <2>2. /\ i \in 1 .. Len(webhooks')
        /\ <<webhooks'[i].refId, webhooks'[i].tx>> = s
        /\ webhooks'[i].status # None
    BY <2>1 DEF Restamped
  <2> QED BY <2>2
<1> QED BY <1>1, <1>2 DEF Reports

\* The same webhooks are restamped trivially.
LEMMA SameIsRestamped == UNCHANGED webhooks => Restamped
BY DEF Restamped

\* One webhook gets another status, and perhaps another count.
LEMMA StampOne ==
  ASSUME webhooks \in Seq(WebhookActionItem), NEW i \in 1 .. Len(webhooks),
         NEW stamp \in {"CREATED", "FAILED", "SENT"}, NEW count \in 0 .. MaxFails,
         webhooks' = [webhooks EXCEPT ![i] = [webhooks[i] EXCEPT !.status = stamp, !.failedCount = count]],
         stamp # None
  PROVE  /\ webhooks' \in Seq(WebhookActionItem)
         /\ Restamped
         /\ webhooks'[i].status = stamp
         /\ \A j \in 1 .. Len(webhooks) : j # i => webhooks'[j] = webhooks[j]
<1> DEFINE item == [webhooks[i] EXCEPT !.status = stamp, !.failedCount = count]
<1>1. webhooks[i] \in WebhookActionItem
  OBVIOUS
<1>2. /\ item \in WebhookActionItem
      /\ item.refId = webhooks[i].refId
      /\ item.tx = webhooks[i].tx
      /\ item.status = stamp
  BY <1>1 DEF WebhookActionItem
<1>3. webhooks' = [webhooks EXCEPT ![i] = item]
  OBVIOUS
<1> HIDE DEF item
<1>4. /\ webhooks' \in Seq(WebhookActionItem)
      /\ Len(webhooks') = Len(webhooks)
      /\ webhooks'[i] = item
      /\ \A j \in 1 .. Len(webhooks) : j # i => webhooks'[j] = webhooks[j]
  <2>1. /\ [webhooks EXCEPT ![i] = item] \in Seq(WebhookActionItem)
        /\ Len([webhooks EXCEPT ![i] = item]) = Len(webhooks)
        /\ \A j \in 1 .. Len(webhooks) :
             [webhooks EXCEPT ![i] = item][j] = IF j = i THEN item ELSE webhooks[j]
    BY <1>2, ExceptSeq
  <2> QED BY <1>3, <2>1
<1>5. Restamped
  BY <1>2, <1>4 DEF Restamped
<1> QED BY <1>2, <1>4, <1>5

-----------------------------------------------------------------------------
(* The requests, the cron and the statuses: the run and the reports keep     *)
(* what they have.                                                           *)

LEMMA OthersKeepReports ==
  ASSUME IInv, UNCHANGED <<run, sent, webhooks, subs, delivery>>
  PROVE  /\ Phased' /\ Prepared' /\ WebhooksAreTrue' /\ SubsAreTrue'
         /\ Called' /\ SentWasReceived'
<1>1. Phased'
  BY DEF IInv, Phased
<1>2. Prepared'
  BY DEF IInv, Prepared, Newest
<1>3. WebhooksAreTrue'
  BY DEF IInv, WebhooksAreTrue
<1>4. SubsAreTrue'
  BY DEF IInv, SubsAreTrue
<1>5. Called'
  BY DEF IInv, Called, delivery
<1>6. SentWasReceived'
  BY DEF IInv, SentWasReceived, delivery
<1> QED BY <1>1, <1>2, <1>3, <1>4, <1>5, <1>6

Requests ==
  \/ \E p \in ProjectIds : SetProjectStatus(p)
  \/ \E c \in Clients : SetClientStatus(c)
  \/ \E t \in Scheduled :
       \/ \E tx \in Txs, cron \in Crons : CreateScheduledTx(t, tx, cron)
       \/ SaveJob(t) \/ Tick(t)
       \/ \E cron \in Crons : SetCronExpression(t, cron)
       \/ \E tx \in Txs : SetTransaction(t, tx)

LEMMA RequestsKeepIInv ==
  ASSUME ConstantsFit, IInv, Requests
  PROVE  IInv'
<1> DEFINE Doc == [tx : Txs, cron : Crons, creating : BOOLEAN]
<1>0. UNCHANGED <<run, sent, webhooks, subs, delivery>>
  BY DEF Requests, SetProjectStatus, SetClientStatus, CreateScheduledTx, SaveJob, Tick,
         SetCronExpression, SetTransaction, Change
<1>1. TypeOK'
  <2>1. ASSUME NEW p \in ProjectIds, SetProjectStatus(p) PROVE TypeOK'
    BY <1>0, <2>1 DEF IInv, TypeOK, SetProjectStatus, schedule, delivery
  <2>2. ASSUME NEW c \in Clients, SetClientStatus(c) PROVE TypeOK'
    BY <1>0, <2>2 DEF IInv, TypeOK, SetClientStatus, schedule, delivery
  <2>3. ASSUME NEW t \in Scheduled, NEW tx \in Txs, NEW cron \in Crons, CreateScheduledTx(t, tx, cron)
        PROVE  TypeOK'
    <3>1. [tx |-> tx, cron |-> cron, creating |-> TRUE] \in Doc
      OBVIOUS
    <3>2. doc' \in [Scheduled -> Doc \union {None}]
      BY <2>3, <3>1 DEF IInv, TypeOK, CreateScheduledTx
    <3> QED BY <1>0, <2>3, <3>2 DEF IInv, TypeOK, CreateScheduledTx, statuses, delivery
  <2>4. ASSUME NEW t \in Scheduled, SaveJob(t) PROVE TypeOK'
    <3>1. doc[t] \in Doc
      BY <2>4 DEF IInv, TypeOK, SaveJob
    <3>2. [doc[t] EXCEPT !.creating = FALSE] \in Doc
      BY <3>1
    <3>3. doc' = [doc EXCEPT ![t] = [doc[t] EXCEPT !.creating = FALSE]]
      BY <2>4 DEF SaveJob
    <3>4. doc' \in [Scheduled -> Doc \union {None}]
      BY <3>2, <3>3 DEF IInv, TypeOK
    <3>5. due' \in [Scheduled -> Crons \union {None}]
      BY <2>4, <3>1 DEF IInv, TypeOK, SaveJob
    <3> QED BY <1>0, <2>4, <3>4, <3>5 DEF IInv, TypeOK, SaveJob, statuses, delivery
  <2>5. ASSUME NEW t \in Scheduled, Tick(t) PROVE TypeOK'
    <3>1. queue \in Seq(Scheduled) /\ Len(queue) \in Nat
      BY DEF IInv, TypeOK
    <3>2. Append(queue, t) \in Seq(Scheduled) /\ Len(Append(queue, t)) = Len(queue) + 1
      BY <3>1, AppendProperties
    <3>3. queue' \in Seq(Scheduled) /\ Len(queue') <= MaxQueue
      BY <2>5, <3>1, <3>2 DEF ConstantsFit, Tick
    <3> QED BY <1>0, <2>5, <3>3 DEF IInv, TypeOK, Tick, statuses, schedule, delivery
  <2>6. ASSUME NEW t \in Scheduled, NEW new, doc[t] \in Doc => new \in Doc, Change(t, new) PROVE TypeOK'
    <3>1. doc[t] \in Doc
      BY <2>6 DEF IInv, TypeOK, Change
    <3>2. doc' \in [Scheduled -> Doc \union {None}]
      BY <2>6, <3>1 DEF IInv, TypeOK, Change
    <3> QED BY <1>0, <2>6, <3>2 DEF IInv, TypeOK, Change, statuses, delivery
  <2>7. ASSUME NEW t \in Scheduled, NEW cron \in Crons, SetCronExpression(t, cron) PROVE TypeOK'
    <3>1. doc[t] \in Doc => [doc[t] EXCEPT !.cron = cron] \in Doc
      OBVIOUS
    <3> QED BY <2>6, <2>7, <3>1 DEF SetCronExpression
  <2>8. ASSUME NEW t \in Scheduled, NEW tx \in Txs, SetTransaction(t, tx) PROVE TypeOK'
    <3>1. doc[t] \in Doc => [doc[t] EXCEPT !.tx = tx] \in Doc
      OBVIOUS
    <3> QED BY <2>6, <2>8, <3>1 DEF SetTransaction
  <2> QED BY <2>1, <2>2, <2>3, <2>4, <2>5, <2>7, <2>8 DEF Requests
<1> QED BY <1>0, <1>1, OthersKeepReports DEF IInv

-----------------------------------------------------------------------------
(* The run *)

\* What a step of the run has to show; the delivery is not its business.
Step ==
  /\ UNCHANGED <<statuses, schedule, delivery>>
  /\ queue' \in Seq(Scheduled) /\ Len(queue') <= MaxQueue
  /\ run' \in Runs
  /\ sent' \subseteq Scheduled \X Txs /\ subs' \subseteq Scheduled \X Txs
  /\ webhooks' \in Seq(WebhookActionItem)
  /\ Len(webhooks') >= Len(webhooks)
  /\ \A i \in 1 .. Len(webhooks') : webhooks'[i].status = "SENT" =>
       i \in 1 .. Len(webhooks) /\ webhooks[i].status = "SENT"

LEMMA StepKeepsIInv ==
  ASSUME IInv, Step, Phased', Prepared', WebhooksAreTrue', SubsAreTrue'
  PROVE  IInv'
<1>1. Len(webhooks) \in Nat /\ Len(webhooks') \in Nat /\ Len(webhooks') >= Len(webhooks)
  BY DEF IInv, TypeOK, Step
<1>2. 0 .. Len(webhooks) \subseteq 0 .. Len(webhooks') /\ 1 .. Len(webhooks) \subseteq 1 .. Len(webhooks')
  BY <1>1
<1>3. UNCHANGED <<sender, received, projectOn, clientOn, doc, due>>
  BY DEF Step, delivery, statuses, schedule
<1>4. sender' \in [pc : {"idle", "called"}, item : 0 .. Len(webhooks'), statusCode : {0, 200, 502}]
  BY <1>2, <1>3 DEF IInv, TypeOK
<1>5. TypeOK'
  <2>1. received' \subseteq 1 .. Len(webhooks')
    BY <1>2, <1>3 DEF IInv, TypeOK
  <2> QED BY <1>3, <1>4, <2>1 DEF IInv, TypeOK, Step
<1>6. Called'
  BY <1>3 DEF IInv, Called
<1>7. SentWasReceived'
  BY <1>3 DEF IInv, SentWasReceived, Step
<1> QED BY <1>5, <1>6, <1>7 DEF IInv

\* As long as nothing is written, only the run's own knowledge matters.
LEMMA ReadingKeepsIInv ==
  ASSUME IInv, run' \in Runs, UNCHANGED <<statuses, schedule, delivery, webhooks, subs>>,
         queue' \in Seq(Scheduled), Len(queue') <= MaxQueue,
         sent' \subseteq Scheduled \X Txs, sent \subseteq sent',
         Phased', Prepared'
  PROVE  IInv'
<1>1. webhooks \in Seq(WebhookActionItem) /\ Len(webhooks) \in Nat
  BY DEF IInv, TypeOK
<1>2. Step
  BY <1>1 DEF IInv, TypeOK, Step
<1>3. Reports'
  BY SameIsRestamped, RestampingKeepsReports DEF IInv, Reports
<1> QED BY <1>2, <1>3, StepKeepsIInv DEF Reports

LEMMA RunTypes ==
  ASSUME IInv
  PROVE  /\ run \in Runs
         /\ queue \in Seq(Scheduled) /\ Len(queue) <= MaxQueue
         /\ sent \subseteq Scheduled \X Txs
         /\ subs \subseteq Scheduled \X Txs
         /\ webhooks \in Seq(WebhookActionItem)
         /\ Len(webhooks) \in Nat
BY DEF IInv, TypeOK

\* Ending, and returning to the queue, need nothing.
LEMMA RestingRun ==
  /\ Idle \in Runs
  /\ [Idle EXCEPT !.pc = "receive"] \in Runs
  /\ Idle.pc = "idle"
  /\ [Idle EXCEPT !.pc = "receive"].pc = "receive"
BY DEF Idle, Runs

LEMMA EndingKeepsIInv ==
  ASSUME IInv, Reject \/ HandleReturns, UNCHANGED <<statuses, schedule, delivery, webhooks, subs, queue>>,
         sent' \subseteq Scheduled \X Txs, sent \subseteq sent'
  PROVE  IInv'
<1>1. run' \in Runs /\ run'.pc \in {"idle", "receive"}
  BY RestingRun DEF Reject, HandleReturns
<1>2. Phased' /\ Prepared'
  BY <1>1 DEF Phased, Prepared
<1> QED BY <1>1, <1>2, RunTypes, ReadingKeepsIInv

\* Another step about the same transaction.
LEMMA GoTypes ==
  ASSUME run \in Runs,
         NEW pc \in {"idle", "receive", "load", "client", "send", "look", "insert", "status", "subscribe"},
         Go(pc)
  PROVE  run' \in Runs /\ run'.pc = pc /\ run'.t = run.t /\ run'.tx = run.tx
BY DEF Go, Runs

LEMMA StartRunKeepsIInv ==
  ASSUME IInv, StartRun, UNCHANGED <<statuses, schedule, delivery>>
  PROVE  IInv'
<1>1. run' \in Runs /\ run'.pc = "receive"
  BY RunTypes, GoTypes DEF StartRun
<1>2. Phased' /\ Prepared'
  BY <1>1 DEF Phased, Prepared
<1>3. UNCHANGED <<queue, sent, webhooks, subs>>
  BY DEF StartRun
<1> QED BY <1>1, <1>2, <1>3, RunTypes, ReadingKeepsIInv

LEMMA ReceiveKeepsIInv ==
  ASSUME ConstantsFit, IInv, Receive, UNCHANGED <<statuses, schedule, delivery>>
  PROVE  IInv'
<1>1. UNCHANGED <<sent, webhooks, subs>>
  BY DEF Receive
<1>2. CASE queue = <<>>
  BY <1>1, <1>2, RunTypes, EndingKeepsIInv DEF Receive, Reject
<1>3. CASE queue # <<>>
  <2>1. /\ Head(queue) \in Scheduled
        /\ Tail(queue) \in Seq(Scheduled)
        /\ Len(Tail(queue)) = Len(queue) - 1
    BY <1>3, RunTypes, HeadTailProperties
  <2>2. queue' \in Seq(Scheduled) /\ Len(queue') <= MaxQueue
    <3>1. queue' = Tail(queue) /\ Len(queue) \in Nat /\ Len(queue) <= MaxQueue
      BY <1>3, RunTypes DEF Receive
    <3> QED BY <2>1, <3>1 DEF ConstantsFit
  <2>3. run' \in Runs /\ run'.pc = "load" /\ run'.t \in Scheduled
    BY <1>3, <2>1, RunTypes DEF Receive, Runs
  <2>4. Phased' /\ Prepared'
    BY <2>3 DEF Phased, Prepared
  <2> QED BY <1>1, <2>2, <2>3, <2>4, RunTypes, ReadingKeepsIInv
<1> QED BY <1>2, <1>3

LEMMA LoadKeepsIInv ==
  ASSUME IInv, Load, UNCHANGED <<statuses, schedule, delivery>>
  PROVE  IInv'
<1>1. UNCHANGED <<queue, sent, webhooks, subs>>
  BY DEF Load
<1>2. CASE HandleReturns
  BY <1>1, <1>2, RunTypes, EndingKeepsIInv
<1>3. CASE /\ doc[run.t] # None
           /\ run' = [run EXCEPT !.pc = "client", !.tx = doc[run.t].tx,
                                 !.on = projectOn[ProjectOf[run.t]]]
  <2>1. run.t \in Scheduled
    BY DEF IInv, Phased, Load
  <2>2. doc[run.t] \in [tx : Txs, cron : Crons, creating : BOOLEAN]
    BY <1>3, <2>1 DEF IInv, TypeOK
  <2>3. projectOn[ProjectOf[run.t]] \in BOOLEAN
    BY <2>1 DEF IInv, TypeOK, ProjectIds
  <2>4. run' \in Runs /\ run'.pc = "client" /\ run'.t \in Scheduled /\ run'.tx \in Txs
    <3> DEFINE tx == doc[run.t].tx
               on == projectOn[ProjectOf[run.t]]
    <3>1. tx \in Txs /\ on \in BOOLEAN /\ run' = [run EXCEPT !.pc = "client", !.tx = tx, !.on = on]
      BY <1>3, <2>2, <2>3
    <3> HIDE DEF tx, on
    <3> QED BY <2>1, <3>1, RunTypes DEF Runs
  <2>5. Phased' /\ Prepared'
    BY <2>4 DEF Phased, Prepared
  <2> QED BY <1>1, <2>4, <2>5, RunTypes, ReadingKeepsIInv
<1> QED BY <1>2, <1>3 DEF Load

LEMMA LoadClientKeepsIInv ==
  ASSUME IInv, LoadClient, UNCHANGED <<statuses, schedule, delivery>>
  PROVE  IInv'
<1>1. UNCHANGED <<queue, sent, webhooks, subs>>
  BY DEF LoadClient
<1>2. CASE Reject \/ HandleReturns
  BY <1>1, <1>2, RunTypes, EndingKeepsIInv
<1>3. CASE Go("send")
  <2>1. run' \in Runs /\ run'.pc = "send" /\ run'.t = run.t /\ run'.tx = run.tx
    BY <1>3, RunTypes, GoTypes
  <2>2. run.t \in Scheduled /\ run.tx \in Txs
    BY DEF IInv, Phased, LoadClient
  <2>3. Phased' /\ Prepared'
    BY <2>1, <2>2 DEF Phased, Prepared
  <2> QED BY <1>1, <2>1, <2>3, RunTypes, ReadingKeepsIInv
<1> QED BY <1>2, <1>3 DEF LoadClient

LEMMA SendKeepsIInv ==
  ASSUME IInv, Send, UNCHANGED <<statuses, schedule, delivery>>
  PROVE  IInv'
<1>1. UNCHANGED <<queue, webhooks, subs>>
  BY DEF Send
<1>2. run.pc = "send" /\ run.t \in Scheduled /\ run.tx \in Txs
  BY DEF IInv, Phased, Send
<1>3. sent' \subseteq Scheduled \X Txs /\ sent \subseteq sent'
  BY <1>2, RunTypes DEF Send
<1>4. CASE Reject
  BY <1>1, <1>3, <1>4, EndingKeepsIInv
<1>5. CASE sent' = sent \union {<<run.t, run.tx>>} /\ Go("look")
  <2>1. run' \in Runs /\ run'.pc = "look" /\ run'.t = run.t /\ run'.tx = run.tx
    BY <1>5, RunTypes, GoTypes
  <2>2. Phased'
    BY <1>2, <2>1 DEF Phased
  <2>3. Prepared'
    BY <1>5, <2>1 DEF Prepared
  <2> QED BY <1>1, <1>3, <2>1, <2>2, <2>3, RunTypes, ReadingKeepsIInv
<1> QED BY <1>4, <1>5 DEF Send

LEMMA LookKeepsIInv ==
  ASSUME IInv, Look, UNCHANGED <<statuses, schedule, delivery>>
  PROVE  IInv'
<1>1. UNCHANGED <<queue, sent, webhooks, subs>>
  BY DEF Look
<1>2. run.t \in Scheduled /\ run.tx \in Txs /\ <<run.t, run.tx>> \in sent
  BY DEF IInv, Phased, Prepared, Look
<1>3. CASE Reject
  BY <1>1, <1>3, RunTypes, EndingKeepsIInv
<1>4. CASE (\A i \in 1 .. Len(webhooks) : webhooks[i].refId # run.t) /\ Go("insert")
  <2>1. run' \in Runs /\ run'.pc = "insert" /\ run'.t = run.t /\ run'.tx = run.tx
    BY <1>4, RunTypes, GoTypes
  <2>2. Phased'
    BY <1>2, <2>1 DEF Phased
  <2>3. Prepared'
    BY <1>1, <1>2, <1>4, <2>1 DEF Prepared
  <2> QED BY <1>1, <2>1, <2>2, <2>3, RunTypes, ReadingKeepsIInv
<1> QED BY <1>3, <1>4 DEF Look

\* The new webhook is the only one of its scheduled transaction.
LEMMA InsertKeepsIInv ==
  ASSUME ConstantsFit, IInv, Insert, UNCHANGED <<statuses, schedule, delivery>>
  PROVE  IInv'
<1>1. UNCHANGED <<queue, sent, subs>>
  BY DEF Insert
<1>2. /\ run.t \in Scheduled /\ run.tx \in Txs /\ <<run.t, run.tx>> \in sent
      /\ \A i \in 1 .. Len(webhooks) : webhooks[i].refId # run.t
  BY DEF IInv, Phased, Prepared, Insert
<1>3. CASE UNCHANGED webhooks /\ Reject
  BY <1>1, <1>3, RunTypes, EndingKeepsIInv
<1> DEFINE new == [refId |-> run.t, tx |-> run.tx, url |-> FALSE, status |-> None, failedCount |-> 0]
<1>4. CASE webhooks' = Append(webhooks, new) /\ Go("status")
  <2>1. /\ new \in WebhookActionItem /\ new.refId = run.t /\ new.tx = run.tx
        /\ new.status = None /\ new.status # "SENT"
    BY <1>2 DEF ConstantsFit, WebhookActionItem
  <2>2. webhooks' = Append(webhooks, new)
    BY <1>4
  <2> HIDE DEF new
  <2>3. /\ webhooks' \in Seq(WebhookActionItem)
        /\ Len(webhooks') = Len(webhooks) + 1
        /\ \A i \in 1 .. Len(webhooks) : webhooks'[i] = webhooks[i]
        /\ webhooks'[Len(webhooks) + 1] = new
    BY <2>1, <2>2, RunTypes, AppendProperties
  <2>4. /\ 1 .. Len(webhooks') = (1 .. Len(webhooks)) \union {Len(webhooks) + 1}
        /\ Len(webhooks) + 1 \notin 1 .. Len(webhooks)
    BY <2>3, RunTypes
  <2>5. run' \in Runs /\ run'.pc = "status" /\ run'.t = run.t /\ run'.tx = run.tx
    BY <1>4, RunTypes, GoTypes
  <2>6. Phased'
    BY <1>2, <2>5 DEF Phased
  <2>7. Prepared'
    BY <1>1, <1>2, <2>1, <2>3, <2>5, RunTypes DEF Prepared, Newest
  <2>8. WebhooksAreTrue'
    BY <1>1, <1>2, <2>1, <2>3, <2>4 DEF IInv, WebhooksAreTrue
  <2>9. SubsAreTrue'
    BY <1>1, <2>3, <2>4 DEF IInv, SubsAreTrue
  <2>10. Step
    BY <1>1, <2>1, <2>3, <2>4, <2>5, RunTypes DEF Step
  <2> QED BY <2>6, <2>7, <2>8, <2>9, <2>10, StepKeepsIInv
<1> QED BY <1>3, <1>4 DEF Insert

\* setStatus: the webhook the run has just inserted is released.
LEMMA ReleaseKeepsIInv ==
  ASSUME ConstantsFit, IInv, Release, UNCHANGED <<statuses, schedule, delivery>>
  PROVE  IInv'
<1>1. UNCHANGED <<queue, sent, subs>>
  BY DEF Release
<1>2. /\ run.t \in Scheduled /\ run.tx \in Txs /\ <<run.t, run.tx>> \in sent
      /\ Len(webhooks) > 0 /\ webhooks[Len(webhooks)].refId = run.t /\ webhooks[Len(webhooks)].tx = run.tx
  BY DEF IInv, Phased, Prepared, Release, Newest
<1>3. CASE UNCHANGED webhooks /\ Reject
  BY <1>1, <1>3, RunTypes, EndingKeepsIInv
<1>4. CASE webhooks' = [webhooks EXCEPT ![Newest].status = "CREATED"] /\ Go("subscribe")
  <2> DEFINE i == Len(webhooks)
             count == webhooks[i].failedCount
  <2>1. i \in 1 .. Len(webhooks)
    BY <1>2, RunTypes
  <2>2. webhooks[i] \in WebhookActionItem
    BY <2>1, RunTypes
  <2>3. [webhooks[i] EXCEPT !.status = "CREATED"] =
          [webhooks[i] EXCEPT !.status = "CREATED", !.failedCount = count]
    BY <2>2 DEF WebhookActionItem
  <2>4. /\ count \in 0 .. MaxFails
        /\ webhooks' = [webhooks EXCEPT ![i] = [webhooks[i] EXCEPT !.status = "CREATED", !.failedCount = count]]
    BY <1>4, <2>2, <2>3 DEF WebhookActionItem, Newest
  <2>5. "CREATED" # None
    BY DEF ConstantsFit
  <2> HIDE DEF i, count
  <2>6. /\ webhooks' \in Seq(WebhookActionItem)
        /\ Restamped
        /\ webhooks'[i].status = "CREATED"
        /\ \A j \in 1 .. Len(webhooks) : j # i => webhooks'[j] = webhooks[j]
    BY <2>1, <2>4, <2>5, RunTypes, StampOne
  <2>7. run' \in Runs /\ run'.pc = "subscribe" /\ run'.t = run.t /\ run'.tx = run.tx
    BY <1>4, RunTypes, GoTypes
  <2>8. Phased'
    BY <1>2, <2>7 DEF Phased
  <2>9. Prepared'
    <3>1. i = Len(webhooks) /\ Len(webhooks') = Len(webhooks)
      BY <2>6 DEF i, Restamped
    <3> QED BY <1>1, <1>2, <2>1, <2>5, <2>6, <2>7, <3>1 DEF Prepared, Newest, Restamped
  <2>10. WebhooksAreTrue' /\ SubsAreTrue'
    BY <1>1, <2>6, RestampingKeepsReports DEF IInv, Reports
  <2>11. Step
    <3>1. Len(webhooks') = Len(webhooks)
      BY <2>6 DEF Restamped
    <3>2. \A j \in 1 .. Len(webhooks') : webhooks'[j].status = "SENT" =>
            j \in 1 .. Len(webhooks) /\ webhooks[j].status = "SENT"
      BY <2>6, <3>1
    <3> QED BY <1>1, <2>6, <2>7, <3>1, <3>2, RunTypes DEF Step
  <2> QED BY <2>8, <2>9, <2>10, <2>11, StepKeepsIInv
<1> QED BY <1>3, <1>4 DEF Release

LEMMA SubscribeKeepsIInv ==
  ASSUME IInv, Subscribe, UNCHANGED <<statuses, schedule, delivery>>
  PROVE  IInv'
<1>1. UNCHANGED <<queue, sent, webhooks>> /\ HandleReturns
  BY DEF Subscribe
<1>2. CASE UNCHANGED subs
  BY <1>1, <1>2, RunTypes, EndingKeepsIInv
<1>3. CASE subs' = subs \union {<<run.t, run.tx>>}
  <2>1. /\ run.t \in Scheduled /\ run.tx \in Txs
        /\ Len(webhooks) > 0 /\ webhooks[Len(webhooks)].refId = run.t /\ webhooks[Len(webhooks)].tx = run.tx
        /\ webhooks[Len(webhooks)].status # None
    BY DEF IInv, Phased, Prepared, Subscribe, Newest
  <2>2. run' \in Runs /\ run'.pc = "receive"
    BY <1>1, RestingRun DEF HandleReturns
  <2>3. Phased' /\ Prepared'
    BY <2>2 DEF Phased, Prepared
  <2>4. SubsAreTrue'
    <3>1. Len(webhooks) \in 1 .. Len(webhooks)
      BY <2>1, RunTypes
    <3>2. SubsAreTrue
      BY DEF IInv
    <3> QED BY <1>1, <1>3, <2>1, <3>1, <3>2 DEF SubsAreTrue
  <2>5. WebhooksAreTrue'
    BY <1>1 DEF IInv, WebhooksAreTrue
  <2>6. Step
    BY <1>1, <1>3, <2>1, <2>2, RunTypes DEF Step
  <2> QED BY <2>3, <2>4, <2>5, <2>6, StepKeepsIInv
<1> QED BY <1>2, <1>3 DEF Subscribe

LEMMA HandleKeepsIInv ==
  ASSUME ConstantsFit, IInv, Handle
  PROVE  IInv'
BY ReceiveKeepsIInv, LoadKeepsIInv, LoadClientKeepsIInv, SendKeepsIInv, LookKeepsIInv,
   InsertKeepsIInv, ReleaseKeepsIInv, SubscribeKeepsIInv DEF Handle

-----------------------------------------------------------------------------
(* The delivery *)

\* A call that is answered has reached the endpoint.
LEMMA CallKeepsIInv ==
  ASSUME IInv, NEW i \in 1 .. Len(webhooks), Call(i)
  PROVE  IInv'
<1>1. UNCHANGED <<projectOn, clientOn, doc, due, queue, run, sent, webhooks, subs>>
  BY DEF Call, statuses, schedule
<1>2. PICK code \in {200, 502}, arrives \in BOOLEAN :
        /\ code = 200 => arrives /\ webhooks[i].url
        /\ sender' = [pc |-> "called", item |-> i, statusCode |-> code]
        /\ received' = IF arrives /\ webhooks[i].url THEN received \union {i} ELSE received
  BY DEF Call
<1>3. received \subseteq received' /\ received' \subseteq received \union {i} /\ (code = 200 => i \in received')
  <2>1. CASE arrives /\ webhooks[i].url
    BY <1>2, <2>1
  <2>2. CASE ~(arrives /\ webhooks[i].url)
    BY <1>2, <2>2
  <2> QED BY <2>1, <2>2
<1>4. i \in 0 .. Len(webhooks) /\ i > 0 /\ i \in Nat
  BY RunTypes
<1>5. TypeOK'
  <2>1. sender' \in [pc : {"idle", "called"}, item : 0 .. Len(webhooks), statusCode : {0, 200, 502}]
    BY <1>2, <1>4
  <2>2. received' \subseteq 1 .. Len(webhooks)
    <3>1. received \subseteq 1 .. Len(webhooks)
      BY DEF IInv, TypeOK
    <3>2. received' \subseteq received \union {i}
      BY <1>3
    <3> QED BY <3>1, <3>2
  <2> QED BY <1>1, <2>1, <2>2 DEF IInv, TypeOK
<1>6. Called'
  BY <1>2, <1>3, <1>4 DEF Called
<1>7. SentWasReceived'
  BY <1>1, <1>3 DEF IInv, SentWasReceived
<1>8. Phased' /\ Prepared'
  BY <1>1 DEF IInv, Phased, Prepared, Newest
<1>9. WebhooksAreTrue' /\ SubsAreTrue'
  BY <1>1, SameIsRestamped, RestampingKeepsReports DEF IInv, Reports
<1> QED BY <1>5, <1>6, <1>7, <1>8, <1>9 DEF IInv

\* What the report changes is a webhook's status, and SENT is only written
\* after an answer.
LEMMA ReportKeepsIInv ==
  ASSUME ConstantsFit, IInv, Report
  PROVE  IInv'
<1> DEFINE i == sender.item
<1>1. /\ UNCHANGED <<projectOn, clientOn, doc, due, queue, run, sent, subs, received>>
      /\ sender' = Resting
  BY DEF Report, statuses, schedule
<1>2. /\ sender.pc = "called" /\ i \in 1 .. Len(webhooks)
      /\ sender.statusCode = 200 => i \in received
  <2>1. sender.pc = "called" /\ sender.item \in 0 .. Len(webhooks) /\ sender.item > 0
    BY DEF Report, IInv, Called, TypeOK
  <2> QED BY <2>1, RunTypes DEF IInv, Called
<1>3. /\ webhooks' \in Seq(WebhookActionItem)
      /\ Restamped
      /\ \A j \in 1 .. Len(webhooks) : webhooks'[j].status = "SENT" =>
           webhooks[j].status = "SENT" \/ j \in received
  <2>0. webhooks[i] \in WebhookActionItem
    BY <1>2, RunTypes
  <2>1. CASE UNCHANGED webhooks
    BY <2>1, RunTypes, SameIsRestamped
  <2>2. CASE sender.statusCode = 200 /\ webhooks' = [webhooks EXCEPT ![i].status = "SENT"]
    <3> DEFINE count == webhooks[i].failedCount
    <3>1. [webhooks[i] EXCEPT !.status = "SENT"] = [webhooks[i] EXCEPT !.status = "SENT", !.failedCount = count]
      BY <2>0 DEF WebhookActionItem
    <3>2. /\ count \in 0 .. MaxFails
          /\ webhooks' = [webhooks EXCEPT ![i] = [webhooks[i] EXCEPT !.status = "SENT", !.failedCount = count]]
          /\ "SENT" # None
      BY <2>0, <2>2, <3>1 DEF ConstantsFit, WebhookActionItem
    <3> HIDE DEF count, i
    <3>3. /\ webhooks' \in Seq(WebhookActionItem)
          /\ Restamped
          /\ \A j \in 1 .. Len(webhooks) : j # i => webhooks'[j] = webhooks[j]
      BY <1>2, <3>2, RunTypes, StampOne
    <3> QED BY <1>2, <2>2, <3>3
  <2>3. CASE /\ sender.statusCode # 200 /\ webhooks[i].failedCount < MaxFails
             /\ webhooks' = [webhooks EXCEPT ![i].status = "FAILED", ![i].failedCount = @ + 1]
    <3> DEFINE count == webhooks[i].failedCount + 1
    <3>1. count \in 0 .. MaxFails /\ "FAILED" # None
      BY <2>0, <2>3 DEF ConstantsFit, WebhookActionItem
    <3>2. webhooks' = [webhooks EXCEPT ![i] = [webhooks[i] EXCEPT !.status = "FAILED", !.failedCount = count]]
      <4>1. webhooks \in Seq(WebhookActionItem) /\ i \in 1 .. Len(webhooks) /\ Len(webhooks) \in Nat
        BY <1>2, RunTypes
      <4>2. i \in DOMAIN webhooks
        BY <4>1
      <4> QED BY <2>0, <2>3, <4>2 DEF WebhookActionItem
    <3> HIDE DEF count, i
    <3>3. /\ webhooks' \in Seq(WebhookActionItem)
          /\ Restamped
          /\ webhooks'[i].status = "FAILED"
          /\ \A j \in 1 .. Len(webhooks) : j # i => webhooks'[j] = webhooks[j]
      BY <1>2, <3>1, <3>2, RunTypes, StampOne
    <3> QED BY <1>2, <3>3
  <2> QED BY <2>1, <2>2, <2>3 DEF Report
<1> HIDE DEF i
<1>4. Len(webhooks') = Len(webhooks)
  BY <1>3 DEF Restamped
<1>5. TypeOK'
  <2>1. Resting \in [pc : {"idle", "called"}, item : 0 .. Len(webhooks'), statusCode : {0, 200, 502}]
    BY <1>4, RunTypes DEF Resting
  <2>2. received' \subseteq 1 .. Len(webhooks')
    BY <1>1, <1>4 DEF IInv, TypeOK
  <2> QED BY <1>1, <1>3, <2>1, <2>2 DEF IInv, TypeOK
<1>6. Called'
  BY <1>1 DEF Called, Resting
<1>7. SentWasReceived'
  BY <1>1, <1>3, <1>4 DEF IInv, SentWasReceived
<1>8. Phased'
  BY <1>1 DEF IInv, Phased
<1>9. Prepared'
  <2>1. Prepared
    BY DEF IInv
  <2>2. Len(webhooks) > 0 => Len(webhooks) \in 1 .. Len(webhooks)
    BY RunTypes
  <2> QED BY <1>1, <1>3, <1>4, <2>1, <2>2 DEF Prepared, Newest, Restamped
<1>10. WebhooksAreTrue' /\ SubsAreTrue'
  BY <1>1, <1>3, RestampingKeepsReports DEF IInv, Reports
<1> QED BY <1>5, <1>6, <1>7, <1>8, <1>9, <1>10 DEF IInv

-----------------------------------------------------------------------------
LEMMA InitIInv ==
  ASSUME ConstantsFit, Init
  PROVE  IInv
<1> DEFINE first == [refId |-> None, tx |-> None, url |-> TRUE, status |-> "CREATED", failedCount |-> 0]
<1>1. /\ first \in WebhookActionItem /\ first.refId = None /\ first.status # "SENT"
      /\ webhooks = <<first>>
  BY DEF ConstantsFit, Init, WebhookActionItem
<1> HIDE DEF first
<1>2. webhooks \in Seq(WebhookActionItem) /\ Len(webhooks) = 1 /\ webhooks[1] = first
  BY <1>1
<1>3. TypeOK
  <2>1. run \in Runs /\ queue \in Seq(Scheduled) /\ Len(queue) <= MaxQueue
    BY RestingRun DEF ConstantsFit, Init
  <2>2. sender \in [pc : {"idle", "called"}, item : 0 .. Len(webhooks), statusCode : {0, 200, 502}]
    BY <1>2 DEF Init, Resting
  <2> QED BY <1>2, <2>1, <2>2 DEF Init, TypeOK
<1>4. Phased /\ Prepared
  BY DEF Init, Idle, Phased, Prepared
<1>5. WebhooksAreTrue /\ SubsAreTrue
  BY <1>1, <1>2 DEF Init, WebhooksAreTrue, SubsAreTrue
<1>6. Called /\ SentWasReceived
  BY <1>1, <1>2 DEF Init, Resting, Called, SentWasReceived
<1> QED BY <1>3, <1>4, <1>5, <1>6 DEF IInv

LEMMA NextKeepsIInv ==
  ASSUME ConstantsFit, IInv, [Next]_vars
  PROVE  IInv'
<1>1. CASE Requests
  BY <1>1, RequestsKeepIInv
<1>2. CASE StartRun /\ UNCHANGED <<statuses, schedule, delivery>>
  BY <1>2, StartRunKeepsIInv
<1>3. CASE Handle
  BY <1>3, HandleKeepsIInv
<1>4. CASE \E i \in 1 .. Len(webhooks) : Call(i)
  BY <1>4, CallKeepsIInv
<1>5. CASE Report
  BY <1>5, ReportKeepsIInv
<1>6. CASE UNCHANGED vars
  <2>1. UNCHANGED <<run, sent, webhooks, subs, delivery>>
    BY <1>6 DEF vars, delivery
  <2>2. TypeOK'
    BY <1>6 DEF IInv, TypeOK, vars
  <2> QED BY <2>1, <2>2, OthersKeepReports DEF IInv
<1> QED BY <1>1, <1>2, <1>3, <1>4, <1>5, <1>6 DEF Next, Requests

LEMMA IInvReports == IInv => ReportsAreTrue
BY DEF IInv, WebhooksAreTrue, SubsAreTrue, ReportsAreTrue

-----------------------------------------------------------------------------
\* Scheduled transactions, their queue, the run and the delivery keep their
\* types.
THEOREM TypeCorrect ==
  ASSUME ConstantsFit
  PROVE  Spec => []TypeOK
<1>1. Init => IInv
  BY InitIInv
<1>2. IInv /\ [Next]_vars => IInv'
  BY NextKeepsIInv
<1>3. IInv => TypeOK
  BY DEF IInv
<1> QED BY <1>1, <1>2, <1>3, PTL DEF Spec

\* A webhook of a scheduled transaction names a transaction that was
\* broadcast for it and is the only one of its kind; a hash subscription is
\* only made once that webhook was stored and released -- whatever step of
\* ScheduledTxHandlerService.handle fails, whenever the document is changed
\* and however often the cron expression fires.
THEOREM NothingElseIsReported ==
  ASSUME ConstantsFit
  PROVE  Spec => []ReportsAreTrue
<1>1. Init => IInv
  BY InitIInv
<1>2. IInv /\ [Next]_vars => IInv'
  BY NextKeepsIInv
<1> QED BY <1>1, <1>2, IInvReports, PTL DEF Spec

\* A webhook marked as sent has been received, whatever calls are lost or
\* answered too late and whatever reports are lost.
THEOREM SentMeansReceived ==
  ASSUME ConstantsFit
  PROVE  Spec => []SentWasReceived
<1>1. Init => IInv
  BY InitIInv
<1>2. IInv /\ [Next]_vars => IInv'
  BY NextKeepsIInv
<1>3. IInv => SentWasReceived
  BY DEF IInv
<1> QED BY <1>1, <1>2, <1>3, PTL DEF Spec
=============================================================================
