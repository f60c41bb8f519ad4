------------------------------ MODULE Services ------------------------------
(***************************************************************************)
(* The components around the listener that share no state with each other. *)
(*                                                                         *)
(* The initial state chooses one of them and only that one takes steps, so *)
(* the states are those of each component by itself, never their product.  *)
(* One, NodeRequests, is extended; the others are instances.               *)
(***************************************************************************)
EXTENDS NodeRequests

CONSTANTS
  \* ConnectionSubscriptions, and CallMetrics for Connections
  Connections, Subs, ProjectOf, ClientOf, Mixes, MaxQueue,
  \* ScheduledTransactions
  Scheduled, Txs, Crons, OwnerOf, ProjectClients, MaxFails,
  \* Sessions
  Ids, SessionClients, SessionProjects, Known, MaxTime,
  \* BatchCalls
  MaxRows, MaxPosts,
  \* CallMetrics
  NaN, MaxCalls,
  \* ContractRequests
  Contracts, PublicRequests, Calls

VARIABLES
  part,                                                        \* the component
  subKind, home, sub, conn, jobs, blockQueue, blockRun, asked,
  projectOn, clientOn, doc, due, queue, run, sent, webhooks, subs, sender, received,
  mode, stage, who, timer, code, tally, refused,
  clock, session, out,
  rows, size, batch, open, all, posts, pc,
  calls, active, made, saved,
  contract, request, call, once, stuck

ConnectionSubscriptions ==
  INSTANCE ConnectionSubscriptions WITH
    Conns <- Connections, kind <- subKind, queue <- blockQueue, run <- blockRun
ScheduledTransactions ==
  INSTANCE ScheduledTransactions WITH ProjectOf <- OwnerOf, Clients <- ProjectClients
HttpRequests == INSTANCE HttpRequests
Sessions ==
  INSTANCE Sessions WITH Clients <- SessionClients, Projects <- SessionProjects
BatchCalls == INSTANCE BatchCalls
CallMetrics == INSTANCE CallMetrics
ContractRequests == INSTANCE ContractRequests WITH Requests <- PublicRequests

\* What the proofs about the components assume of their constants.
ASSUME ServicesFit ==
  /\ ConnectionSubscriptions!ConstantsFit
  /\ ScheduledTransactions!ConstantsFit
  /\ Sessions!ConstantsFit /\ BatchCalls!ConstantsFit
  /\ CallMetrics!ConstantsFit /\ ContractRequests!ConstantsFit

Parts == {"subscriptions", "scheduled", "nodes", "http", "sessions", "batch", "metrics", "contracts"}

subscriptionVars == <<subKind, home, sub, conn, jobs, blockQueue, blockRun, asked>>
scheduledVars ==
  <<projectOn, clientOn, doc, due, queue, run, sent, webhooks, subs, sender, received>>
httpVars == <<mode, stage, who, timer, code, tally, refused>>
sessionVars == <<clock, session, out>>
batchVars == <<rows, size, batch, open, all, posts, pc>>
metricVars == <<calls, active, made, saved>>
contractVars == <<contract, request, call, once, stuck>>
servicesVars == <<part, subscriptionVars, scheduledVars, vars, httpVars, sessionVars,
                  batchVars, metricVars, contractVars>>

\* What the components that take no step have chosen for themselves.
ServicesInit ==
  /\ part \in Parts
  /\ ConnectionSubscriptions!Init
  /\ part # "subscriptions" => <<subKind, home>> = CHOOSE mix \in Mixes : TRUE
  /\ ScheduledTransactions!Init
  /\ Init /\ (part # "nodes" => \A c \in Conns : kind[c] = "ethers")
  /\ HttpRequests!Init /\ (part # "http" => mode = "aws")
  /\ Sessions!Init
  /\ BatchCalls!Init /\ (part # "batch" => rows = <<>> /\ size = 1)
  /\ CallMetrics!Init
  /\ ContractRequests!Init

ServicesNext ==
  /\ UNCHANGED part
  /\ IF part = "subscriptions" THEN ConnectionSubscriptions!Next ELSE UNCHANGED subscriptionVars
  /\ IF part = "scheduled" THEN ScheduledTransactions!Next ELSE UNCHANGED scheduledVars
  /\ IF part = "nodes" THEN Next ELSE UNCHANGED vars
  /\ IF part = "http" THEN HttpRequests!Next ELSE UNCHANGED httpVars
  /\ IF part = "sessions" THEN Sessions!Next ELSE UNCHANGED sessionVars
  /\ IF part = "batch" THEN BatchCalls!Next ELSE UNCHANGED batchVars
  /\ IF part = "metrics" THEN CallMetrics!Next ELSE UNCHANGED metricVars
  /\ IF part = "contracts" THEN ContractRequests!Next ELSE UNCHANGED contractVars

\* The component that takes steps is as fair as its module's Fairness says.
ServicesSpec ==
  /\ ServicesInit /\ [][ServicesNext]_servicesVars
  /\ WF_subscriptionVars(part = "subscriptions" /\ ConnectionSubscriptions!Proceed)
  /\ \A c \in Connections :
       /\ SF_subscriptionVars(part = "subscriptions" /\ ConnectionSubscriptions!Tick(c))
       /\ SF_subscriptionVars(part = "subscriptions" /\ ConnectionSubscriptions!ReadViewOf(c))
  /\ WF_scheduledVars(part = "scheduled" /\ ScheduledTransactions!Proceed)
  /\ WF_httpVars(part = "http" /\ HttpRequests!Middlewares)
  /\ WF_httpVars(part = "http" /\ HttpRequests!Timer)

-----------------------------------------------------------------------------
\* The state of every component stays within its types.
TypesOK ==
  /\ part = "subscriptions" => ConnectionSubscriptions!TypeOK
  /\ part = "scheduled" => ScheduledTransactions!TypeOK
  /\ part = "nodes" => TypeOK
  /\ part = "http" => HttpRequests!TypeOK
  /\ part = "sessions" => Sessions!TypeOK
  /\ part = "batch" => BatchCalls!TypeOK
  /\ part = "metrics" => CallMetrics!TypeOK
  /\ part = "contracts" => ContractRequests!TypeOK

\* The view shows what the owners last asked for, whichever setter they used.
ViewFollowsRequests == ConnectionSubscriptions!ViewFollowsRequests

\* What the ActiveOnly queries list is what the handlers are given.
ActiveOnlyIsHandled == ConnectionSubscriptions!ActiveOnlyIsHandled

\* A subscription of an answered connection is handed to the handlers.
SubscribedIsHandled == ConnectionSubscriptions!SubscribedIsHandled

\* Webhooks and hash subscriptions of scheduled transactions tell the truth.
ReportsAreTrue == ScheduledTransactions!ReportsAreTrue

\* A webhook marked as sent has been received.
SentWasReceived == ScheduledTransactions!SentWasReceived

\* A rejected message never stops the messages behind it.
MessagesAreHandled == ScheduledTransactions!MessagesAreHandled

\* What is counted for a request agrees with what its caller was told.
CountsAgreeWithAnswers == HttpRequests!CountsAgreeWithAnswers

\* A request is answered unless the metric store refuses.
EveryRequestIsAnswered == HttpRequests!EveryRequestIsAnswered

\* A disabled session is never found again; the two ways to look agree.
ActiveSessionsAgree == Sessions!ActiveSessionsAgree

\* Batches post each row's result once and in order, done only at the end.
ResultsAreInOrder == BatchCalls!ResultsAreInOrder

\* The statistic's reader finds no call, and no metric is saved.
CallsAreNeverReported == CallMetrics!CallsAreNeverReported

\* Marks of contracts agree with the requests and their resolutions.
MarksFollowRequests == ContractRequests!MarksFollowRequests
=============================================================================
