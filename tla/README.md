# Fluence libraries: TLA+ models, checks and proofs

The repository (`src/packages`) holds the libraries from which the Fluence
blockchain microservices are put together: they follow the blocks of Ethereum,
Bitcoin and Litecoin nodes, match them against the customers' subscriptions,
and turn every match into a webhook once it has the confirmations the
subscription asks for. Around that sit clients, projects, connections to nodes,
scheduled transactions and the HTTP side of the services. This directory
models that behaviour in TLA+, checks it with TLC on small instances and proves
the main results with TLAPS.

Paths below are short: `abs.bc` is `src/packages/fluence.ms.abstract.blockchain/src`,
`services` is `src/packages/fluence.lib.services/src`, `abs` is
`src/packages/fluence.ms.abstract/src`.

## 1. Inventory

| Part | State it keeps | Operations | What makes it hard | What makes it correct |
|---|---|---|---|---|
| Block listener (`abs.bc/blockchain/blockchain.listener.ts`, `cronjobs/`, job service and DAO) | one job document per connection: `lastProcessedBlock`, `failedBlocks`, `handlersData[id].failedBlocks` | `execute` on every queue message | all downloads and handlers of a run are concurrent; the document is changed in memory and written at the end; several processes may run for one connection; a crash loses the run; nodes lag | no block counted as passed is lost for any handler; each is delivered in the end |
| Subscription handlers (`blockchain.listener.handler.ts` and five subclasses), block rechecks | `SubscriptionBlockRecheck` rows, webhook items | `execute` (own block, then all due rechecks), `createBlockRecheck`, `createAction`, `fill` | executions overlap; look-then-insert with an await between; failures between insert and remove; reorganised blocks; heights that are stale | a match is never forgotten, announced once, and no earlier than the run lags behind its node |
| Subscriptions (address, transaction hash, contract, oraclize, fabric) | flags `subscribed`, `isClientActive`, `isProjectActive` | create, `setSubscribed*`, `setClientActive`, `setProjectActive` | the flags copy the status of two other documents, and are written concurrently with them | a subscription is served exactly while it, its client and its project are active |
| Clients | `status`, `isVerified`, tokens | `createClient`, `setStatus`, `verifyClient`, `removeById` | fan-out writes without a transaction | flags follow the status |
| Projects | `status`, `isRemoved`, `token` | `createProject`, `setStatus`, `setNameAndWebhookUrlAndStatus`, `changeToken`, `removeProject` | as above; FIXMEs ask for transactions | as above; a removed project leaves nothing behind |
| Project blockchain setups | setup per project and blockchain, private connection | `createSetup`, `setStatus`, `setStatusByProjectId`, `removeById`, `removeByProjectId` | setup and its private connection are two writes | the connection's status is that of its setup |
| Transport connections and the agenda job | connections with `status`, `failed`, `isPrivate`, `cronExpression` | `createTransportConnection`, `setStatus*`, `setFailedByIds`, remove | the connection is stored first and its cron job created after | every enabled connection is listened to |
| View of connections with subscriptions (`transport.connection.subscription.dao.ts`) | none (an aggregation) | `getByIdAndStatus` | decides whether the listener runs at all | agrees with the handlers' own queries |
| Managed transports (`services/transports/managed.blockchain.transport.service.ts`) | the loaded transports and the public ones, which transport ids are active, the reference, times of the last search and check | `init`, `updateValid`, `getActiveTransport`, `getStatistic` | health check and load run concurrently with calls; timestamps and failures | every call goes to a transport that answers; a private node serves its owner only |
| Webhooks and the sender | status, failure reports, confirmations | `createAction`, `fill`, `setStatus`, `addFailReport`, `send` | a call succeeds and its bookkeeping fails | what is marked as sent was received |
| Scheduled transactions | row per project with cron expression and agenda job id | `createScheduledTx`, `setCronExpression`, `setTransaction`, and the handler that reads, broadcasts, stores a webhook and subscribes to the hash | a row of calls, each may fail; a rejected message ends the job | what is reported was broadcast; no message blocks the others |
| Node requests: the blockchain controller, the blockchain service, the registry of services and the four transport providers | the list of registered services | the controller's four reads and `sendRawTransaction`, `register` | every provider treats a failing node in its own way; a broadcast is not awaited, or succeeds and answers with an error | who is given a transaction can rely on it |
| Sessions of users, API keys of clients and projects | one collection: type, owner, `expiredAt`, `loggedOutAt` | create, `setExpiredAt`, `disable*`, two ways to look for active ones | three types in one collection; each query has its own filter | a disabled session is never found again, by neither query |
| HTTP accounting and authentication (`abs/middlewares`) | metrics of requests, the timer, the attached client, project and session | the middlewares in their order, `res.end`, the timer's callback | a timeout races the answer; the store may refuse | what is counted is what the caller was told; every request is answered |
| Metrics of blockchains and cron jobs | counters of calls per connection | `getStatistic`, `processRequest` | counters are read and set back while calls go on | each call is reported once |
| Batch calls (`fluence.lib.ethereum`) | pending contract calls, results so far | `contractMethodBatchCall` | answers in any order, one may fail; sizes at the boundary | each row's result is posted once and in order |
| Contracts and requests to publish them | marks `isPublic`, `isFabric`, resolutions | create, `setResolution`, marks | two documents, two writes; a resolution may change | a contract is public only if somebody approved it |
| Event logs | rows | create, update | none: the service is registered and never called | not modelled |
| Wallets, keys, contract encoding, JSON-RPC proxies, routers, validation schemas, SDK generator | none | conversions and tables | data, not control | not modelled |

How they interact. A cron job (agenda) puts a message per connection on the
queue of its blockchain. `QueueListenerJob` takes it and calls
`BlockchainListener.execute`, which asks the subscription view whether anybody
listens, reads the height and the blocks through the managed transport and
calls every handler for every block. Handlers read the active subscriptions of
their kind, store rechecks and webhooks; the sender delivers the webhooks.
Clients and projects reach the subscriptions only through the copied flags and
the connections only through the project's setups.

## 2. Plan

Most important behaviour first. Numbers are the order of work.

1. **Block listener** (`BlockchainListener`, abstract `BlockLedger`): done,
   all its safety and action properties proved, with the refinement.
2. **Handlers and rechecks** (`BlockchainListenerHandler`): done, safety proved.
3. **Statuses and setups** (`StatusPropagation`: clients, projects,
   subscription flags, project setups with their private connections): done,
   safety proved.
4. **Managed transport** (`ManagedTransport`: loading, health check,
   failover): done, safety proved.
5. **From a subscription to the listener's run** (`ConnectionSubscriptions`:
   connections, their agenda jobs, the queue, the five kinds, the view): done,
   safety proved.
6. **Scheduled transactions** and webhook delivery (`ScheduledTransactions`):
   done, safety proved.
7. **Node requests** (`NodeRequests`: controller, service, registry,
   providers): done, safety proved.
8. **HTTP accounting and authentication** (`HttpRequests`): done, safety proved.
9. **Sessions, batch calls, call metrics, contract requests** (`Sessions`,
   `BatchCalls`, `CallMetrics`, `ContractRequests`): done, safety proved.
10. **Listener and handler composed**: a match in a followed block becomes a
    webhook in the end, from the two liveness results.

Abstract specifications worth stating: the ledger of owed blocks (done); an
outbox of matches for module 2; "a flag that follows a status" for module 3.

## 3. Block listener

`BlockchainListener.tla` models `BlockchainListener.execute` for one
connection. `Workers` are the processes that consume its queue; `pc[w]` says
where a worker is in `execute`, `copy[w]` is `job.params` in its memory,
`fetching[w]` and `running[w]` are the promises it has in flight.

| Action | Code (`blockchain.listener.ts`) |
|---|---|
| `Start` | 59-87: subscriptions exist, `getJobSafely` |
| `HeightFails`, `HeightArrives` | 89-127, 209-298, 380-394: height, `initJobData`, both failed lists taken and emptied, their downloads started; no await between |
| `BlockArrives`, `BlockFails`, `BlockIsNull` | 243-295, 315-335 |
| `HandlerSucceeds`, `HandlerFails` | 354-378 |
| `RetriesSettle`, `NewBlocksSettle` | 123-191: `Promise.all` of the retries, then of the new blocks |
| `Save`, `Crash` | 135-143: `setParams` of the whole record, or nothing |

Three history pieces are not in the code: `done`, the pairs a handler completed,
`crashed`, whether a run ended without its final write, and the field `since` of the record, the first block it answers for (the
listener never looks at blocks before the first height it was told).
`NewBlock` is the node's chain. Duplicates in the arrays `failedBlocks` are not
kept: they cause a second delivery, never a missing one, and the delivery
counts are the subject of `AtMostOnce`, where no list entry can be repeated.

`BlockLedger.tla` is what the listener promises: a ledger of (handler, block)
pairs that are covered, owed or done, replaced at will as long as a covered
pair is owed or done. The refinement maps `covered` to the blocks the saved
record counts as passed and `owed` to its two failed lists.

Switches: `CanCrash` (a process dies or the final write is refused), `CanLag`
(a node of the pool answers with an older height), `AnswersNull` (the transport
turns an error into `null`, as `bc.bitcoin.transport.ts:42-57` does, instead of
throwing).

| Run | Instance | Shows |
|---|---|---|
| `listener_workers` | 2 workers, 1 handler, 1 retired handler, heights 0..1, crashes, lag | `NoBlockLost` and the refinement although the later `Save` overwrites the other worker's record |
| `listener_single` | 1 worker, 2 handlers, a retired one, heights 0..2, crashes | every step of a run accounts for each block (`RunAccountsForBlocks`); coverage only grows; before the first crash no handler is given a block it completed |
| `listener_live` | 1 worker, 1 handler, fair | every block of a followed connection reaches the handler |
| `listener_nullnew` | `AnswersNull` | a new block is still noted; only retried ones can be lost |
| `listener_null` | `AnswersNull` | violation: a retried block is lost (see 9) |

Bounds. Two workers are enough for one to overwrite the other; a third adds
no new kind of overwrite, because a save does not look at what it replaces.
Heights 0..2 hold a block passed before, one in a list and a new one at once.
Fairness (`FairSpec`): messages keep coming (cron), a worker continues when it
can, no call is refused for ever (strong fairness per pair, since a
retried call is only enabled now and then), and crashes stop. The code
justifies it by retrying every listed block on every run, with no limit.

## 4. Handlers and rechecks

`BlockchainListenerHandler.tla` models one kind of handler (`kind`: address,
which also stands for the transaction hash handler, contract, oraclize, fabric)
and its `Execs`, the executions in progress. A match is an element of the
constant `Matches`: subscription, output number, height and hash of its block.

| Action | Code |
|---|---|
| `Begin` | `processBlock` of the subclasses: the filter (`Considered`), the split by confirmations |
| `LookForRecheck`, `InsertRecheck` | `createBlockRecheck` (handler 206-226, recheck service 22-41), look and insert with an await between |
| `Fill`, `FillFails` | the confirmed webhooks stored with one insertion |
| `ListRechecks` | `listOnBlockByTransportAndType`: every recheck due at this block |
| `LoadBlock`, `CheckWebhook`, `CreateWebhook`, `RemoveRecheck`, `TaskFails` | 98-135 of the handler for each recheck, concurrently |
| `Finish`, `ExecFails` | `execute` returns or throws |

`Grow` and `Reorganise` are the node: the chain gets longer, or its end is
replaced. `Given` is how the listener gives blocks: once, again after a
failure, and with `Redelivers` also after it was completed (crash or second
worker). `answered`, `passed`, `orphaned` and `threw` are history.

| Run | Instance | Shows |
|---|---|---|
| `handler_overlap` | 2 overlapping executions, any failure, redelivery, 2 branches, two outputs of one block for one subscription | `MatchNotForgotten`, `AnnouncedWhenDue`: how early a webhook may come |
| `handler_live` | one execution at a time, fair, all four kinds, 2 subscriptions with 1 and 2 confirmations, any failure | `MatchNotForgotten` with each subclass's filter; `StoredAtMostOnce`: a recheck whose removal failed does not announce twice; every recheck settles |
| `handler_hook` | | violation of the hook's documentation (see 9) |

Bounds. Waits of 1 and 2 confirmations tell apart a recheck that is due with
the next block and one that is not; the last height stands for all later
blocks. `MaxCopies` caps the count of webhooks per match at 2, enough to see a
second one.
`AnnouncedWhenDue` does not say that a webhook comes only with the confirmations
asked for, because it does not: `createBlockRecheck` subtracts the confirmations
the block has (`conf`) from the height it waits for, and waits for a block given
to the handler with that height, not for the chain. A recheck created while the
run is behind is therefore due `conf` blocks too early. The property bounds it: the
block's depth and `conf` make up what was asked for, and the depth is at least
`conf`, hence at least half of it; with `conf = 0` nothing is missing. `StoredAtMostOnce` is only claimed for one execution at a time
of which none threw (`threw`):
nothing in the code keeps two from storing a webhook twice, which is listed as
a hazard and not as a property. Fairness: blocks keep coming and are given to
the handler, executions proceed, and from some time on nothing fails and no
block is replaced; rechecks are retried in every execution, so failures
before that time do not matter.

## 5. Statuses and setups

`StatusPropagation.tla` models how the status of a client or project is copied:
to the flags of the five kinds of subscription, to the project's blockchain
setups, and from those to their private connections. A request
(`client.service.ts`, `project.service.ts`, `project.blockchain.setup.service.ts`
in `services/services/object`) puts its database calls into the set `effects`,
and they land one by one in any order, as the calls of a `Promise.all` do.

| Action | Code |
|---|---|
| `ClientSetStatus` | `ClientService.setStatus`; the fabric service is called with the client's id as a project's (line 145) |
| `ProjectSetStatus`, `ProjectSetNameAndStatus`, `RemoveProject` | the three requests of `ProjectService`; only the first reaches subscriptions and setups |
| `CreateSetup`, `SetupSetStatus`, `RemoveSetup`, `RemoveSetups` | the setup service's own requests |
| `CreateSubscription` | the five `createSubscription`; only the address kind sets the copied flags |
| `WriteClient`, `WriteProject`, `WriteFlags`, `WriteSetups`, `WriteConns` | one DAO call each |
| `ReadSetups` | a setup, or those of a project, read; the calls that depend on it are sent (`FollowUps`) |
| `Return`, `Refuse` | the request is answered when all its calls have landed, or rejected at the first refusal, the others still on their way |

`told` is history: for a client's status, a project's status or a project's
setups, what the last answered request said, forgotten as soon as anything else
concerns the same facet.

| Run | Instance | Shows |
|---|---|---|
| `status_retry` | 1 caller, every call may be refused, 1 project with a setup and a contract subscription | `AnsweredTakesEffect`: asking again repairs what a rejected request left half done |
| `status_owner` | 2 projects, 2 setups, 1 connection, a fabric subscription, 1 caller | `AnsweredTakesEffect`; `ConnectionsFollowTheirOwner`: a connection is only changed for the project that holds it |

One caller is enough although requests overlap in practice: what a rejected
request leaves behind is on its way together with the calls of the next one, as
those of an overlapping request would be.

Bounds. One document of each kind is enough for a call to be missing or late;
`MaxLate` caps the calls that rejected requests have left behind (1 in
`status_retry`, enough for one to land after any later step; a request is only
refused when no more than that would remain). Two requests that overlap on
one facet leave its documents in any mixture, and two overlapping `createSetup`
put two setups on one connection: nothing in the code prevents it, so no
property says otherwise; both are under "hazards".

## 6. Managed transport

`ManagedTransport.tla` models how a call finds a node
(`managed.blockchain.transport.service.ts` in `services/services/transports`):
the calls in `Calls` run concurrently on the fields of one service while
documents of connections are created and switched by others.

| Action | Code |
|---|---|
| `Init` | 53-76: `init`, all connections enabled then are loaded |
| `Enter`, `Read`, `Load`, `SearchFails` | 152-160, 247-265: the search is stamped, answered, and its result added to the lists |
| `Reference` (in `Load`, `SearchFails`), `FindNext` | 267-292: the reference, or the first public transport that answers |
| `HeightThrows`, `HeightIsNull` | 293-304: another reference is looked for once, or the call is rejected |
| `HeightNotDue`, `HeightDue`, `Check`, `CheckThrows` | 169-211: the health check, up to the first node that passes |
| `Mark`, `MarkFails` | 213-221: `setFailedByIds`, `lastCheckAt` |
| `Take` (in `Mark`, `HeightNotDue`) | 223-245: the transport the call gets |
| `Stamp`, `Insert`, `SetStatus` | `transport.connection.dao.ts`: `createdAt` is taken, later the document is there |

Heights are "low" or "high" (ahead by the allowed number of blocks); a node's
answer is chosen whenever it is asked, until `Settle`, after which all answer
the same. `lastRead` and `exempt` are history: the latest search that was
answered, and the connections that no search can be asked to find, because
they were inserted after a search with a later stamp was answered or were switched.
The documents `init` found are not switched: no later search reads them.

| Run | Instance | Shows |
|---|---|---|
| `transport_calls` | two calls at a time, a public connection loaded by `init` and a private one created later, three values of the clock | `EnabledConnectionIsLoaded`, `PrivateServesItsOwner` and the recovery of all calls |

Bounds. Two overlapping searches are what it takes for the stamp to go back;
one creation between their reads is what it takes to miss a connection. Both
connections have the same transport id, as on Ethereum. A second public
connection is not part of the instance: then the reference never moves from one to
another.
Fairness: a call goes on, calls keep coming (the block listener's cron job),
the check interval ends again and again (it is ten seconds, hence strong
fairness of `HeightDue`), and from some time on the check's writes are
accepted. Weak fairness of the step is enough for the rest, because no
call can be kept from going on.

`RecoversWhenNodesAnswer` asks for little, and the code gives no more. A node
that throws rejects every call whose check asks it (`CheckThrows`): the catch
clause first marks its transport id as inactive (line 175), so that other calls
find it so, and then reads a constant that is not initialised yet (177), so that the
check is not completed. What the property shows is that such marks, and the
references and lists that calls left half-way, do no lasting harm: as soon as
all nodes answer, the next check repairs them. Before that nothing is promised: a reference that answers null is never replaced, and the
check ends at the first node that passes, so that a transport id no earlier
node has is never active.

## 7. The services around the listener

Eight smaller modules share no state with each other. `Services.tla` puts them
side by side for any values of their constants: its initial state chooses a
component (`part`) and only that one takes steps, so its states are the union of
the states of the eight, never their product. It extends `NodeRequests` and
instantiates the others; `MCServices.tla` only gives the constants values, so
that the run `services` and the proofs speak of the same definitions. Each
component says in `ConstantsFit` what its constants are; `Services` assumes it
(`ServicesFit`) and TLC evaluates it. Everything in this section is checked by
that run. `CHECK_DEADLOCK FALSE` is said because some components may stop: a
batch returns, all sessions have been created and disabled.

### Subscriptions, connections and the queue: `ConnectionSubscriptions`

| Action | Code |
|---|---|
| `CreateConnection`, `SaveJob`, `SaveJobFails` | `TransportConnectionService`: the document, then the agenda job, or `CANT_CREATE_AGENDA_JOB` with the document left behind |
| `RemoveConnections` | `removeById(s)`: the agenda job stays |
| `CreateSubscription`, `SetSubscribedBy…`, `SetClientActive`, `SetProjectActive` | the services and DAOs of the five kinds, each with the fields it stores |
| `AllActive` and the five `Active…` | the ActiveOnly queries: three kinds look at the flags, two do not |
| `View` | the aggregation of `transport.connection.subscription.dao.ts` |
| `Tick`, `StartRun`, `Receive`, `NothingReceived`, `ReadView`, `ReadFails`, `FinishRun` | the scheduler, `QueueListenerJob`, and the part of `BlockchainListener.execute` before it reads a height |

`ViewFollowsRequests`: for each status the view shows exactly the subscriptions
whose owners last asked for it, whichever setter (by id, by project, by client)
they used. `ActiveOnlyIsHandled`: what the services list as active is what the
handlers are given; the converse is false, since the view does not look at the
two flags (a hazard). `SubscribedIsHandled`: a subscription whose connection was
answered reaches the handlers unless it is switched off or the connection
removed. `asked` is history.

### Scheduled transactions and webhooks: `ScheduledTransactions`

| Action | Code |
|---|---|
| `CreateScheduledTx`, `SaveJob`, `SetCronExpression`, `SetTransaction` | `scheduled.tx.service.ts`: the agenda job keeps its first expression |
| `Tick`, `StartRun`, `Receive`, `Reject` | the queue; a message whose handling rejects ends the job's execution |
| `Load`, `LoadClient`, `Send`, `Look`, `Insert`, `Release`, `Subscribe` | `scheduled.tx.handler.service.ts` and `createAction`, one action between two awaits |
| `Call`, `Report` | `webhook.caller.service.ts`, and the report of its result |

`ReportsAreTrue`: a webhook of a scheduled transaction names a transaction that
was broadcast for it, there is one at most, and a hash subscription needs such a
webhook. `SentWasReceived`: a webhook marked as sent was received.
`MessagesAreHandled`: each message is handled in the end, whatever the ones
before it did. Observations (under "hazards"): an agenda expression is never
updated, a second run of a cron expression broadcasts again and then fails at
`WEBHOOK_ALREADY_EXISTS`, the webhook of a failure is never stored.

### Requests to nodes: `NodeRequests`

`Provide` says what each of the four providers makes of its node's answers to
the one or two requests behind a read: a value, null, or an exception.
`Check`, `Load`, `Read` are the controller's operations with every status they
end with; `Send`, `Broadcast`, `LookUp`, `Subscribe` are
`BlockchainService.sendRawTransaction`; `Register` is the registry.
`SetPrivate`, `Remove`, `Mine` and `Settle` (the end of a broadcast that nobody
awaited) happen between the steps of a request.
`awaited` is the text a subscription waits for: `blockchain.service.ts:124` passes
the raw transaction where `createSubscription` takes the hash, so that it is
`"raw"`, whoever the provider is, and never the `"hash"` that blocks are searched
for (`Announced`).
`SendReportsAreTrue`: status 200 means that some node has the transaction; null
comes from bitcoin libraries only; and no block ever announces what the
subscription waits for, so that status 200 says nothing of being told about
confirmations (see 9). `SubmissionsAreNeverSent`: see 9.

### HTTP requests: `HttpRequests`

A request passes the stages counting, timer, authentication (one of three
middlewares), four checks each of which a route may leave out, and a handler.
`End` is the replaced `res.end`, `TimerFires`, `Timeout` and `TimeoutFails` are
the callback of the timer with its awaits. `CountsAgreeWithAnswers` bounds how
far counts and answers may differ, exactly: once without a timeout; two or three
failures with one, since the timer counts, the 408 it sends is counted again,
and a handler may answer in between. `EveryRequestIsAnswered`: by a handler or
by the timer, unless the store refuses a metric, after which `next` is never
called.

### Sessions, batches, metrics, contracts

- `Sessions`: the three kinds in one collection and a clock.
  `ActiveSessionsAgree`: the query by id and the query by owner find the same
  sessions, never a disabled one, and no session under a type not its own.
- `BatchCalls`: the generator, the concurrent calls of a batch, the posts. A
  batch is the ascending sequence of its wanted rows (`InOrder`).
  `ResultsAreInOrder`: for all sizes, including 0 and those that do not divide
  the number of rows, every result is posted once and in order, and "done" is
  said only at the end.
- `CallMetrics`: the counters, which are incremented from `undefined`, and the
  statistic's object, which is set to zero before its reader reads it.
  `CallsAreNeverReported`: see 9.
- `ContractRequests`: the two writes behind a request and behind a resolution,
  with other calls between them. `MarksFollowRequests`: a contract is public
  only if a request for it was approved at some time, and the marks agree with
  the approved requests once no call is in progress and none failed half-way.

### Bounds and fairness of `services`

Two subscriptions in three mixes (a fabric and a transaction hash subscription,
a contract and an oraclize one, two address ones at two connections, all of two
projects of one client): every pair of different treatments by setters, queries
and view occurs once. One message in a queue, because a message is only
received, never compared with others. Two scheduled transactions of two
projects, of which one has the id of a client, since the handler looks for the
client by the project's id. One failure per webhook. One connection with each
of the providers and two projects for node requests, as one request follows one
connection; two sessions and three times of the clock; four rows and batches of
0 to 4; two calls at a time on one contract with two requests.

Fairness. Subscriptions: the job is started again and again by agenda and its
steps come back (weak), every saved agenda job becomes due again and again
(strong, since a full queue keeps it waiting), and the database does not refuse
every read for one connection (strong). Scheduled transactions: the same job's
steps (weak); a step that rejects counts as progress. HTTP: the middlewares run
and the timer goes off (weak); nothing is assumed of handlers.

## 8. What is proved

Every type invariant, safety invariant and action property that a run checks
is a theorem of its specification, for all values of the constants. The
proofs have the same shape: an inductive invariant, one lemma per action (or
group of actions) that it is kept, and the property read off it. Below is what
each invariant adds to the properties, and why they are not inductive without it.

**Block listener** (`BlockchainListenerProofs`).

- `TypeCorrect`, `RunsAccountForBlocks`, `BlocksAreNeverLost`: with a transport
  that throws (`AnswersNull = FALSE`), any number of workers, crashes and
  lagging nodes. `NoBlockLost` says nothing of a run in progress and is not
  inductive; `TypeOK /\ RunAccountsForBlocks /\ NoBlockLost` is. A worker's copy
  comes from a record that accounts for its blocks and `done` never shrinks, so
  other workers cannot disturb it; each action moves a pair between in flight,
  noted and done, and `Save` writes a record with nothing in flight.
- `ListenerImplementsLedger`: `Spec => Ledger!Spec`, every step a step of
  `BlockLedger` or a stutter.
- `CoverageNeverShrinks`, `BlocksAreGivenOnce`: hypothesis `Sole` (one worker,
  no lagging node, no null answer), the conditions of the run
  `listener_single`; with two workers a later save does undo an earlier one.
  `LimitInv` ties the copy to the saved record and both to the height of the
  node; `OnceInv` says that what is noted or in flight is not done, that no
  two tasks are for one pair, and that nothing tried lies above the record.
- `LossesAreRetries`: without any hypothesis, null answers included, a block that
  a step stops accounting for was one being retried.

**Handlers** (`BlockchainListenerHandlerProofs`), for any matches, branches,
kinds and overlapping executions.

- `TypeCorrect`, `NoMatchIsForgotten`, `WebhooksAreEarlyByAtMostTheLag`: the invariant adds,
  for each recheck, that it waits for exactly the confirmations that were
  missing, for each task that its recheck is due and is removed only after its
  webhook was stored, and for each execution that what it no longer has to
  store is kept (`Kept`): `MatchNotForgotten` speaks of executions that are
  over. That a recheck was created with no more confirmations than its block had
  (`ConfirmationsHad`) is proved beside it, for the third of the theorems.
- `NoMatchIsStoredTwice`: hypothesis `OneAtATime` (one execution at a time, no
  completed block given again). `Once` says that no block is processed a second
  time, that two rechecks never share a key and what is about to be inserted has
  none, that a task which will create a webhook finds none, and that a match
  with a webhook is of a block whose own matches are dealt with.

**Statuses and setups** (`StatusPropagationProofs`), for any documents.

- `TypeCorrect`, `FlagsFollow`: without any hypothesis on callers and failures,
  an answered status request has taken effect on every flag. The invariant gives
  each call on its way its shape, says that nothing is on its way for a facet
  somebody was told about, that an undisturbed request is alone with its facet,
  and that each document shows the value or the call that sets it is on its
  way.
- `AnswersAreTrue` (`AnsweredTakesEffect`), `ConnectionsAreOwned`: hypothesis
  `Orderly`, that is a single project, or requests in turn none of which is
  refused half-way (the runs `status_retry` and `status_owner` are one of each).
  `TurnInv` says that two projects never hold one connection. The hypothesis
  is needed: TLC finds `AnsweredTakesEffect` violated with two projects when
  calls are refused, and with two callers even when none is, because two
  `createSetup` pass the test for an existing setup with the same connection.

**Managed transport** (`ManagedTransportProofs`), for any finite set of
connections, any number of calls and any answers: `TypeCorrect`,
`PrivateIsPrivate`, `NoConnectionIsLost`. The invariant says what a call relies
on after an await: its position and the node it asks are of a public service;
what a search would have found and the lists lack is in its answer (`Missing`).
That a search for the least position finds one follows from well-foundedness of
`<` (`LeastPosition`); nothing there is proved by induction over data.

**The services** (`ServicesProofs`, with `HttpRequestsProofs`,
`ScheduledTransactionsProofs` and `ConnectionSubscriptionsProofs`).

- `NodeRequests`: `TypeCorrect`, `NoSubmissionIsSent`, `SendersAreToldTheTruth`,
  from `Located` (wherever a request is, the connection it will ask is known),
  `Misnamed` (a submission that reached the service carries an id that is no
  connection's) and `Truthful` (what the service is about to answer a sender is
  true already while it creates the subscription, which is not for the hash). The providers enter through
  one lemma, `ProvideTransaction`.
- `CountsAgree` (`HttpRequests`): for each state of the timer, how much each
  stage has counted so far; the property only speaks of what was counted.
- `NothingElseIsReported`, `SentMeansReceived` (`ScheduledTransactions`): what
  each step of the run may rely on after its awaits, and what the delivery knows
  between a call and its report.
- `ViewIsWhatWasAsked`, `NothingActiveIsMissed` (`ConnectionSubscriptions`): each
  document holds what was last asked for. The view only shows stored connections,
  and a subscription may be switched before its connection is there.
- `SessionsAgree`: a session is disabled exactly when it has a logout date, and
  has an expiry exactly when it is a user's.
- `NoCallIsReported`: an invariant by itself, given the types.
- `ContractsAreMarked`: every call in progress knows its contract and request, every
  mark has a request that asked for it, and every such request has its mark, or a
  call that is about to set it, or one that failed before it did.
- `BatchesAreInOrder` (`ResultsAreInOrder`): what is collected are the wanted rows
  up to the end of the last batch, in order. The order of a finite set of numbers
  exists by counting (`InOrderExists`).
- `TypesAreKept`: `TypesOK`, from all of these invariants together.

The theorems of this group are of `ServicesSpec` (`Spec` for `NodeRequests`). A
component with a proof module of its own is instantiated a second time by way of
that module; that both instances are the same is seen by expanding the
definitions of both, and the component's inductive invariant then is one of
`ServicesSpec`, whose steps are that component's or leave its variables alone.

Assumptions. All are named ASSUMEs, which TLC evaluates in every run of the
module: non-empty `Workers`, `Handlers`, `Branches`; ids of different
collections differ (`IdsDiffer`, `IdsAssumption`, the database's ObjectIDs);
`Connections` finite and `Initial` without repetition; initial setups that do not
share a connection (`SetupsAssumption`); types of bounds and tables
(`ConstantsFit` of each service). What holds only under a hypothesis (`Sole`,
`OneAtATime`, `Orderly`, `AnswersNull = FALSE`) says so in its statement, and a
run has constants that satisfy it.

Only model-checked: the liveness properties `EveryBlockDelivered`,
`RecheckSettles`, `RecoversWhenNodesAnswer`, `SubscribedIsHandled`,
`MessagesAreHandled` and `EveryRequestIsAnswered`, since the prover does not
handle fairness and ENABLED.


## 9. Disagreements met

- `listener_null`: with a transport that answers `null`, a block that is being
  retried disappears. The catch clause at `blockchain.listener.ts:363` reads
  `block.height` of `null` and throws, after both lists were emptied.
- `handler_hook`: `processWebhookBeforeSave` is documented to run before a
  webhook is saved (`blockchain.listener.handler.ts:198`) but runs only for
  rechecks; webhooks confirmed at once are stored without it.

- `services`, `SubmissionsAreNeverSent`: a raw transaction posted to the
  controller is never broadcast. `abstract.blockchain.controller.ts:170` passes
  the project's id where the service takes the connection's.
- `services`, `CallsAreNeverReported`: `getStatistic`
  (`managed.blockchain.transport.service.ts:93-104`) returns the object whose
  fields it then sets to zero, and starts counting at NaN, so the metric of
  calls is never saved.
- `services`, `SendReportsAreTrue` (its last part): the subscription that
  `blockchain.service.ts:120-126` creates for a transaction it sent is given the
  raw transaction; the parameter is `hash`
  (`transaction.hash.subscription.service.ts:73-84`), and subscriptions are looked up
  by the hashes of a block's transactions. It is never found.

The last three are stated as properties of a run that passes: they say what the
code does. Smaller observations are in `PROJECT.json` under "hazards".

## 10. Not modelled

- Event logs: the service is registered in `plugin.services.blockchain.ts` and
  nothing calls it.
- The SDK generator: text made from an ABI, a pure conversion.
- Wallets, keys, signatures, contract encoding and the JSON-RPC proxies: pure
  functions over bytes, or one call forwarded.
- Routers, validation schemas, the swagger controller: tables and a file.
- Writes of fields no decision of `src/` reads: `setFailed`, `setSettings`,
  `setAbi`, `TransactionService`'s records, `setConfirmationsAndStatus`.
- Two setups of one project and connection that overlap, and two requests that
  overlap on one status: see "hazards" in `PROJECT.json`, each with the reason.
- The loop that delivers webhooks and the application that mounts the
  middlewares are not in the repository; what `src/` requires of them is taken
  as any order of calls.
