------------------------- MODULE BlockchainListener -------------------------
(***************************************************************************)
(* How the blocks of one transport connection are followed                 *)
(* (fluence.ms.abstract.blockchain/src/blockchain/blockchain.listener.ts). *)
(*                                                                         *)
(* Each queue message makes a worker run BlockchainListener.execute: read  *)
(* the job document, ask the node for its height, retry the blocks that    *)
(* failed before, process the new ones, write the job document back.  All  *)
(* block downloads and handler executions of a phase run concurrently.     *)
(* The job parameters are changed in memory and reach the database only in *)
(* the last step, and nothing stops two processes from running execute for *)
(* the same connection at the same time.                                   *)
(***************************************************************************)
EXTENDS Integers, FiniteSets

CONSTANTS
  Workers,      \* processes that listen to the blockchain's queue
  Handlers,     \* ids of the handlers the listener was constructed with
  Retired,      \* ids of handlers only an earlier deployment had
  MaxHeight,    \* bound: the chain stops growing here
  NoHeight,     \* undefined / null in place of a height
  CanCrash,     \* may a worker die, or the final write fail
  CanLag,       \* may the node answer with a height below the chain's tip
  AnswersNull   \* does the transport turn a failed call into null
                \* (bitcoin) instead of throwing (ethers, litecoin)

Heights == 0 .. MaxHeight

ASSUME WorkersAssumption  == Workers # {}
ASSUME HandlersAssumption == Handlers # {} /\ Handlers \cap Retired = {}
ASSUME HeightAssumption   == MaxHeight \in Nat /\ NoHeight \notin Int
ASSUME SwitchAssumption   == {CanCrash, CanLag, AnswersNull} \subseteq BOOLEAN

VARIABLES
  tip,          \* height of the chain
  job,          \* the persisted job parameters of this connection
  pc,           \* where each worker is in execute
  copy,         \* job.params as each worker holds them in memory
  top,          \* lastBlockHeight of each worker's run
  fetching,     \* block downloads in flight, per worker
  running,      \* handler executions in flight, per worker
  rejected,     \* has processFailedBlocks of the run already rejected
  done,         \* history: (handler, height) pairs completed at least once
  crashed       \* history: has a run ended without its final write

vars == <<tip, job, pc, copy, top, fetching, running, rejected, done, crashed>>
runVars == <<pc, copy, top, fetching, running, rejected>>

HandlerIds == Handlers \union Retired
Pairs == Handlers \X Heights

(***************************************************************************)
(* The job document.  failedBlocks and handlersData[id].failedBlocks are   *)
(* arrays in the code; only their members matter here.  A missing entry of *)
(* handlersData and an empty one behave alike.  since is a history field:  *)
(* the first block the record answers for.                                 *)
(***************************************************************************)
HeightOrNone == Heights \union {-1, NoHeight}

JobParams ==
  [ lastProcessedBlock : HeightOrNone,
    since              : Heights \union {MaxHeight + 1, NoHeight},
    failedBlocks       : SUBSET Heights,
    handlersData       : [HandlerIds -> SUBSET Heights] ]

\* No document, or the {} that getJobSafely creates.
EmptyJob ==
  [ lastProcessedBlock |-> NoHeight,
    since              |-> NoHeight,
    failedBlocks       |-> {},
    handlersData       |-> [id \in HandlerIds |-> {}] ]

\* What an earlier deployment, with other handlers, can have left behind.
LeftBehind(height) ==
  { [ lastProcessedBlock |-> b,
      since              |-> b + 1,
      failedBlocks       |-> {},
      handlersData       |-> [id \in HandlerIds |-> IF id \in Retired THEN F ELSE {}] ] :
      b \in 0 .. height, F \in SUBSET (0 .. height) }

(***************************************************************************)
(* Work in flight.  A download serves the handlers in `for`: one handler   *)
(* for an entry of handlersData, all of them for an entry of failedBlocks  *)
(* and for a new block.                                                    *)
(***************************************************************************)
Sources == {"one", "all", "new"}
Retries == {"one", "all"}

Downloads  == [src : Sources, for : SUBSET Handlers, at : Heights]
Executions == [src : Sources, handler : Handlers, at : Heights]

Outstanding(w, sources) ==
  \/ \E d \in fetching[w] : d.src \in sources
  \/ \E e \in running[w]  : e.src \in sources

Phases == {"idle", "height", "retry", "new", "save"}

TypeOK ==
  /\ tip \in Heights
  /\ job \in JobParams
  /\ pc \in [Workers -> Phases]
  /\ copy \in [Workers -> JobParams]
  /\ top \in [Workers -> Heights \union {NoHeight}]
  /\ fetching \in [Workers -> SUBSET Downloads]
  /\ running \in [Workers -> SUBSET Executions]
  /\ rejected \in [Workers -> BOOLEAN]
  /\ done \in SUBSET Pairs
  /\ crashed \in BOOLEAN

Init ==
  /\ tip \in Heights
  /\ job \in {EmptyJob} \union LeftBehind(tip)
  /\ pc = [w \in Workers |-> "idle"]
  /\ copy = [w \in Workers |-> EmptyJob]
  /\ top = [w \in Workers |-> NoHeight]
  /\ fetching = [w \in Workers |-> {}]
  /\ running = [w \in Workers |-> {}]
  /\ rejected = [w \in Workers |-> FALSE]
  /\ done = {}
  /\ crashed = FALSE

-----------------------------------------------------------------------------
\* The chain grows (outside the program).
NewBlock ==
  /\ tip < MaxHeight
  /\ tip' = tip + 1
  /\ UNCHANGED <<job, runVars, done, crashed>>

\* A message arrives, the connection has active subscriptions, and the job
\* document is read (or created).
Start(w) ==
  /\ pc[w] = "idle"
  /\ pc' = [pc EXCEPT ![w] = "height"]
  /\ copy' = [copy EXCEPT ![w] = job]
  /\ UNCHANGED <<tip, job, top, fetching, running, rejected, done, crashed>>

\* The worker forgets the run: nothing in memory survives.
Forget(w) ==
  /\ pc' = [pc EXCEPT ![w] = "idle"]
  /\ copy' = [copy EXCEPT ![w] = EmptyJob]
  /\ top' = [top EXCEPT ![w] = NoHeight]
  /\ fetching' = [fetching EXCEPT ![w] = {}]
  /\ running' = [running EXCEPT ![w] = {}]
  /\ rejected' = [rejected EXCEPT ![w] = FALSE]

\* The registry does not know the chain, or the height cannot be read: execute returns.
HeightFails(w) ==
  /\ pc[w] = "height"
  /\ Forget(w)
  /\ UNCHANGED <<tip, job, done, crashed>>

\* Faulty variant: a last processed block of 0 is taken for a missing one.
initJobDataFalsy(params, height) ==
  LET h == IF height = NoHeight THEN 0 ELSE height
  IN  IF params.lastProcessedBlock \in {0, NoHeight}
      THEN [params EXCEPT !.lastProcessedBlock = h - 1, !.since = h]
      ELSE params

\* initJobData: a first run answers for the current block only.  In
\* JavaScript null - 1 is -1, so a null height starts the record at block 0.
initJobData(params, height) ==
  LET h == IF height = NoHeight THEN 0 ELSE height
  IN  IF params.lastProcessedBlock = NoHeight
      THEN [params EXCEPT !.lastProcessedBlock = h - 1, !.since = h]
      ELSE params

\* Faulty variant: the general list is emptied but never retried.
RetryDownloadsForgetfully(params) ==
  { [src |-> "one", for |-> {p[1]}, at |-> p[2]] :
      p \in {q \in Pairs : q[2] \in params.handlersData[q[1]]} }

\* The downloads processFailedBlocks starts: one per entry of each known
\* handler, one per entry of the general list.
RetryDownloads(params) ==
  { [src |-> "one", for |-> {p[1]}, at |-> p[2]] :
      p \in {q \in Pairs : q[2] \in params.handlersData[q[1]]} }
     \union
  { [src |-> "all", for |-> Handlers, at |-> b] : b \in params.failedBlocks }

\* Faulty variant: the lists are taken but not emptied.
HeightArrivesKeepingLists(w, height) ==
  LET params == initJobData(copy[w], height) IN
  /\ pc[w] = "height"
  /\ pc' = [pc EXCEPT ![w] = "retry"]
  /\ top' = [top EXCEPT ![w] = height]
  /\ fetching' = [fetching EXCEPT ![w] = RetryDownloads(params)]
  /\ copy' = [copy EXCEPT ![w] = params]
  /\ UNCHANGED <<tip, job, running, rejected, done, crashed>>

\* The height arrives; without another pause the job data is initialised,
\* the failed lists are taken and emptied (entries of unknown handlers are
\* deleted) and their downloads start.
HeightArrives(w, height) ==
  LET params == initJobData(copy[w], height) IN
  /\ pc[w] = "height"
  /\ pc' = [pc EXCEPT ![w] = "retry"]
  /\ top' = [top EXCEPT ![w] = height]
  /\ fetching' = [fetching EXCEPT ![w] = RetryDownloads(params)]
  /\ copy' = [copy EXCEPT ![w] = [params EXCEPT
                !.failedBlocks = {},
                !.handlersData = [id \in HandlerIds |-> {}]]]
  /\ UNCHANGED <<tip, job, running, rejected, done, crashed>>

ReportedHeights ==
  (IF CanLag THEN 0 .. tip ELSE {tip})
    \union (IF AnswersNull THEN {NoHeight} ELSE {})

\* The two places a failure is noted: the block, or the block for a handler.
NoteBlock(params, b) == [params EXCEPT !.failedBlocks = params.failedBlocks \union {b}]

NoteForHandlers(params, ids, b) ==
  [params EXCEPT !.handlersData =
     [id \in HandlerIds |-> IF id \in ids THEN params.handlersData[id] \union {b}
                            ELSE params.handlersData[id]]]

\* A block arrives and its handlers start.
BlockArrives(w, d) ==
  /\ d \in fetching[w]
  /\ fetching' = [fetching EXCEPT ![w] = @ \ {d}]
  /\ running' = [running EXCEPT ![w] = @ \union
                   {[src |-> d.src, handler |-> h, at |-> d.at] : h \in d.for}]
  /\ UNCHANGED <<tip, job, pc, copy, top, rejected, done, crashed>>

\* Faulty variant: a failed download is logged and nothing is noted.
BlockFailsUnnoted(w, d) ==
  /\ d \in fetching[w]
  /\ fetching' = [fetching EXCEPT ![w] = @ \ {d}]
  /\ UNCHANGED <<tip, job, pc, copy, top, running, rejected, done, crashed>>

\* The download throws: the height goes back to the list it came from, a
\* new block goes to the general list.
BlockFails(w, d) ==
  /\ d \in fetching[w]
  /\ fetching' = [fetching EXCEPT ![w] = @ \ {d}]
  /\ copy' = [copy EXCEPT ![w] = IF d.src = "one" THEN NoteForHandlers(copy[w], d.for, d.at)
                                                 ELSE NoteBlock(copy[w], d.at)]
  /\ UNCHANGED <<tip, job, pc, top, running, rejected, done, crashed>>

\* Faulty variant: no catch clause around a new block either.
BlockIsNullUnnoted(w, d) ==
  /\ AnswersNull
  /\ d \in fetching[w]
  /\ fetching' = [fetching EXCEPT ![w] = @ \ {d}]
  /\ rejected' = [rejected EXCEPT ![w] = TRUE]
  /\ UNCHANGED <<tip, job, pc, copy, top, running, done, crashed>>

\* The transport answers null: the handler throws, and so does the catch
\* clause that reads block.height.  For a new block the outer catch records
\* the height; processFailedBlocks rejects and records nothing.
BlockIsNull(w, d) ==
  /\ AnswersNull
  /\ d \in fetching[w]
  /\ fetching' = [fetching EXCEPT ![w] = @ \ {d}]
  /\ \/ /\ d.src = "new"
        /\ copy' = [copy EXCEPT ![w] = NoteBlock(copy[w], d.at)]
        /\ UNCHANGED rejected
     \/ /\ d.src \in Retries
        /\ rejected' = [rejected EXCEPT ![w] = TRUE]
        /\ UNCHANGED copy
  /\ UNCHANGED <<tip, job, pc, top, running, done, crashed>>

\* One handler completes one block.
HandlerSucceeds(w, e) ==
  /\ e \in running[w]
  /\ running' = [running EXCEPT ![w] = @ \ {e}]
  /\ done' = done \union {<<e.handler, e.at>>}
  /\ UNCHANGED <<tip, job, pc, copy, top, fetching, rejected, crashed>>

\* Faulty variant: a handler's failure is logged and nothing is noted.
HandlerFailsUnnoted(w, e) ==
  /\ e \in running[w]
  /\ running' = [running EXCEPT ![w] = @ \ {e}]
  /\ UNCHANGED <<tip, job, pc, copy, top, fetching, rejected, done, crashed>>

\* One handler throws: the height is recorded for that handler.
HandlerFails(w, e) ==
  /\ e \in running[w]
  /\ running' = [running EXCEPT ![w] = @ \ {e}]
  /\ copy' = [copy EXCEPT ![w] = NoteForHandlers(copy[w], {e.handler}, e.at)]
  /\ UNCHANGED <<tip, job, pc, top, fetching, rejected, done, crashed>>

\* processFailedBlocks settles (or rejected early) and executeHandlers
\* starts the downloads of all blocks after lastProcessedBlock at once.
\* A null lastBlockHeight compares as 0.
NewHeights(last, height) ==
  {b \in Heights : last < b /\ b <= (IF height = NoHeight THEN 0 ELSE height)}

RetriesSettle(w) ==
  /\ pc[w] = "retry"
  /\ rejected[w] \/ ~Outstanding(w, Retries)
  /\ pc' = [pc EXCEPT ![w] = "new"]
  /\ fetching' = [fetching EXCEPT ![w] = @ \union
       {[src |-> "new", for |-> Handlers, at |-> b] :
          b \in NewHeights(copy[w].lastProcessedBlock, top[w])}]
  /\ UNCHANGED <<tip, job, copy, top, running, rejected, done, crashed>>

\* Faulty variant: the new blocks are not awaited.
NewBlocksNotAwaited(w) ==
  /\ pc[w] = "new"
  /\ pc' = [pc EXCEPT ![w] = "save"]
  /\ copy' = [copy EXCEPT ![w] = [copy[w] EXCEPT !.lastProcessedBlock = top[w]]]
  /\ UNCHANGED <<tip, job, top, fetching, running, rejected, done, crashed>>

\* Faulty variant: lastProcessedBlock is off by one.
NewBlocksSettleBeyond(w) ==
  /\ pc[w] = "new"
  /\ ~Outstanding(w, {"new"})
  /\ pc' = [pc EXCEPT ![w] = "save"]
  /\ copy' = [copy EXCEPT ![w] = [copy[w] EXCEPT !.lastProcessedBlock = top[w] + 1]]
  /\ UNCHANGED <<tip, job, top, fetching, running, rejected, done, crashed>>

\* All new blocks are settled: lastProcessedBlock takes the reported height.
NewBlocksSettle(w) ==
  /\ pc[w] = "new"
  /\ ~Outstanding(w, {"new"})
  /\ pc' = [pc EXCEPT ![w] = "save"]
  /\ copy' = [copy EXCEPT ![w] = [copy[w] EXCEPT !.lastProcessedBlock = top[w]]]
  /\ UNCHANGED <<tip, job, top, fetching, running, rejected, done, crashed>>

\* setParams replaces the whole record.  Retries a rejected run left behind
\* go on, but the object they write to is never saved again.
Save(w) ==
  /\ pc[w] = "save"
  /\ job' = copy[w]
  /\ \E late \in SUBSET ({<<e.handler, e.at>> : e \in running[w]} \union
                         UNION {d.for \X {d.at} : d \in fetching[w]}) :
       done' = done \union late
  /\ Forget(w)
  /\ UNCHANGED <<tip, crashed>>

\* setParams fails, or the process dies anywhere in the run.
Crash(w) ==
  /\ CanCrash
  /\ pc[w] # "idle"
  /\ Forget(w)
  /\ crashed' = TRUE
  /\ UNCHANGED <<tip, job, done>>

Step(w) ==
  \/ Start(w)
  \/ HeightFails(w)
  \/ \E height \in ReportedHeights : HeightArrives(w, height)
  \/ \E d \in fetching[w] : BlockArrives(w, d) \/ BlockFails(w, d) \/ BlockIsNull(w, d)
  \/ \E e \in running[w] : HandlerSucceeds(w, e) \/ HandlerFails(w, e)
  \/ RetriesSettle(w)
  \/ NewBlocksSettle(w)
  \/ Save(w)
  \/ Crash(w)

Next == NewBlock \/ \E w \in Workers : Step(w)

Spec == Init /\ [][Next]_vars

(***************************************************************************)
(* Fairness.  Messages keep coming (the connection's cron job), the worker *)
(* runs when it can, and no call fails for ever: a pair whose download and *)
(* handler are tried again and again is served in the end.  Crashes stop;  *)
(* a crash that looks like a write of the same record, or like a height    *)
(* that could not be read, is one of those.                                *)
(***************************************************************************)
ArrivesFor(w, p) ==
  \E d \in fetching[w] : p[1] \in d.for /\ p[2] = d.at /\ BlockArrives(w, d)

SucceedsFor(w, p) ==
  \E e \in running[w] : p = <<e.handler, e.at>> /\ HandlerSucceeds(w, e)

Fairness ==
  /\ \A w \in Workers :
       /\ WF_vars(Start(w))
       /\ SF_vars(HeightArrives(w, tip))
       /\ WF_vars(RetriesSettle(w))
       /\ WF_vars(NewBlocksSettle(w))
       /\ WF_vars(Save(w))
       /\ \A p \in Pairs : SF_vars(ArrivesFor(w, p)) /\ SF_vars(SucceedsFor(w, p))
  /\ <>[][\A w \in Workers : Crash(w) => Save(w) \/ HeightFails(w)]_vars

FairSpec == Spec /\ Fairness

-----------------------------------------------------------------------------
\* The pairs a record notes as not processed, and those it answers for.
Recorded(params) ==
  {p \in Pairs : p[2] \in params.failedBlocks \/ p[2] \in params.handlersData[p[1]]}

Covered(params) ==
  IF params.lastProcessedBlock = NoHeight THEN {}
  ELSE {p \in Pairs : params.since <= p[2] /\ p[2] <= params.lastProcessedBlock}

InFlight(w) ==
  {<<e.handler, e.at>> : e \in running[w]} \union UNION {d.for \X {d.at} : d \in fetching[w]}

\* Every block a saved record counts as passed was completed by every
\* handler, or is listed in the record for another try: the two kinds of
\* failed lists (NOTICEs at blockchain.listener.ts:332 and 374) miss nothing,
\* whatever fails, crashes, or runs at the same time.
NoBlockLost == Covered(job) \subseteq done \union Recorded(job)

\* The blocks a run must have dealt with before it may save: those its copy
\* answers for and, once the new blocks are started, all up to its height.
MustAccountFor(w) ==
  Covered(copy[w]) \union
    (IF pc[w] = "new" THEN Covered([copy[w] EXCEPT !.lastProcessedBlock = top[w]]) ELSE {})

\* At every moment of a run, a block of that kind is completed, noted in the
\* copy in memory, or still in flight; the record about to be saved has
\* nothing in flight.  This is what NoBlockLost rests on.
RunAccounts(w) ==
  /\ MustAccountFor(w) \subseteq done \union Recorded(copy[w]) \union InFlight(w)
  /\ pc[w] \in {"idle", "height", "save"} => fetching[w] = {} /\ running[w] = {}
  /\ pc[w] = "retry" => ~Outstanding(w, {"new"})
  /\ pc[w] = "new" => ~Outstanding(w, Retries)
  /\ pc[w] \in {"retry", "new", "save"} =>
       top[w] \in Heights /\ copy[w].lastProcessedBlock # NoHeight
  /\ ~rejected[w]

RunAccountsForBlocks == \A w \in Workers : RunAccounts(w)

\* Even when the transport answers null, what a run loses are blocks it was
\* retrying: a new block is noted by the catch clause around it
\* (blockchain.listener.ts:330-334), a retried one has no such clause.
Unaccounted(w) == MustAccountFor(w) \ (done \union Recorded(copy[w]) \union InFlight(w))

Retrying(w) == UNION {d.for \X {d.at} : d \in {f \in fetching[w] : f.src \in Retries}}

OnlyRetriesAreLost ==
  [][\A w \in Workers :
       pc[w] # "idle" => Unaccounted(w)' \subseteq Unaccounted(w) \union Retrying(w)]_vars

\* One worker, no crash so far and a node that never lags: no handler is given
\* a block it already completed, neither by the retry of a list nor by the
\* range of new blocks, and no two tasks of a run are for the same pair.
AtMostOnce ==
  ~crashed => \A w \in Workers :
    /\ InFlight(w) \cap done = {}
    /\ \A d1, d2 \in fetching[w] : d1.at = d2.at /\ d1.for \cap d2.for # {} => d1 = d2
    /\ \A e \in running[w] : \A d \in fetching[w] : e.at = d.at => e.handler \notin d.for
    /\ \A e1, e2 \in running[w] : e1.at = e2.at /\ e1.handler = e2.handler => e1 = e2

\* One worker and a node that never lags: the saved record never answers
\* for less than before, so no block of the past is silently given up.
CoverageGrows == [][Covered(job) \subseteq Covered(job')]_job

\* Once a connection is followed, every block the chain has from there on
\* is completed by every handler in the end.
EveryBlockDelivered ==
  \A p \in Pairs :
    (job.lastProcessedBlock # NoHeight /\ job.since <= p[2] /\ p[2] <= tip) ~> (p \in done)

\* The listener implements the ledger.
Ledger == INSTANCE BlockLedger WITH
            covered <- Covered(job), owed <- Recorded(job)
ImplementsLedger == Ledger!Spec
=============================================================================
