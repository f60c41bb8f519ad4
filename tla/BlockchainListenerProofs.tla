----------------------- MODULE BlockchainListenerProofs -----------------------
(***************************************************************************)
(* Proofs about BlockchainListener for every number of workers, handlers   *)
(* and blocks.  The safety results need a transport that throws on failure *)
(* (~AnswersNull); with one that answers null NoBlockLost is false.        *)
(***************************************************************************)
EXTENDS BlockchainListener, TLAPS

USE HeightAssumption DEF Heights, HandlerIds, Pairs

\* Type correctness of one state is kept by each kind of step.
LEMMA InitTypes == Init => TypeOK
<1> SUFFICES ASSUME Init PROVE TypeOK
  OBVIOUS
<1>1. EmptyJob \in JobParams
  BY DEF EmptyJob, JobParams, HeightOrNone
<1>2. LeftBehind(tip) \subseteq JobParams
  <2>1. tip \in Heights
    BY DEF Init
  <2>2. ASSUME NEW b \in 0 .. tip, NEW F \in SUBSET (0 .. tip)
        PROVE  /\ b \in HeightOrNone
               /\ b + 1 \in Heights \union {MaxHeight + 1, NoHeight}
               /\ [id \in HandlerIds |-> IF id \in Retired THEN F ELSE {}]
                     \in [HandlerIds -> SUBSET Heights]
    BY <2>1 DEF HeightOrNone
  <2> HIDE DEF HandlerIds, Heights
  <2> SUFFICES ASSUME NEW j \in LeftBehind(tip) PROVE j \in JobParams
    OBVIOUS
  <2>3. PICK b \in 0 .. tip, F \in SUBSET (0 .. tip) :
          j = [ lastProcessedBlock |-> b, since |-> b + 1, failedBlocks |-> {},
                handlersData |-> [id \in HandlerIds |-> IF id \in Retired THEN F ELSE {}] ]
    BY DEF LeftBehind
  <2>4. {} \in SUBSET Heights
    OBVIOUS
  <2> QED
    BY <2>2, <2>3, <2>4 DEF JobParams
<1>3. job \in JobParams
  BY <1>1, <1>2 DEF Init
<1> QED
  BY <1>1, <1>3 DEF Init, TypeOK, Phases

\* Forgetting a run resets its variables to values of their types.
LEMMA ForgetTypes ==
  ASSUME TypeOK, NEW w \in Workers, Forget(w)
  PROVE  /\ pc' \in [Workers -> Phases]
         /\ copy' \in [Workers -> JobParams]
         /\ top' \in [Workers -> Heights \union {NoHeight}]
         /\ fetching' \in [Workers -> SUBSET Downloads]
         /\ running' \in [Workers -> SUBSET Executions]
         /\ rejected' \in [Workers -> BOOLEAN]
<1>1. EmptyJob \in JobParams
  BY DEF EmptyJob, JobParams, HeightOrNone
<1> QED
  BY <1>1 DEF Forget, TypeOK, Phases

\* initJobData makes a record with a height of its own out of any record.
LEMMA InitJobDataTypes ==
  ASSUME NEW params \in JobParams, NEW height \in Heights \union {NoHeight}
  PROVE  /\ initJobData(params, height) \in JobParams
         /\ initJobData(params, height).lastProcessedBlock # NoHeight
         /\ initJobData(params, height).failedBlocks = params.failedBlocks
         /\ initJobData(params, height).handlersData = params.handlersData
<1> DEFINE h == IF height = NoHeight THEN 0 ELSE height
<1>1. h \in Heights /\ h - 1 \in HeightOrNone /\ h - 1 # NoHeight
  BY DEF HeightOrNone
<1> HIDE DEF h, Heights
<1>2. CASE params.lastProcessedBlock = NoHeight
  <2>1. initJobData(params, height) =
          [params EXCEPT !.lastProcessedBlock = h - 1, !.since = h]
    BY <1>2 DEF initJobData, h
  <2> QED
    BY <1>1, <2>1 DEF JobParams
<1>3. CASE params.lastProcessedBlock # NoHeight
  BY <1>3 DEF initJobData
<1> QED
  BY <1>2, <1>3

\* Noting a failed block, for all handlers or for some, keeps the record's type.
LEMMA NoteTypes ==
  ASSUME NEW params \in JobParams, NEW b \in Heights, NEW ids
  PROVE  /\ NoteBlock(params, b) \in JobParams
         /\ NoteForHandlers(params, ids, b) \in JobParams
<1> HIDE DEF Heights, HandlerIds
<1>1. [id \in HandlerIds |-> IF id \in ids THEN params.handlersData[id] \union {b}
                             ELSE params.handlersData[id]] \in [HandlerIds -> SUBSET Heights]
  BY DEF JobParams
<1> QED
  BY <1>1 DEF NoteBlock, NoteForHandlers, JobParams

\* The downloads that processFailedBlocks starts are of their type.
LEMMA RetryDownloadsTypes ==
  ASSUME NEW params \in JobParams
  PROVE  RetryDownloads(params) \in SUBSET Downloads
<1>1. ASSUME NEW p \in Pairs
      PROVE  [src |-> "one", for |-> {p[1]}, at |-> p[2]] \in Downloads
  BY DEF Downloads, Sources
<1>2. ASSUME NEW b \in params.failedBlocks
      PROVE  [src |-> "all", for |-> Handlers, at |-> b] \in Downloads
  BY DEF Downloads, Sources, JobParams
<1> QED
  BY <1>1, <1>2 DEF RetryDownloads

(***************************************************************************)
(* Each variable keeps its type in every step.                             *)
(***************************************************************************)
THEOREM TypeCorrect == Spec => []TypeOK
<1>1. TypeOK /\ [Next]_vars => TypeOK'
  <2> SUFFICES ASSUME TypeOK, [Next]_vars PROVE TypeOK'
    OBVIOUS
  <2> USE DEF TypeOK, Phases
  <2>1. CASE NewBlock
    BY <2>1 DEF NewBlock, runVars
  <2>2. ASSUME NEW w \in Workers, Start(w) PROVE TypeOK'
    BY <2>2 DEF Start
  <2>3. ASSUME NEW w \in Workers, HeightFails(w) PROVE TypeOK'
    BY <2>3, ForgetTypes DEF HeightFails
  <2>4. ASSUME NEW w \in Workers, NEW height \in ReportedHeights, HeightArrives(w, height)
        PROVE  TypeOK'
    <3>1. height \in Heights \union {NoHeight}
      BY DEF ReportedHeights
    <3> DEFINE params == initJobData(copy[w], height)
    <3>2. params \in JobParams
      BY <3>1, InitJobDataTypes
    <3>3. RetryDownloads(params) \in SUBSET Downloads
      BY <3>2, RetryDownloadsTypes
    <3>4. [params EXCEPT !.failedBlocks = {}, !.handlersData = [id \in HandlerIds |-> {}]]
            \in JobParams
      BY <3>2 DEF JobParams
    <3> HIDE DEF params
    <3> QED
      BY <2>4, <3>1, <3>3, <3>4 DEF HeightArrives, params
  <2>5. ASSUME NEW w \in Workers, NEW d \in fetching[w], BlockArrives(w, d)
        PROVE  TypeOK'
    <3>1. {[src |-> d.src, handler |-> h, at |-> d.at] : h \in d.for} \subseteq Executions
      BY DEF Downloads, Executions
    <3> QED
      BY <2>5, <3>1 DEF BlockArrives
  <2>6. ASSUME NEW w \in Workers, NEW d \in fetching[w], BlockFails(w, d)
        PROVE  TypeOK'
    <3>1. d.at \in Heights
      BY DEF Downloads
    <3>2. copy' \in [Workers -> JobParams]
      BY <2>6, <3>1, NoteTypes DEF BlockFails
    <3> QED
      BY <2>6, <3>2 DEF BlockFails
  <2>7. ASSUME NEW w \in Workers, NEW d \in fetching[w], BlockIsNull(w, d)
        PROVE  TypeOK'
    <3>1. d.at \in Heights
      BY DEF Downloads
    <3>2. copy' \in [Workers -> JobParams]
      <4>1. CASE copy' = [copy EXCEPT ![w] = NoteBlock(copy[w], d.at)]
        BY <3>1, <4>1, NoteTypes
      <4>2. CASE UNCHANGED copy
        BY <4>2
      <4> QED
        BY <2>7, <4>1, <4>2 DEF BlockIsNull
    <3> QED
      BY <2>7, <3>2 DEF BlockIsNull
  <2>8. ASSUME NEW w \in Workers, NEW e \in running[w], HandlerSucceeds(w, e)
        PROVE  TypeOK'
    BY <2>8 DEF HandlerSucceeds, Executions
  <2>9. ASSUME NEW w \in Workers, NEW e \in running[w], HandlerFails(w, e)
        PROVE  TypeOK'
    <3>1. e.at \in Heights
      BY DEF Executions
    <3>2. copy' \in [Workers -> JobParams]
      BY <2>9, <3>1, NoteTypes DEF HandlerFails
    <3> QED
      BY <2>9, <3>2 DEF HandlerFails
  <2>10. ASSUME NEW w \in Workers, RetriesSettle(w) PROVE TypeOK'
    <3>1. /\ copy[w].lastProcessedBlock \in Int \union {NoHeight}
          /\ top[w] \in Heights \union {NoHeight}
      BY DEF JobParams, HeightOrNone
    <3>2. {[src |-> "new", for |-> Handlers, at |-> b] :
             b \in NewHeights(copy[w].lastProcessedBlock, top[w])} \subseteq Downloads
      BY <3>1 DEF NewHeights, Downloads, Sources
    <3> QED
      BY <2>10, <3>2 DEF RetriesSettle
  <2>11. ASSUME NEW w \in Workers, NewBlocksSettle(w) PROVE TypeOK'
    <3>1. copy' \in [Workers -> JobParams]
      BY <2>11 DEF NewBlocksSettle, JobParams, HeightOrNone
    <3> QED
      BY <2>11, <3>1 DEF NewBlocksSettle
  <2>12. ASSUME NEW w \in Workers, Save(w) PROVE TypeOK'
    <3>1. {<<e.handler, e.at>> : e \in running[w]} \union UNION {d.for \X {d.at} : d \in fetching[w]}
             \subseteq Pairs
      BY DEF Executions, Downloads
    <3> QED
      BY <2>12, <3>1, ForgetTypes DEF Save
  <2>13. ASSUME NEW w \in Workers, Crash(w) PROVE TypeOK'
    BY <2>13, ForgetTypes DEF Crash
  <2>14. CASE UNCHANGED vars
    BY <2>14 DEF vars
  <2> QED
    BY <2>1, <2>2, <2>3, <2>4, <2>5, <2>6, <2>7, <2>8, <2>9, <2>10, <2>11, <2>12, <2>13, <2>14
    DEF Next, Step
<1> QED
  BY InitTypes, <1>1, PTL DEF Spec

(***************************************************************************)
(* No block is lost.  NoBlockLost alone is not inductive: what Save writes *)
(* is known to account for its blocks only because RunAccountsForBlocks    *)
(* follows every run from the moment it read the job document.             *)
(***************************************************************************)
IInv == TypeOK /\ RunAccountsForBlocks /\ NoBlockLost

\* A run is not disturbed by what other workers do: they can only add to done.
LEMMA OtherRuns ==
  ASSUME NEW v \in Workers, RunAccounts(v), done \subseteq done',
         pc'[v] = pc[v], copy'[v] = copy[v], top'[v] = top[v],
         fetching'[v] = fetching[v], running'[v] = running[v], rejected'[v] = rejected[v]
  PROVE  RunAccounts(v)'
<1>1. /\ MustAccountFor(v)' = MustAccountFor(v)
      /\ Recorded(copy[v])' = Recorded(copy[v])
      /\ InFlight(v)' = InFlight(v)
  BY DEF MustAccountFor, Recorded, InFlight, Covered
<1>2. Outstanding(v, {"new"})' = Outstanding(v, {"new"}) /\ Outstanding(v, Retries)' = Outstanding(v, Retries)
  BY DEF Outstanding
<1> QED
  BY <1>1, <1>2 DEF RunAccounts

\* The saved record is not disturbed by a step that leaves it alone.
LEMMA SameJob ==
  ASSUME NoBlockLost, done \subseteq done', job' = job
  PROVE  NoBlockLost'
BY DEF NoBlockLost, Covered, Recorded

\* A forgotten run has nothing to account for.
LEMMA ForgottenRun ==
  ASSUME TypeOK, NEW w \in Workers, Forget(w)
  PROVE  RunAccounts(w)'
<1>1. /\ pc'[w] = "idle" /\ copy'[w] = EmptyJob /\ fetching'[w] = {} /\ running'[w] = {}
      /\ rejected'[w] = FALSE
  BY DEF Forget, TypeOK
<1>2. MustAccountFor(w)' = {}
  BY <1>1 DEF MustAccountFor, Covered, EmptyJob
<1> QED
  BY <1>1, <1>2 DEF RunAccounts

\* Only the worker that takes the step has to be looked at.
LEMMA OneRun ==
  ASSUME TypeOK, RunAccountsForBlocks, NoBlockLost, NEW w \in Workers,
         done \subseteq done', job' = job, RunAccounts(w)',
         \A v \in Workers \ {w} :
           /\ pc'[v] = pc[v] /\ copy'[v] = copy[v] /\ top'[v] = top[v]
           /\ fetching'[v] = fetching[v] /\ running'[v] = running[v]
           /\ rejected'[v] = rejected[v]
  PROVE  RunAccountsForBlocks' /\ NoBlockLost'
BY OtherRuns, SameJob DEF RunAccountsForBlocks

\* What a step that neither saves nor moves the run to another phase must
\* show: the pairs in flight afterwards, with what it delivered or noted,
\* include those in flight before.
LEMMA SamePhase ==
  ASSUME TypeOK, NEW w \in Workers, RunAccounts(w),
         pc' = pc, top' = top, rejected' = rejected, done \subseteq done',
         copy'[w].lastProcessedBlock = copy[w].lastProcessedBlock,
         copy'[w].since = copy[w].since,
         Recorded(copy[w]) \subseteq Recorded(copy'[w]),
         InFlight(w) \subseteq done' \union Recorded(copy'[w]) \union InFlight(w)',
         pc[w] \in {"retry", "new"},
         Outstanding(w, {"new"})' => Outstanding(w, {"new"}),
         Outstanding(w, Retries)' => Outstanding(w, Retries)
  PROVE  RunAccounts(w)'
<1>1. MustAccountFor(w)' = MustAccountFor(w)
  <2>1. Covered(copy'[w]) = Covered(copy[w])
    BY DEF Covered
  <2>2. [copy'[w] EXCEPT !.lastProcessedBlock = top[w]].since = copy'[w].since
    BY DEF Covered
  <2> QED
    BY <2>1, <2>2 DEF MustAccountFor, Covered
<1>2. MustAccountFor(w)' \subseteq done' \union Recorded(copy'[w]) \union InFlight(w)'
  BY <1>1 DEF RunAccounts
<1> QED
  BY <1>2 DEF RunAccounts

\* Only a worker that retries or processes new blocks has work in flight.
LEMMA WorkPhases ==
  ASSUME TypeOK, NEW w \in Workers, RunAccounts(w), fetching[w] # {} \/ running[w] # {}
  PROVE  pc[w] \in {"retry", "new"}
BY DEF TypeOK, Phases, RunAccounts

\* A noted failure is recorded: nothing recorded before goes away, and the
\* noted pairs are in.
LEMMA NoteRecords ==
  ASSUME NEW params \in JobParams, NEW b \in Heights, NEW ids \in SUBSET Handlers
  PROVE  /\ NoteBlock(params, b).lastProcessedBlock = params.lastProcessedBlock
         /\ NoteBlock(params, b).since = params.since
         /\ Recorded(NoteBlock(params, b)) = Recorded(params) \union (Handlers \X {b})
         /\ NoteForHandlers(params, ids, b).lastProcessedBlock = params.lastProcessedBlock
         /\ NoteForHandlers(params, ids, b).since = params.since
         /\ Recorded(NoteForHandlers(params, ids, b)) = Recorded(params) \union (ids \X {b})
BY DEF NoteBlock, NoteForHandlers, Recorded, JobParams

\* The invariant that carries the proof, step by step.
LEMMA StepKeepsAccounts ==
  ASSUME ~AnswersNull, IInv, NEW w \in Workers, Step(w)
  PROVE  RunAccountsForBlocks' /\ NoBlockLost'
<1> USE DEF IInv
<1>0. RunAccounts(w)
  BY DEF RunAccountsForBlocks
<1>1. CASE Start(w)
  <2>1. /\ pc[w] = "idle" /\ pc'[w] = "height" /\ copy'[w] = job /\ fetching' = fetching
        /\ running' = running /\ rejected' = rejected /\ done' = done
    BY <1>1 DEF Start, TypeOK
  <2>2. MustAccountFor(w)' = Covered(job)
    BY <2>1 DEF MustAccountFor, Covered
  <2>3. Recorded(copy'[w]) = Recorded(job)
    BY <2>1
  <2>4. RunAccounts(w)'
    BY <1>0, <2>1, <2>2, <2>3 DEF RunAccounts, NoBlockLost
  <2> QED
    BY <1>1, <2>1, <2>4, OneRun DEF Start, TypeOK
<1>2. CASE HeightFails(w)
  BY <1>2, ForgottenRun, OneRun DEF HeightFails, Forget, TypeOK
<1>3. ASSUME NEW height \in ReportedHeights, HeightArrives(w, height)
      PROVE  RunAccountsForBlocks' /\ NoBlockLost'
  <2>1. height \in Heights
    BY DEF ReportedHeights, TypeOK
  <2> DEFINE params == initJobData(copy[w], height)
  <2>2. params \in JobParams /\ params.lastProcessedBlock # NoHeight
    BY <2>1, InitJobDataTypes DEF TypeOK
  <2>3. Covered(params) \subseteq done \union Recorded(params)
    <3>1. CASE copy[w].lastProcessedBlock = NoHeight
      <4>1. params.lastProcessedBlock = height - 1 /\ params.since = height
        BY <2>1, <3>1 DEF initJobData, TypeOK, JobParams
      <4> QED
        BY <2>1, <4>1 DEF Covered
    <3>2. CASE copy[w].lastProcessedBlock # NoHeight
      <4>1. params = copy[w]
        BY <3>2 DEF initJobData
      <4>2. Covered(copy[w]) \subseteq done \union Recorded(copy[w])
        BY <1>0, <1>3 DEF RunAccounts, HeightArrives, MustAccountFor, InFlight
      <4> QED
        BY <4>1, <4>2
    <3> QED
      BY <3>1, <3>2
  <2> DEFINE emptied == [params EXCEPT !.failedBlocks = {},
                                       !.handlersData = [id \in HandlerIds |-> {}]]
  <2>4. /\ pc[w] = "height" /\ pc'[w] = "retry" /\ top'[w] = height /\ copy'[w] = emptied
        /\ fetching'[w] = RetryDownloads(params) /\ running' = running
        /\ rejected' = rejected /\ done' = done
    BY <1>3 DEF HeightArrives, TypeOK
  <2>5. /\ emptied.lastProcessedBlock = params.lastProcessedBlock
        /\ emptied.since = params.since
    BY <2>2 DEF JobParams
  <2>6. MustAccountFor(w)' = Covered(params)
    <3> HIDE DEF params, emptied
    <3> QED
      BY <2>4, <2>5 DEF MustAccountFor, Covered
  <2>7. Recorded(params) \subseteq InFlight(w)'
    <3> HIDE DEF params
    <3> SUFFICES ASSUME NEW h \in Handlers, NEW b \in Heights, <<h, b>> \in Recorded(params)
                 PROVE  <<h, b>> \in InFlight(w)'
      BY DEF Recorded
    <3>1. CASE b \in params.handlersData[h]
      <4> DEFINE d == [src |-> "one", for |-> {h}, at |-> b]
      <4>1. d \in RetryDownloads(params)
        <5> DEFINE q == <<h, b>>
        <5>1. q \in {r \in Pairs : r[2] \in params.handlersData[r[1]]}
          BY <3>1
        <5>2. d = [src |-> "one", for |-> {q[1]}, at |-> q[2]]
          OBVIOUS
        <5> HIDE DEF q, d
        <5> QED
          BY <5>1, <5>2 DEF RetryDownloads
      <4> QED
        BY <2>4, <4>1 DEF InFlight
    <3>2. CASE b \in params.failedBlocks
      <4> DEFINE d == [src |-> "all", for |-> Handlers, at |-> b]
      <4>1. d \in RetryDownloads(params)
        BY <3>2 DEF RetryDownloads
      <4> QED
        BY <2>4, <4>1 DEF InFlight
    <3> QED
      BY <3>1, <3>2 DEF Recorded
  <2>8. ~Outstanding(w, {"new"})'
    <3> HIDE DEF params
    <3>1. running[w] = {}
      BY <1>0, <2>4 DEF RunAccounts
    <3> QED
      BY <2>4, <3>1 DEF Outstanding, RetryDownloads
  <2>9. RunAccounts(w)'
    <3> HIDE DEF params, emptied
    <3>1. copy'[w].lastProcessedBlock # NoHeight
      BY <2>2, <2>4, <2>5
    <3> QED
      BY <1>0, <2>1, <2>3, <2>4, <2>6, <2>7, <2>8, <3>1 DEF RunAccounts
  <2> QED
    BY <1>3, <2>9, OneRun DEF HeightArrives, TypeOK
<1>4. ASSUME NEW d \in fetching[w], BlockArrives(w, d)
      PROVE  RunAccountsForBlocks' /\ NoBlockLost'
  <2>1. /\ d \in Downloads /\ fetching'[w] = fetching[w] \ {d} /\ copy' = copy /\ done' = done
        /\ running'[w] = running[w] \union
             {[src |-> d.src, handler |-> h, at |-> d.at] : h \in d.for}
    BY <1>4 DEF BlockArrives, TypeOK
  <2>2. InFlight(w) \subseteq InFlight(w)'
    <3>1. {<<e.handler, e.at>> : e \in running[w]} \subseteq InFlight(w)'
      BY <2>1 DEF InFlight
    <3>2. ASSUME NEW h \in d.for PROVE <<h, d.at>> \in InFlight(w)'
      <4> DEFINE e == [src |-> d.src, handler |-> h, at |-> d.at]
      <4>1. e \in running'[w] /\ <<e.handler, e.at>> = <<h, d.at>>
        BY <2>1
      <4> QED
        BY <4>1 DEF InFlight
    <3>3. UNION {f.for \X {f.at} : f \in fetching[w] \ {d}} \subseteq InFlight(w)'
      BY <2>1 DEF InFlight
    <3> QED
      BY <3>1, <3>2, <3>3 DEF InFlight
  <2>3. /\ Outstanding(w, {"new"})' => Outstanding(w, {"new"})
        /\ Outstanding(w, Retries)' => Outstanding(w, Retries)
    BY <2>1 DEF Outstanding, Downloads
  <2>4. RunAccounts(w)'
    BY <1>0, <1>4, <2>1, <2>2, <2>3, SamePhase, WorkPhases DEF BlockArrives
  <2> QED
    BY <1>4, <2>4, OneRun DEF BlockArrives, TypeOK
<1>5. ASSUME NEW d \in fetching[w], BlockFails(w, d)
      PROVE  RunAccountsForBlocks' /\ NoBlockLost'
  <2>1. /\ d \in Downloads /\ fetching'[w] = fetching[w] \ {d} /\ running' = running
        /\ done' = done
        /\ copy'[w] = IF d.src = "one" THEN NoteForHandlers(copy[w], d.for, d.at)
                                       ELSE NoteBlock(copy[w], d.at)
    BY <1>5 DEF BlockFails, TypeOK
  <2>2. copy[w] \in JobParams /\ d.at \in Heights /\ d.for \in SUBSET Handlers
    BY <2>1 DEF TypeOK, Downloads
  <2>3. /\ copy'[w].lastProcessedBlock = copy[w].lastProcessedBlock
        /\ copy'[w].since = copy[w].since
        /\ Recorded(copy[w]) \subseteq Recorded(copy'[w])
        /\ d.for \X {d.at} \subseteq Recorded(copy'[w])
    <3>1. CASE d.src = "one"
      BY <2>1, <2>2, <3>1, NoteRecords
    <3>2. CASE d.src # "one"
      <4>1. d.for \X {d.at} \subseteq Handlers \X {d.at}
        BY <2>2
      <4>2. copy'[w] = NoteBlock(copy[w], d.at)
        BY <2>1, <3>2
      <4>3. /\ NoteBlock(copy[w], d.at).lastProcessedBlock = copy[w].lastProcessedBlock
            /\ NoteBlock(copy[w], d.at).since = copy[w].since
            /\ Recorded(NoteBlock(copy[w], d.at)) = Recorded(copy[w]) \union (Handlers \X {d.at})
        BY <2>2, NoteRecords
      <4> HIDE DEF Heights, HandlerIds, Pairs
      <4> QED
        BY <4>1, <4>2, <4>3
    <3> QED
      BY <3>1, <3>2
  <2>4. InFlight(w) \subseteq Recorded(copy'[w]) \union InFlight(w)'
    BY <2>1, <2>3 DEF InFlight
  <2>5. /\ Outstanding(w, {"new"})' => Outstanding(w, {"new"})
        /\ Outstanding(w, Retries)' => Outstanding(w, Retries)
    BY <2>1 DEF Outstanding
  <2>6. RunAccounts(w)'
    BY <1>0, <1>5, <2>1, <2>3, <2>4, <2>5, SamePhase, WorkPhases DEF BlockFails
  <2> QED
    BY <1>5, <2>6, OneRun DEF BlockFails, TypeOK
<1>6. ASSUME NEW d \in fetching[w], BlockIsNull(w, d)
      PROVE  RunAccountsForBlocks' /\ NoBlockLost'
  BY <1>6 DEF BlockIsNull
<1>7. ASSUME NEW e \in running[w], HandlerSucceeds(w, e)
      PROVE  RunAccountsForBlocks' /\ NoBlockLost'
  <2>1. /\ e \in Executions /\ running'[w] = running[w] \ {e} /\ fetching' = fetching
        /\ copy' = copy /\ done' = done \union {<<e.handler, e.at>>}
    BY <1>7 DEF HandlerSucceeds, TypeOK
  <2>2. InFlight(w) \subseteq done' \union InFlight(w)'
    BY <2>1 DEF InFlight
  <2>3. /\ Outstanding(w, {"new"})' => Outstanding(w, {"new"})
        /\ Outstanding(w, Retries)' => Outstanding(w, Retries)
    BY <2>1 DEF Outstanding
  <2>4. RunAccounts(w)'
    BY <1>0, <1>7, <2>1, <2>2, <2>3, SamePhase, WorkPhases DEF HandlerSucceeds
  <2> QED
    BY <1>7, <2>4, OneRun DEF HandlerSucceeds, TypeOK
<1>8. ASSUME NEW e \in running[w], HandlerFails(w, e)
      PROVE  RunAccountsForBlocks' /\ NoBlockLost'
  <2>1. /\ e \in Executions /\ running'[w] = running[w] \ {e} /\ fetching' = fetching
        /\ copy'[w] = NoteForHandlers(copy[w], {e.handler}, e.at) /\ done' = done
    BY <1>8 DEF HandlerFails, TypeOK
  <2>2. copy[w] \in JobParams /\ e.at \in Heights /\ {e.handler} \in SUBSET Handlers
    BY <2>1 DEF TypeOK, Executions
  <2>3. /\ copy'[w].lastProcessedBlock = copy[w].lastProcessedBlock
        /\ copy'[w].since = copy[w].since
        /\ Recorded(copy[w]) \subseteq Recorded(copy'[w])
        /\ <<e.handler, e.at>> \in Recorded(copy'[w])
    BY <2>1, <2>2, NoteRecords
  <2>4. InFlight(w) \subseteq Recorded(copy'[w]) \union InFlight(w)'
    BY <2>1, <2>3 DEF InFlight
  <2>5. /\ Outstanding(w, {"new"})' => Outstanding(w, {"new"})
        /\ Outstanding(w, Retries)' => Outstanding(w, Retries)
    BY <2>1 DEF Outstanding
  <2>6. RunAccounts(w)'
    BY <1>0, <1>8, <2>1, <2>3, <2>4, <2>5, SamePhase, WorkPhases DEF HandlerFails
  <2> QED
    BY <1>8, <2>6, OneRun DEF HandlerFails, TypeOK
<1>9. CASE RetriesSettle(w)
  <2> DEFINE fresh == {[src |-> "new", for |-> Handlers, at |-> b] :
                         b \in NewHeights(copy[w].lastProcessedBlock, top[w])}
  <2>1. /\ pc[w] = "retry" /\ pc'[w] = "new" /\ ~Outstanding(w, Retries) /\ copy' = copy
        /\ top' = top /\ running' = running /\ rejected' = rejected /\ done' = done
        /\ fetching'[w] = fetching[w] \union fresh
    BY <1>0, <1>9 DEF RetriesSettle, TypeOK, RunAccounts
  <2>2. /\ top[w] \in Heights /\ copy[w].lastProcessedBlock \in Int
        /\ copy[w].lastProcessedBlock # NoHeight
    BY <1>0, <2>1 DEF RunAccounts, TypeOK, JobParams, HeightOrNone
  <2>3. fetching[w] = {} /\ running[w] = {}
    BY <1>0, <2>1 DEF RunAccounts, Outstanding, TypeOK, Downloads, Executions, Sources, Retries
  <2>4. Covered(copy[w]) \subseteq done \union Recorded(copy[w])
    BY <1>0, <2>3 DEF RunAccounts, MustAccountFor, InFlight
  <2>5. ASSUME NEW h \in Handlers, NEW b \in Heights,
               copy[w].lastProcessedBlock < b, b <= top[w]
        PROVE  <<h, b>> \in InFlight(w)'
    <3> DEFINE d == [src |-> "new", for |-> Handlers, at |-> b]
    <3>1. d \in fetching'[w]
      BY <2>1, <2>2, <2>5 DEF NewHeights
    <3> QED
      BY <3>1 DEF InFlight
  <2>6. MustAccountFor(w)' \subseteq done' \union Recorded(copy'[w]) \union InFlight(w)'
    <3>1. MustAccountFor(w)' =
            Covered(copy[w]) \union Covered([copy[w] EXCEPT !.lastProcessedBlock = top[w]])
      BY <2>1 DEF MustAccountFor, Covered
    <3>2. ASSUME NEW h \in Handlers, NEW b \in Heights,
                 <<h, b>> \in Covered([copy[w] EXCEPT !.lastProcessedBlock = top[w]])
          PROVE  <<h, b>> \in Covered(copy[w]) \/ <<h, b>> \in InFlight(w)'
      <4>1. copy[w].since <= b /\ b <= top[w]
        BY <2>2, <3>2 DEF Covered, TypeOK, JobParams
      <4> QED
        BY <2>2, <2>5, <4>1 DEF Covered
    <3>3. Covered([copy[w] EXCEPT !.lastProcessedBlock = top[w]])
            \subseteq Covered(copy[w]) \union InFlight(w)'
      <4>1. Covered([copy[w] EXCEPT !.lastProcessedBlock = top[w]]) \subseteq Pairs
        BY DEF Covered
      <4> QED
        BY <3>2, <4>1
    <3> QED
      BY <2>1, <2>4, <3>1, <3>3
  <2>7. ~Outstanding(w, Retries)'
    BY <2>1, <2>3 DEF Outstanding, Retries
  <2>8. RunAccounts(w)'
    BY <1>0, <2>1, <2>2, <2>6, <2>7 DEF RunAccounts
  <2> QED
    BY <1>9, <2>8, OneRun DEF RetriesSettle, TypeOK
<1>10. CASE NewBlocksSettle(w)
  <2>1. /\ pc[w] = "new" /\ pc'[w] = "save" /\ ~Outstanding(w, {"new"}) /\ top' = top
        /\ fetching' = fetching /\ running' = running /\ rejected' = rejected /\ done' = done
        /\ copy'[w] = [copy[w] EXCEPT !.lastProcessedBlock = top[w]]
    BY <1>10 DEF NewBlocksSettle, TypeOK
  <2>2. fetching[w] = {} /\ running[w] = {}
    BY <1>0, <2>1 DEF RunAccounts, Outstanding, TypeOK, Downloads, Executions, Sources, Retries
  <2>3. Recorded(copy'[w]) = Recorded(copy[w])
    BY <2>1 DEF Recorded, TypeOK, JobParams
  <2>4. Covered(copy'[w]) \subseteq done \union Recorded(copy[w])
    BY <1>0, <2>1, <2>2 DEF RunAccounts, MustAccountFor, InFlight
  <2>5. MustAccountFor(w)' = Covered(copy'[w])
    BY <2>1 DEF MustAccountFor, Covered
  <2>6. top[w] \in Heights /\ copy'[w].lastProcessedBlock # NoHeight
    BY <1>0, <2>1 DEF RunAccounts, TypeOK, JobParams
  <2>7. RunAccounts(w)'
    BY <1>0, <2>1, <2>2, <2>3, <2>4, <2>5, <2>6 DEF RunAccounts
  <2> QED
    BY <1>10, <2>7, OneRun DEF NewBlocksSettle, TypeOK
<1>11. CASE Save(w)
  <2>1. /\ pc[w] = "save" /\ job' = copy[w] /\ Forget(w) /\ done \subseteq done'
    BY <1>11 DEF Save
  <2>2. Covered(copy[w]) \subseteq done \union Recorded(copy[w])
    BY <1>0, <2>1 DEF RunAccounts, MustAccountFor, InFlight
  <2>3. NoBlockLost'
    BY <2>1, <2>2 DEF NoBlockLost
  <2>4. RunAccounts(w)'
    BY <2>1, ForgottenRun
  <2>5. ASSUME NEW v \in Workers \ {w} PROVE RunAccounts(v)'
    BY <2>1, OtherRuns DEF Forget, TypeOK, RunAccountsForBlocks
  <2> QED
    BY <2>3, <2>4, <2>5 DEF RunAccountsForBlocks
<1>12. CASE Crash(w)
  BY <1>12, ForgottenRun, OneRun DEF Crash, Forget, TypeOK
<1> QED
  BY <1>1, <1>2, <1>3, <1>4, <1>5, <1>6, <1>7, <1>8, <1>9, <1>10, <1>11, <1>12 DEF Step

\* Initially no run is in progress, and a record left behind covers nothing.
LEMMA InitAccounts == Init => RunAccountsForBlocks /\ NoBlockLost
<1> SUFFICES ASSUME Init PROVE RunAccountsForBlocks /\ NoBlockLost
  OBVIOUS
<1>1. Covered(job) = {}
  BY DEF Init, EmptyJob, LeftBehind, Covered
<1>2. ASSUME NEW w \in Workers PROVE RunAccounts(w)
  BY DEF Init, EmptyJob, RunAccounts, MustAccountFor, Covered
<1> QED
  BY <1>1, <1>2 DEF NoBlockLost, RunAccountsForBlocks

\* The strengthened invariant is inductive.
LEMMA NextKeepsAccounts ==
  ASSUME ~AnswersNull
  PROVE  IInv /\ [Next]_vars => (RunAccountsForBlocks /\ NoBlockLost)'
<1>1. CASE NewBlock
  BY <1>1, OtherRuns, SameJob DEF NewBlock, runVars, IInv, RunAccountsForBlocks
<1>2. CASE UNCHANGED vars
  BY <1>2, OtherRuns, SameJob DEF vars, IInv, RunAccountsForBlocks
<1> QED
  BY <1>1, <1>2, StepKeepsAccounts DEF Next

\* With a transport that throws, every run in progress accounts for the
\* blocks it has taken on, whatever the other workers do.
THEOREM RunsAccountForBlocks ==
  ASSUME ~AnswersNull
  PROVE  Spec => []RunAccountsForBlocks
BY InitAccounts, NextKeepsAccounts, TypeCorrect, PTL DEF Spec, IInv

\* With a transport that throws, the saved record of a connection accounts
\* for every block it counts as passed, for any number of workers, handlers
\* and blocks, any interleaving, failure, crash or lagging node.
THEOREM BlocksAreNeverLost ==
  ASSUME ~AnswersNull
  PROVE  Spec => []NoBlockLost
BY InitAccounts, NextKeepsAccounts, TypeCorrect, PTL DEF Spec, IInv

\* The listener implements the ledger: handlers only add deliveries, and the
\* write of the job document is the ledger's Commit.
THEOREM ListenerImplementsLedger ==
  ASSUME ~AnswersNull
  PROVE  Spec => ImplementsLedger
<1> USE DEF Ledger!ledgerVars, Ledger!NothingForgotten
<1>1. Spec => []IInv
  BY RunsAccountForBlocks, TypeCorrect, BlocksAreNeverLost, PTL DEF IInv
<1>2. Init => Ledger!Init
  BY InitAccounts DEF Ledger!Init, Covered, Recorded, Init, NoBlockLost
<1>3. IInv /\ IInv' /\ [Next]_vars => [Ledger!Next]_(Ledger!ledgerVars)
  <2> SUFFICES ASSUME IInv, IInv', [Next]_vars
               PROVE  [Ledger!Next]_(Ledger!ledgerVars)
    OBVIOUS
  <2>1. CASE done' = done /\ job' = job
    BY <2>1
  <2>2. ASSUME NEW p \in Pairs, done' = done \union {p}, job' = job
        PROVE  Ledger!Next
    BY <2>2 DEF Ledger!Next, Ledger!Deliver
  <2>3. ASSUME NEW w \in Workers, Save(w)
        PROVE  Ledger!Next
    <3>1. fetching[w] = {} /\ running[w] = {}
      BY <2>3 DEF IInv, RunAccountsForBlocks, RunAccounts, Save
    <3>2. done' = done
      BY <2>3, <3>1 DEF Save
    <3>3. Covered(job)' \subseteq Pairs /\ Recorded(job)' \subseteq Pairs
      BY DEF Covered, Recorded
    <3> QED
      BY <3>2, <3>3 DEF Ledger!Next, Ledger!Commit, IInv, NoBlockLost
  <2>4. ASSUME NEW w \in Workers, NEW e \in running[w], HandlerSucceeds(w, e)
        PROVE  Ledger!Next
    <3>1. <<e.handler, e.at>> \in Pairs
      BY DEF IInv, TypeOK, Executions
    <3> QED
      BY <2>2, <2>4, <3>1 DEF HandlerSucceeds
  <2> QED
    BY <2>1, <2>3, <2>4
    DEF Next, Step, vars, NewBlock, Start, HeightFails, HeightArrives, BlockArrives, BlockFails,
        BlockIsNull, HandlerFails, RetriesSettle, NewBlocksSettle, Crash
<1> QED
  BY <1>1, <1>2, <1>3, PTL DEF Spec, ImplementsLedger, Ledger!Spec

-----------------------------------------------------------------------------
(* One worker and a node that never lags *)

Sole == (\A v, w \in Workers : v = w) /\ ~CanLag /\ ~AnswersNull

\* The height that the run was given is not below what the job document
\* already answers for, and the copy keeps what the document said.
Limited(w) ==
  /\ job.lastProcessedBlock # NoHeight => job.lastProcessedBlock <= tip
  /\ pc[w] = "height" => copy[w] = job
  /\ pc[w] \in {"retry", "new", "save"} =>
       /\ copy[w].lastProcessedBlock <= top[w] /\ top[w] <= tip
       /\ job.lastProcessedBlock # NoHeight =>
            copy[w].since = job.since /\ job.lastProcessedBlock <= copy[w].lastProcessedBlock

LimitInv == \A w \in Workers : Limited(w)

LEMMA InitLimits == Init => LimitInv
<1> SUFFICES ASSUME Init, NEW w \in Workers PROVE Limited(w)
  BY DEF LimitInv
<1>1. pc[w] = "idle" /\ tip \in Heights
  BY DEF Init
<1>2. job.lastProcessedBlock = NoHeight \/ job.lastProcessedBlock \in 0 .. tip
  BY DEF Init, EmptyJob, LeftBehind
<1> QED
  BY <1>1, <1>2 DEF Limited

\* What initJobData starts a record with is not above the height.
LEMMA InitJobDataLimits ==
  ASSUME NEW params \in JobParams, NEW height \in Heights,
         params.lastProcessedBlock # NoHeight => params.lastProcessedBlock <= height
  PROVE  /\ initJobData(params, height).lastProcessedBlock <= height
         /\ params.lastProcessedBlock # NoHeight => initJobData(params, height) = params
         /\ initJobData(params, height).failedBlocks = params.failedBlocks
         /\ initJobData(params, height).handlersData = params.handlersData
         /\ initJobData(params, height) \in JobParams
<1>1. height # NoHeight
  OBVIOUS
<1>2. CASE params.lastProcessedBlock = NoHeight
  <2>1. initJobData(params, height) = [params EXCEPT !.lastProcessedBlock = height - 1, !.since = height]
    BY <1>1, <1>2 DEF initJobData
  <2>2. initJobData(params, height).lastProcessedBlock = height - 1
    BY <2>1 DEF JobParams
  <2> QED
    BY <1>2, <2>2, InitJobDataTypes
<1>3. CASE params.lastProcessedBlock # NoHeight
  BY <1>3 DEF initJobData
<1> QED
  BY <1>2, <1>3

\* Work of a run that keeps the height and the copy's range.
SameRange(w) ==
  /\ pc' = pc /\ top' = top /\ job' = job /\ tip' = tip
  /\ copy'[w].lastProcessedBlock = copy[w].lastProcessedBlock /\ copy'[w].since = copy[w].since

LEMMA WorkKeepsRange ==
  ASSUME IInv, ~AnswersNull, NEW w \in Workers,
         \/ \E d \in fetching[w] : BlockArrives(w, d) \/ BlockFails(w, d) \/ BlockIsNull(w, d)
         \/ \E e \in running[w] : HandlerSucceeds(w, e) \/ HandlerFails(w, e)
  PROVE  SameRange(w) /\ pc[w] \in {"retry", "new"}
<1>1. pc[w] \in {"retry", "new"}
  BY WorkPhases DEF IInv, RunAccountsForBlocks
<1>2. ASSUME NEW d \in fetching[w], BlockArrives(w, d) PROVE SameRange(w)
  BY <1>2 DEF BlockArrives, SameRange
<1>3. ASSUME NEW d \in fetching[w], BlockFails(w, d) PROVE SameRange(w)
  <2>1. copy[w] \in JobParams /\ d.at \in Heights /\ d.for \in SUBSET Handlers
    BY DEF IInv, TypeOK, Downloads
  <2>2. copy'[w] = IF d.src = "one" THEN NoteForHandlers(copy[w], d.for, d.at)
                                    ELSE NoteBlock(copy[w], d.at)
    BY <1>3 DEF BlockFails, IInv, TypeOK
  <2>3. /\ copy'[w].lastProcessedBlock = copy[w].lastProcessedBlock
        /\ copy'[w].since = copy[w].since
    <3>1. CASE d.src = "one"
      BY <2>1, <2>2, <3>1, NoteRecords
    <3>2. CASE d.src # "one"
      <4>1. copy'[w] = NoteBlock(copy[w], d.at)
        BY <2>2, <3>2
      <4>2. /\ NoteBlock(copy[w], d.at).lastProcessedBlock = copy[w].lastProcessedBlock
            /\ NoteBlock(copy[w], d.at).since = copy[w].since
        BY <2>1, NoteRecords
      <4> QED
        BY <4>1, <4>2
    <3> QED
      BY <3>1, <3>2
  <2> QED
    BY <1>3, <2>3 DEF BlockFails, SameRange
<1>4. ASSUME NEW e \in running[w], HandlerSucceeds(w, e) PROVE SameRange(w)
  BY <1>4 DEF HandlerSucceeds, SameRange
<1>5. ASSUME NEW e \in running[w], HandlerFails(w, e) PROVE SameRange(w)
  <2>1. copy[w] \in JobParams /\ e.at \in Heights /\ {e.handler} \in SUBSET Handlers
    BY DEF IInv, TypeOK, Executions
  <2>2. copy'[w] = NoteForHandlers(copy[w], {e.handler}, e.at)
    BY <1>5 DEF HandlerFails, IInv, TypeOK
  <2> QED
    BY <1>5, <2>1, <2>2, NoteRecords DEF HandlerFails, SameRange
<1> QED
  BY <1>1, <1>2, <1>3, <1>4, <1>5 DEF BlockIsNull

LEMMA StepKeepsLimits ==
  ASSUME Sole, IInv, LimitInv, NEW w \in Workers, Step(w)
  PROVE  LimitInv'
<1> SUFFICES Limited(w)'
  BY DEF Sole, LimitInv
<1>0. /\ Limited(w) /\ tip \in Heights /\ job \in JobParams /\ copy[w] \in JobParams
      /\ pc[w] \in {"retry", "new", "save"} => top[w] \in Heights /\ copy[w].lastProcessedBlock # NoHeight
  BY DEF LimitInv, IInv, TypeOK, RunAccountsForBlocks, RunAccounts
<1>1. CASE Start(w)
  <2>1. pc'[w] = "height" /\ copy'[w] = job /\ job' = job /\ tip' = tip
    BY <1>1 DEF Start, IInv, TypeOK
  <2> QED
    BY <1>0, <2>1 DEF Limited
<1>2. CASE HeightFails(w) \/ Crash(w)
  <2>1. pc'[w] = "idle" /\ job' = job /\ tip' = tip
    BY <1>2 DEF HeightFails, Crash, Forget, IInv, TypeOK
  <2> QED
    BY <1>0, <2>1 DEF Limited
<1>3. ASSUME NEW height \in ReportedHeights, HeightArrives(w, height)
      PROVE  Limited(w)'
  <2>1. height = tip
    BY DEF ReportedHeights, Sole
  <2> DEFINE params == initJobData(copy[w], height)
  <2>2. /\ params.lastProcessedBlock <= tip /\ params \in JobParams
        /\ copy[w].lastProcessedBlock # NoHeight => params = copy[w]
    BY <1>0, <1>3, <2>1, InitJobDataLimits DEF Limited, HeightArrives
  <2> HIDE DEF params
  <2>3. /\ pc'[w] = "retry" /\ top'[w] = tip /\ job' = job /\ tip' = tip /\ copy[w] = job
        /\ copy'[w].lastProcessedBlock = params.lastProcessedBlock /\ copy'[w].since = params.since
    BY <1>0, <1>3, <2>1, <2>2 DEF HeightArrives, IInv, TypeOK, JobParams, Limited, params
  <2>4. job.lastProcessedBlock # NoHeight => job.lastProcessedBlock \in Int
    BY <1>0 DEF JobParams, HeightOrNone
  <2> QED
    BY <1>0, <2>2, <2>3, <2>4 DEF Limited
<1>4. CASE \/ \E d \in fetching[w] : BlockArrives(w, d) \/ BlockFails(w, d) \/ BlockIsNull(w, d)
           \/ \E e \in running[w] : HandlerSucceeds(w, e) \/ HandlerFails(w, e)
  <2>1. SameRange(w) /\ pc[w] \in {"retry", "new"}
    BY <1>4, WorkKeepsRange DEF Sole
  <2> QED
    BY <1>0, <2>1 DEF SameRange, Limited
<1>5. CASE RetriesSettle(w)
  <2>1. pc[w] = "retry" /\ pc'[w] = "new" /\ UNCHANGED <<copy, top, job, tip>>
    BY <1>5 DEF RetriesSettle, IInv, TypeOK
  <2> QED
    BY <1>0, <2>1 DEF Limited
<1>6. CASE NewBlocksSettle(w)
  <2>1. /\ pc[w] = "new" /\ pc'[w] = "save" /\ UNCHANGED <<top, job, tip>>
        /\ copy'[w].lastProcessedBlock = top[w] /\ copy'[w].since = copy[w].since
    BY <1>0, <1>6 DEF NewBlocksSettle, IInv, TypeOK, JobParams
  <2>2. /\ job.lastProcessedBlock # NoHeight => job.lastProcessedBlock \in Int
        /\ copy[w].lastProcessedBlock \in Int
    BY <1>0, <2>1 DEF JobParams, HeightOrNone
  <2> QED
    BY <1>0, <2>1, <2>2 DEF Limited
<1>7. CASE Save(w)
  <2>1. pc[w] = "save" /\ pc'[w] = "idle" /\ job' = copy[w] /\ tip' = tip
    BY <1>7 DEF Save, Forget, IInv, TypeOK
  <2>2. copy[w].lastProcessedBlock \in Int
    BY <1>0, <2>1 DEF JobParams, HeightOrNone
  <2> QED
    BY <1>0, <2>1, <2>2 DEF Limited
<1> QED
  BY <1>1, <1>2, <1>3, <1>4, <1>5, <1>6, <1>7 DEF Step

LEMMA NextKeepsLimits ==
  ASSUME Sole
  PROVE  IInv /\ LimitInv /\ [Next]_vars => LimitInv'
<1>1. ASSUME IInv, LimitInv, NewBlock PROVE LimitInv'
  <2>1. ASSUME NEW w \in Workers PROVE Limited(w)'
    <3>1. Limited(w) /\ UNCHANGED <<pc, copy, top, job>> /\ tip' = tip + 1 /\ tip \in Int
      BY <1>1 DEF LimitInv, NewBlock, runVars, IInv, TypeOK
    <3>2. /\ job.lastProcessedBlock # NoHeight => job.lastProcessedBlock \in Int
          /\ pc[w] \in {"retry", "new", "save"} => top[w] \in Int
      BY <1>1 DEF IInv, TypeOK, JobParams, HeightOrNone, RunAccountsForBlocks, RunAccounts
    <3> QED
      BY <3>1, <3>2 DEF Limited
  <2> QED
    BY <2>1 DEF LimitInv
<1>2. ASSUME IInv, LimitInv, UNCHANGED vars PROVE LimitInv'
  BY <1>2 DEF LimitInv, Limited, vars
<1> QED
  BY <1>1, <1>2, StepKeepsLimits DEF Next

\* With one worker and a node that never lags the saved record never answers
\* for less than before (blockchain.listener.ts execute: the last write
\* replaces the whole record).
THEOREM CoverageNeverShrinks ==
  ASSUME Sole
  PROVE  Spec => CoverageGrows
<1>1. IInv /\ LimitInv /\ [Next]_vars => [Covered(job) \subseteq Covered(job')]_job
  <2> SUFFICES ASSUME IInv, LimitInv, Next, job' # job
               PROVE  Covered(job) \subseteq Covered(job')
    BY DEF vars
  <2>1. PICK w \in Workers : Save(w)
    BY DEF Next, Step, NewBlock, Start, HeightFails, HeightArrives, BlockArrives, BlockFails, BlockIsNull,
           HandlerSucceeds, HandlerFails, RetriesSettle, NewBlocksSettle, Crash
  <2>2. /\ job' = copy[w]
        /\ job.lastProcessedBlock # NoHeight =>
             copy[w].since = job.since /\ job.lastProcessedBlock <= copy[w].lastProcessedBlock
        /\ copy[w].lastProcessedBlock # NoHeight
    BY <2>1 DEF Save, LimitInv, Limited, IInv, RunAccountsForBlocks, RunAccounts
  <2>3. /\ job.lastProcessedBlock # NoHeight => job.lastProcessedBlock \in Int
        /\ copy[w].lastProcessedBlock \in Int
    BY <2>2 DEF IInv, TypeOK, JobParams, HeightOrNone
  <2> QED
    BY <2>2, <2>3 DEF Covered
<1>2. Spec => []IInv
  BY RunsAccountForBlocks, TypeCorrect, BlocksAreNeverLost, PTL DEF IInv, Sole
<1>3. Spec => []LimitInv
  BY <1>2, InitLimits, NextKeepsLimits, PTL DEF Spec
<1> QED
  BY <1>1, <1>2, <1>3, PTL DEF Spec, CoverageGrows

\* Without a crash, what is recorded for another try was not completed, and
\* a height is not in a handler's list and the general one.
Fresh(r) ==
  /\ Recorded(r) \cap done = {}
  /\ \A h \in Handlers, b \in r.failedBlocks : b \notin r.handlersData[h]

Within(S, last) == \A p \in S : last # NoHeight /\ p[2] <= last

\* No two tasks of a run are for the same pair.
Separate(w) ==
  /\ \A d1, d2 \in fetching[w] : (d1.at = d2.at /\ d1.for \cap d2.for # {}) => d1 = d2
  /\ \A e \in running[w], d \in fetching[w] : e.at = d.at => e.handler \notin d.for
  /\ \A e1, e2 \in running[w] : (e1.at = e2.at /\ e1.handler = e2.handler) => e1 = e2

\* What is in flight was neither completed nor recorded, and nothing that was
\* tried lies above the range of the record.
Resting(w) == Fresh(job) /\ Within(done \union Recorded(job), job.lastProcessedBlock)
Working(w) ==
  /\ Fresh(copy[w]) /\ Separate(w)
  /\ InFlight(w) \cap (done \union Recorded(copy[w])) = {}
  /\ \A d \in fetching[w] : d.src # "one" => d.for = Handlers
  /\ Within(done \union Recorded(copy[w]) \union InFlight(w),
            IF pc[w] = "new" THEN top[w] ELSE copy[w].lastProcessedBlock)

Once(w) == /\ pc[w] \in {"idle", "height"} => Resting(w)
           /\ pc[w] \in {"retry", "new", "save"} => Working(w)

OnceInv == ~crashed => \A w \in Workers : Once(w)

LEMMA InitOnce == Init => OnceInv
<1> SUFFICES ASSUME Init, NEW w \in Workers PROVE Once(w)
  BY DEF OnceInv
<1>1. pc[w] = "idle" /\ done = {}
  BY DEF Init
<1>2. job.failedBlocks = {} /\ \A h \in Handlers : job.handlersData[h] = {}
  <2>1. CASE job = EmptyJob
    BY <2>1 DEF EmptyJob
  <2>2. CASE job \in LeftBehind(tip)
    BY <2>2, HandlersAssumption DEF LeftBehind
  <2> QED
    BY <2>1, <2>2 DEF Init
<1>3. Recorded(job) = {}
  BY <1>2 DEF Recorded
<1> QED
  BY <1>1, <1>2, <1>3 DEF Once, Resting, Fresh, Within

\* The pairs a download or an execution is for.
LEMMA InFlightIs ==
  ASSUME TypeOK, NEW w \in Workers, NEW h, NEW b
  PROVE  <<h, b>> \in InFlight(w) <=> \/ \E e \in running[w] : e.handler = h /\ e.at = b
                                      \/ \E d \in fetching[w] : h \in d.for /\ d.at = b
BY DEF InFlight

LEMMA InFlightPairs == ASSUME TypeOK, NEW w \in Workers PROVE InFlight(w) \subseteq Pairs
BY DEF InFlight, TypeOK, Downloads, Executions

\* What the retries of a record are for.
LEMMA RetryDownloadsAre ==
  ASSUME NEW params \in JobParams, NEW d \in RetryDownloads(params)
  PROVE  \/ d.src = "one" /\ \E h \in Handlers : d.for = {h} /\ d.at \in params.handlersData[h]
         \/ d.src = "all" /\ d.for = Handlers /\ d.at \in params.failedBlocks
<1>1. CASE \E p \in Pairs : p[2] \in params.handlersData[p[1]] /\ d = [src |-> "one", for |-> {p[1]}, at |-> p[2]]
  BY <1>1
<1>2. CASE \E b \in params.failedBlocks : d = [src |-> "all", for |-> Handlers, at |-> b]
  BY <1>2
<1> QED
  BY <1>1, <1>2 DEF RetryDownloads

LEMMA HeightArrivesOnce ==
  ASSUME Sole, IInv, LimitInv, NEW w \in Workers, Resting(w),
         NEW height \in ReportedHeights, HeightArrives(w, height)
  PROVE  Working(w)'
<1> DEFINE params == initJobData(copy[w], height)
<1>1. /\ height \in Heights /\ copy[w] = job /\ job \in JobParams /\ running[w] = {} /\ pc[w] = "height"
      /\ job.lastProcessedBlock # NoHeight => job.lastProcessedBlock <= height
  BY DEF ReportedHeights, Sole, IInv, TypeOK, LimitInv, Limited, HeightArrives, RunAccountsForBlocks,
         RunAccounts
<1>2. /\ params \in JobParams
      /\ job.lastProcessedBlock # NoHeight => params = job
      /\ params.failedBlocks = job.failedBlocks /\ params.handlersData = job.handlersData
  BY <1>1, InitJobDataLimits
<1>3. /\ pc'[w] = "retry" /\ fetching'[w] = RetryDownloads(params) /\ running'[w] = {} /\ done' = done
      /\ copy'[w] = [params EXCEPT !.failedBlocks = {}, !.handlersData = [id \in HandlerIds |-> {}]]
  BY <1>1 DEF HeightArrives, IInv, TypeOK
<1> HIDE DEF params
<1>4. /\ copy'[w].lastProcessedBlock = params.lastProcessedBlock /\ copy'[w].failedBlocks = {}
      /\ \A h \in Handlers : copy'[w].handlersData[h] = {}
  BY <1>2, <1>3 DEF JobParams
<1>5. Recorded(copy'[w]) = {}
  BY <1>4 DEF Recorded
<1>6. \A d \in fetching'[w] :
        \/ d.src = "one" /\ \E h \in Handlers : d.for = {h} /\ d.at \in job.handlersData[h]
        \/ d.src = "all" /\ d.for = Handlers /\ d.at \in job.failedBlocks
  <2> SUFFICES ASSUME NEW d \in RetryDownloads(params)
               PROVE  \/ d.src = "one" /\ \E h \in Handlers : d.for = {h} /\ d.at \in params.handlersData[h]
                      \/ d.src = "all" /\ d.for = Handlers /\ d.at \in params.failedBlocks
    BY <1>2, <1>3, Zenon
  <2> QED
    BY <1>2, RetryDownloadsAre
<1>7. fetching'[w] \subseteq Downloads /\ job.failedBlocks \subseteq Heights
      /\ \A h \in Handlers : job.handlersData[h] \subseteq Heights
  <2>1. RetryDownloads(params) \in SUBSET Downloads
    BY <1>2, RetryDownloadsTypes
  <2> QED
    BY <1>1, <1>3, <2>1 DEF JobParams
<1>8. InFlight(w)' \subseteq Recorded(job)
  <2> SUFFICES ASSUME NEW d \in fetching'[w], NEW h \in d.for
               PROVE  <<h, d.at>> \in Recorded(job)
    BY <1>3 DEF InFlight
  <2> QED
    BY <1>6, <1>7 DEF Recorded
<1>9. Separate(w)'
  <2> SUFFICES ASSUME NEW c \in fetching'[w], NEW d \in fetching'[w], c.at = d.at,
                      NEW h \in c.for \cap d.for
               PROVE  c = d
    BY <1>3 DEF Separate
  <2>1. c \in Downloads /\ d \in Downloads
    BY <1>7
  <2>2. c.src = d.src /\ c.for = d.for
    BY <1>6 DEF Resting, Fresh
  <2> QED
    BY <2>1, <2>2 DEF Downloads
<1>10. Fresh(copy[w])'
  BY <1>4, <1>5 DEF Fresh
<1>11. (InFlight(w) \cap (done \union Recorded(copy[w])) = {})'
  BY <1>3, <1>5, <1>8 DEF Resting, Fresh
<1>12. \A p \in done' \union Recorded(copy'[w]) \union InFlight(w)' :
         copy'[w].lastProcessedBlock # NoHeight /\ p[2] <= copy'[w].lastProcessedBlock
  <2> SUFFICES ASSUME NEW p \in done' \union Recorded(copy'[w]) \union InFlight(w)'
               PROVE  copy'[w].lastProcessedBlock # NoHeight /\ p[2] <= copy'[w].lastProcessedBlock
    OBVIOUS
  <2>1. p \in done \union Recorded(job)
    BY <1>3, <1>5, <1>8
  <2>2. job.lastProcessedBlock # NoHeight /\ p[2] <= job.lastProcessedBlock
    BY <2>1 DEF Resting, Within
  <2> QED
    BY <1>2, <1>4, <2>2
<1>13. \A d \in fetching'[w] : d.src # "one" => d.for = Handlers
  BY <1>6
<1> QED
  BY <1>3, <1>9, <1>10, <1>11, <1>12, <1>13 DEF Working, Within

\* What a step of a run leaves to show when it moves pairs from the set in
\* flight to those completed or recorded.
Moves(w) ==
  /\ InFlight(w)' \subseteq InFlight(w)
  /\ done' \union Recorded(copy'[w]) \union InFlight(w)'
       \subseteq done \union Recorded(copy[w]) \union InFlight(w)
  /\ InFlight(w)' \cap (done' \union Recorded(copy'[w])) = {}
  /\ done' \cap Recorded(copy'[w]) = {}

LEMMA MovesOnce ==
  ASSUME NEW w \in Workers, Working(w), SameRange(w), Moves(w), Separate(w)',
         \A h \in Handlers, b \in copy'[w].failedBlocks : b \notin copy'[w].handlersData[h],
         \A d \in fetching'[w] : d.src # "one" => d.for = Handlers
  PROVE  Working(w)'
<1>1. Fresh(copy[w])'
  BY DEF Fresh, Moves
<1>2. Within(done \union Recorded(copy[w]) \union InFlight(w),
             IF pc[w] = "new" THEN top[w] ELSE copy[w].lastProcessedBlock)'
  BY DEF Working, Within, Moves, SameRange
<1>3. (InFlight(w) \cap (done \union Recorded(copy[w])) = {})'
  BY DEF Moves
<1> QED
  BY <1>1, <1>2, <1>3 DEF Working

LEMMA BlockArrivesOnce ==
  ASSUME IInv, ~AnswersNull, NEW w \in Workers, Working(w), NEW d \in fetching[w], BlockArrives(w, d)
  PROVE  Working(w)'
<1> DEFINE started == {[src |-> d.src, handler |-> h, at |-> d.at] : h \in d.for}
<1>1. /\ TypeOK /\ d \in Downloads /\ fetching'[w] = fetching[w] \ {d} /\ copy' = copy /\ done' = done
      /\ running'[w] = running[w] \union started
  BY DEF BlockArrives, IInv, TypeOK
<1>2. /\ \A e \in started : e.handler \in d.for /\ e.at = d.at
      /\ \A e1, e2 \in started : e1.handler = e2.handler => e1 = e2
  OBVIOUS
<1> HIDE DEF started
<1>3. InFlight(w)' \subseteq InFlight(w)
  <2>1. ASSUME NEW e \in running'[w] PROVE <<e.handler, e.at>> \in InFlight(w)
    BY <1>1, <1>2 DEF InFlight
  <2>2. ASSUME NEW f \in fetching'[w] PROVE f.for \X {f.at} \subseteq InFlight(w)
    BY <1>1 DEF InFlight
  <2> QED
    BY <2>1, <2>2 DEF InFlight
<1>4. Moves(w)
  BY <1>1, <1>3 DEF Moves, Working, Fresh
<1>5. Separate(w)'
  <2>1. \A d1, d2 \in fetching'[w] : (d1.at = d2.at /\ d1.for \cap d2.for # {}) => d1 = d2
    BY <1>1 DEF Working, Separate
  <2>2. \A e \in running'[w], f \in fetching'[w] : e.at = f.at => e.handler \notin f.for
    BY <1>1, <1>2 DEF Working, Separate
  <2>3. \A e1, e2 \in running'[w] : (e1.at = e2.at /\ e1.handler = e2.handler) => e1 = e2
    BY <1>1, <1>2 DEF Working, Separate
  <2> QED
    BY <2>1, <2>2, <2>3 DEF Separate
<1>6. SameRange(w)
  BY WorkKeepsRange
<1>7. /\ \A h \in Handlers, b \in copy'[w].failedBlocks : b \notin copy'[w].handlersData[h]
      /\ \A f \in fetching'[w] : f.src # "one" => f.for = Handlers
  BY <1>1 DEF Working, Fresh
<1> QED
  BY <1>4, <1>5, <1>6, <1>7, MovesOnce

\* Fewer tasks are still separate.
LEMMA FewerSeparate ==
  ASSUME NEW w \in Workers, Separate(w), fetching'[w] \subseteq fetching[w], running'[w] \subseteq running[w]
  PROVE  Separate(w)'
BY DEF Separate

LEMMA HandlerEndsOnce ==
  ASSUME IInv, ~AnswersNull, NEW w \in Workers, Working(w), NEW e \in running[w],
         HandlerSucceeds(w, e) \/ HandlerFails(w, e)
  PROVE  Working(w)'
<1> DEFINE p == <<e.handler, e.at>>
<1>1. /\ TypeOK /\ e \in Executions /\ fetching'[w] = fetching[w] /\ running'[w] = running[w] \ {e}
      /\ p \in InFlight(w)
  BY DEF HandlerSucceeds, HandlerFails, IInv, TypeOK, InFlight
<1>2. InFlight(w)' \subseteq InFlight(w) \ {p}
  <2>1. ASSUME NEW d \in running'[w] PROVE <<d.handler, d.at>> \in InFlight(w) \ {p}
    BY <1>1 DEF InFlight, Working, Separate
  <2>2. ASSUME NEW f \in fetching'[w], NEW h \in f.for PROVE <<h, f.at>> \in InFlight(w) \ {p}
    BY <1>1 DEF InFlight, Working, Separate
  <2> QED
    BY <2>1, <2>2 DEF InFlight
<1>3. Separate(w)'
  BY <1>1, FewerSeparate DEF Working
<1>4. SameRange(w)
  BY WorkKeepsRange
<1>5. \A f \in fetching'[w] : f.src # "one" => f.for = Handlers
  BY <1>1 DEF Working
<1>6. CASE HandlerSucceeds(w, e)
  <2>1. done' = done \union {p} /\ copy' = copy
    BY <1>6 DEF HandlerSucceeds
  <2> HIDE DEF p
  <2>2. Moves(w)
    BY <1>1, <1>2, <2>1 DEF Moves, Working, Fresh
  <2>3. \A h \in Handlers, b \in copy'[w].failedBlocks : b \notin copy'[w].handlersData[h]
    BY <2>1 DEF Working, Fresh
  <2> QED
    BY <1>3, <1>4, <1>5, <2>2, <2>3, MovesOnce
<1>7. CASE HandlerFails(w, e)
  <2>1. /\ copy[w] \in JobParams /\ e.at \in Heights /\ e.handler \in Handlers /\ done' = done
        /\ copy'[w] = NoteForHandlers(copy[w], {e.handler}, e.at)
    BY <1>1, <1>7 DEF HandlerFails, TypeOK, Executions
  <2>2. Recorded(copy'[w]) = Recorded(copy[w]) \union {p}
    <3>1. {e.handler} \in SUBSET Handlers
      BY <2>1
    <3>2. Recorded(NoteForHandlers(copy[w], {e.handler}, e.at))
            = Recorded(copy[w]) \union ({e.handler} \X {e.at})
      BY <2>1, <3>1, NoteRecords
    <3>3. {e.handler} \X {e.at} = {p}
      OBVIOUS
    <3> HIDE DEF p
    <3> QED
      BY <2>1, <3>2, <3>3
  <2>3. Moves(w)
    <3> HIDE DEF p
    <3> QED
      BY <1>1, <1>2, <2>1, <2>2 DEF Moves, Working, Fresh
  <2>4. \A h \in Handlers, b \in copy'[w].failedBlocks : b \notin copy'[w].handlersData[h]
    <3>1. e.at \notin copy[w].failedBlocks
      BY <1>1, <2>1 DEF Working, Recorded
    <3>2. /\ copy'[w].failedBlocks = copy[w].failedBlocks
          /\ \A h \in Handlers : copy'[w].handlersData[h] \subseteq copy[w].handlersData[h] \union {e.at}
      BY <2>1 DEF NoteForHandlers, JobParams
    <3> QED
      BY <3>1, <3>2 DEF Working, Fresh
  <2> QED
    BY <1>3, <1>4, <1>5, <2>3, <2>4, MovesOnce
<1> QED
  BY <1>6, <1>7

LEMMA BlockFailsOnce ==
  ASSUME IInv, ~AnswersNull, NEW w \in Workers, Working(w), NEW d \in fetching[w], BlockFails(w, d)
  PROVE  Working(w)'
<1> DEFINE P == d.for \X {d.at}
<1>1. /\ TypeOK /\ d \in Downloads /\ fetching'[w] = fetching[w] \ {d} /\ running'[w] = running[w]
      /\ done' = done /\ P \subseteq InFlight(w)
      /\ copy'[w] = IF d.src = "one" THEN NoteForHandlers(copy[w], d.for, d.at)
                                     ELSE NoteBlock(copy[w], d.at)
  BY DEF BlockFails, IInv, TypeOK, InFlight
<1>2. copy[w] \in JobParams /\ d.at \in Heights /\ d.for \in SUBSET Handlers
  BY <1>1 DEF TypeOK, Downloads
<1>3. InFlight(w)' \subseteq InFlight(w) \ P
  <2>1. ASSUME NEW e \in running'[w] PROVE <<e.handler, e.at>> \in InFlight(w) \ P
    BY <1>1 DEF InFlight, Working, Separate
  <2>2. ASSUME NEW f \in fetching'[w], NEW h \in f.for PROVE <<h, f.at>> \in InFlight(w) \ P
    BY <1>1 DEF InFlight, Working, Separate
  <2> QED
    BY <2>1, <2>2 DEF InFlight
<1>4. Separate(w)' /\ SameRange(w) /\ \A f \in fetching'[w] : f.src # "one" => f.for = Handlers
  BY <1>1, FewerSeparate, WorkKeepsRange DEF Working
<1>5. CASE d.src = "one"
  <2>1. Recorded(copy'[w]) = Recorded(copy[w]) \union P
    BY <1>1, <1>2, <1>5, NoteRecords
  <2>2. Moves(w)
    <3> HIDE DEF P
    <3> QED
      BY <1>1, <1>3, <2>1 DEF Moves, Working, Fresh
  <2>3. \A h \in Handlers, b \in copy'[w].failedBlocks : b \notin copy'[w].handlersData[h]
    <3>1. ASSUME NEW h \in d.for PROVE d.at \notin copy[w].failedBlocks
      <4>1. <<h, d.at>> \in Pairs /\ <<h, d.at>> \in P
        BY <1>2
      <4>2. <<h, d.at>> \notin Recorded(copy[w])
        BY <1>1, <4>1 DEF Working
      <4> QED
        BY <4>1, <4>2 DEF Recorded
    <3>2. /\ copy'[w].failedBlocks = copy[w].failedBlocks
          /\ \A h \in Handlers : copy'[w].handlersData[h] =
               IF h \in d.for THEN copy[w].handlersData[h] \union {d.at} ELSE copy[w].handlersData[h]
      BY <1>1, <1>2, <1>5 DEF NoteForHandlers, JobParams
    <3> QED
      BY <3>1, <3>2 DEF Working, Fresh
  <2> QED
    BY <1>4, <2>2, <2>3, MovesOnce
<1>6. CASE d.src # "one"
  <2>1. d.for = Handlers /\ copy'[w] = NoteBlock(copy[w], d.at)
    BY <1>1, <1>6 DEF Working
  <2>2. Recorded(copy'[w]) = Recorded(copy[w]) \union P
    <3>1. Recorded(NoteBlock(copy[w], d.at)) = Recorded(copy[w]) \union (Handlers \X {d.at})
      BY <1>2, NoteRecords
    <3> QED
      BY <2>1, <3>1
  <2>3. Moves(w)
    <3> HIDE DEF P
    <3> QED
      BY <1>1, <1>3, <2>2 DEF Moves, Working, Fresh
  <2>4. \A h \in Handlers, b \in copy'[w].failedBlocks : b \notin copy'[w].handlersData[h]
    <3>1. ASSUME NEW h \in Handlers PROVE d.at \notin copy[w].handlersData[h]
      <4>1. <<h, d.at>> \in Pairs /\ <<h, d.at>> \in P
        BY <1>2, <2>1
      <4>2. <<h, d.at>> \notin Recorded(copy[w])
        BY <1>1, <4>1 DEF Working
      <4> QED
        BY <4>1, <4>2 DEF Recorded
    <3>2. /\ copy'[w].failedBlocks = copy[w].failedBlocks \union {d.at}
          /\ copy'[w].handlersData = copy[w].handlersData
      BY <1>2, <2>1 DEF NoteBlock, JobParams
    <3> QED
      BY <3>1, <3>2 DEF Working, Fresh
  <2> QED
    BY <1>4, <2>3, <2>4, MovesOnce
<1> QED
  BY <1>5, <1>6

LEMMA RetriesSettleOnce ==
  ASSUME IInv, LimitInv, NEW w \in Workers, Working(w), RetriesSettle(w)
  PROVE  Working(w)'
<1> DEFINE last == copy[w].lastProcessedBlock
           fresh == {[src |-> "new", for |-> Handlers, at |-> b] : b \in NewHeights(last, top[w])}
<1>1. /\ TypeOK /\ pc[w] = "retry" /\ pc'[w] = "new" /\ ~Outstanding(w, Retries) /\ copy' = copy
      /\ top' = top /\ running' = running /\ done' = done /\ fetching'[w] = fetching[w] \union fresh
  BY DEF RetriesSettle, IInv, TypeOK, RunAccountsForBlocks, RunAccounts
<1>2. fetching[w] = {} /\ running[w] = {} /\ top[w] \in Heights /\ last \in Int /\ last <= top[w]
  BY <1>1 DEF IInv, RunAccountsForBlocks, RunAccounts, Outstanding, TypeOK, Downloads, Executions, Sources,
              Retries, LimitInv, Limited, JobParams, HeightOrNone
<1>3. /\ \A d \in fresh : d.src = "new" /\ d.for = Handlers /\ d.at \in Heights /\ last < d.at /\ d.at <= top[w]
      /\ \A c, d \in fresh : c.at = d.at => c = d
  BY <1>2 DEF NewHeights
<1> HIDE DEF fresh
<1>4. \A p \in InFlight(w)' : p[2] \in Heights /\ last < p[2] /\ p[2] <= top[w]
  BY <1>1, <1>2, <1>3 DEF InFlight
<1>5. \A p \in done \union Recorded(copy[w]) : p[2] \in Int /\ p[2] <= last
  BY <1>1 DEF Working, Within, TypeOK, Recorded
<1>6. Separate(w)'
  BY <1>1, <1>2, <1>3 DEF Separate
<1>7. Fresh(copy[w])' /\ Recorded(copy[w])' = Recorded(copy[w])
  BY <1>1 DEF Working, Fresh, Recorded
<1>8. (InFlight(w) \cap (done \union Recorded(copy[w])) = {})'
  BY <1>1, <1>2, <1>4, <1>5, <1>7
<1>9. \A p \in done' \union Recorded(copy'[w]) \union InFlight(w)' : top'[w] # NoHeight /\ p[2] <= top'[w]
  <2> SUFFICES ASSUME NEW p \in done' \union Recorded(copy'[w]) \union InFlight(w)'
               PROVE  p[2] <= top[w]
    BY <1>1, <1>2
  <2> QED
    BY <1>1, <1>2, <1>4, <1>5, <1>7
<1>10. \A d \in fetching'[w] : d.src # "one" => d.for = Handlers
  BY <1>1, <1>2, <1>3
<1> QED
  BY <1>1, <1>6, <1>7, <1>8, <1>9, <1>10 DEF Working, Within

LEMMA NewBlocksSettleOnce ==
  ASSUME IInv, NEW w \in Workers, Working(w), NewBlocksSettle(w)
  PROVE  Working(w)'
<1>1. /\ TypeOK /\ pc[w] = "new" /\ pc'[w] = "save" /\ top' = top /\ fetching' = fetching
      /\ running' = running /\ done' = done
      /\ copy'[w] = [copy[w] EXCEPT !.lastProcessedBlock = top[w]]
  BY DEF NewBlocksSettle, IInv, TypeOK
<1>2. /\ copy'[w].lastProcessedBlock = top[w] /\ copy'[w].failedBlocks = copy[w].failedBlocks
      /\ copy'[w].handlersData = copy[w].handlersData
  BY <1>1 DEF TypeOK, JobParams
<1>3. Recorded(copy'[w]) = Recorded(copy[w]) /\ InFlight(w)' = InFlight(w) /\ Separate(w)'
  BY <1>1, <1>2 DEF Recorded, InFlight, Working, Separate
<1>4. Fresh(copy[w])'
  BY <1>1, <1>2, <1>3 DEF Working, Fresh
<1>5. \A p \in done' \union Recorded(copy'[w]) \union InFlight(w)' :
        copy'[w].lastProcessedBlock # NoHeight /\ p[2] <= copy'[w].lastProcessedBlock
  BY <1>1, <1>2, <1>3 DEF Working, Within
<1>6. (InFlight(w) \cap (done \union Recorded(copy[w])) = {})'
  BY <1>1, <1>3 DEF Working
<1>7. \A d \in fetching'[w] : d.src # "one" => d.for = Handlers
  BY <1>1 DEF Working
<1> QED
  BY <1>1, <1>3, <1>4, <1>5, <1>6, <1>7 DEF Working, Within

\* Steps that change no task, copy or record.
LEMMA RestingStays ==
  ASSUME NEW w \in Workers, Resting(w), job' = job, done' = done
  PROVE  Resting(w)'
BY DEF Resting, Fresh, Within, Recorded

LEMMA StepKeepsOnce ==
  ASSUME Sole, IInv, LimitInv, OnceInv, NEW w \in Workers, Step(w)
  PROVE  OnceInv'
<1> SUFFICES ASSUME ~crashed' PROVE Once(w)'
  BY DEF Sole, OnceInv
<1>0. ~crashed /\ ~Crash(w)
  <2>1. ~Crash(w)
    BY DEF Crash
  <2>2. crashed' = crashed
    BY <2>1 DEF Step, Start, HeightFails, HeightArrives, BlockArrives, BlockFails, BlockIsNull,
                HandlerSucceeds, HandlerFails, RetriesSettle, NewBlocksSettle, Save
  <2> QED
    BY <2>1, <2>2
<1>1. Once(w) /\ TypeOK /\ pc[w] \in Phases
  BY <1>0 DEF OnceInv, IInv, TypeOK
<1>2. CASE Start(w)
  <2>1. pc[w] = "idle" /\ pc'[w] = "height" /\ job' = job /\ done' = done
    BY <1>1, <1>2 DEF Start, TypeOK
  <2> QED
    BY <1>1, <2>1, RestingStays DEF Once
<1>3. CASE HeightFails(w)
  <2>1. pc[w] = "height" /\ pc'[w] = "idle" /\ job' = job /\ done' = done
    BY <1>1, <1>3 DEF HeightFails, Forget, TypeOK
  <2> QED
    BY <1>1, <2>1, RestingStays DEF Once
<1>4. ASSUME NEW height \in ReportedHeights, HeightArrives(w, height)
      PROVE  Once(w)'
  <2>1. pc[w] = "height" /\ pc'[w] = "retry"
    BY <1>1, <1>4 DEF HeightArrives, TypeOK
  <2> QED
    BY <1>1, <1>4, <2>1, HeightArrivesOnce DEF Once
<1>5. CASE \/ \E d \in fetching[w] : BlockArrives(w, d) \/ BlockFails(w, d) \/ BlockIsNull(w, d)
           \/ \E e \in running[w] : HandlerSucceeds(w, e) \/ HandlerFails(w, e)
  <2>1. SameRange(w) /\ pc[w] \in {"retry", "new"}
    BY <1>5, WorkKeepsRange DEF Sole
  <2>2. Working(w)'
    BY <1>1, <1>5, <2>1, BlockArrivesOnce, BlockFailsOnce, HandlerEndsOnce DEF Once, Sole, BlockIsNull
  <2> QED
    BY <2>1, <2>2 DEF Once, SameRange
<1>6. CASE RetriesSettle(w)
  <2>1. pc[w] = "retry" /\ pc'[w] = "new"
    BY <1>1, <1>6 DEF RetriesSettle, TypeOK
  <2> QED
    BY <1>1, <1>6, <2>1, RetriesSettleOnce DEF Once
<1>7. CASE NewBlocksSettle(w)
  <2>1. pc[w] = "new" /\ pc'[w] = "save"
    BY <1>1, <1>7 DEF NewBlocksSettle, TypeOK
  <2> QED
    BY <1>1, <1>7, <2>1, NewBlocksSettleOnce DEF Once
<1>8. CASE Save(w)
  <2>1. pc[w] = "save" /\ pc'[w] = "idle" /\ job' = copy[w]
    BY <1>1, <1>8 DEF Save, Forget, TypeOK
  <2>2. fetching[w] = {} /\ running[w] = {}
    BY <2>1 DEF IInv, RunAccountsForBlocks, RunAccounts
  <2>3. done' = done
    BY <1>8, <2>2 DEF Save
  <2>4. Working(w)
    BY <1>1, <2>1 DEF Once
  <2>5. Recorded(job)' = Recorded(copy[w])
    BY <2>1 DEF Recorded
  <2>6. Resting(w)'
    BY <2>1, <2>3, <2>4, <2>5 DEF Working, Resting, Fresh, Within
  <2> QED
    BY <2>1, <2>6 DEF Once
<1> QED
  BY <1>0, <1>2, <1>3, <1>4, <1>5, <1>6, <1>7, <1>8 DEF Step

LEMMA NextKeepsOnce ==
  ASSUME Sole
  PROVE  IInv /\ LimitInv /\ OnceInv /\ [Next]_vars => OnceInv'
<1>1. ASSUME OnceInv, UNCHANGED <<job, runVars, done, crashed>> PROVE OnceInv'
  <2> SUFFICES ASSUME ~crashed, NEW w \in Workers PROVE Once(w)'
    BY <1>1 DEF OnceInv
  <2>1. Once(w) /\ UNCHANGED <<job, pc, copy, top, fetching, running, done>>
    BY <1>1 DEF OnceInv, runVars
  <2>2. Resting(w) => Resting(w)'
    BY <2>1, RestingStays
  <2>3. Working(w) => Working(w)'
    BY <2>1 DEF Working, Fresh, Separate, InFlight, Recorded, Within
  <2> QED
    BY <2>1, <2>2, <2>3 DEF Once
<1> QED
  BY <1>1, StepKeepsOnce DEF Next, NewBlock, vars, runVars

\* One worker, a node that never lags and no crash: no handler is given a
\* block it has already completed, and no two tasks of a run are for the same
\* pair (blockchain.listener.ts execute, processFailedBlocks).
THEOREM BlocksAreGivenOnce ==
  ASSUME Sole
  PROVE  Spec => []AtMostOnce
<1>1. IInv /\ OnceInv => AtMostOnce
  <2> SUFFICES ASSUME IInv, OnceInv, ~crashed, NEW w \in Workers
               PROVE  InFlight(w) \cap done = {} /\ Separate(w)
    BY DEF AtMostOnce, Separate
  <2>1. CASE pc[w] \in {"idle", "height"}
    <3>1. fetching[w] = {} /\ running[w] = {}
      BY <2>1 DEF IInv, RunAccountsForBlocks, RunAccounts
    <3> QED
      BY <3>1 DEF InFlight, Separate
  <2>2. CASE pc[w] \in {"retry", "new", "save"}
    BY <2>2 DEF OnceInv, Once, Working
  <2> QED
    BY <2>1, <2>2 DEF IInv, TypeOK, Phases
<1>2. Spec => []IInv
  BY RunsAccountForBlocks, TypeCorrect, BlocksAreNeverLost, PTL DEF IInv, Sole
<1>3. Spec => []LimitInv
  BY <1>2, InitLimits, NextKeepsLimits, PTL DEF Spec
<1>4. Spec => []OnceInv
  BY <1>2, <1>3, InitOnce, NextKeepsOnce, PTL DEF Spec
<1> QED
  BY <1>1, <1>2, <1>4, PTL

-----------------------------------------------------------------------------
(* A transport that answers null *)

\* A run has no download in flight before it knows the height, and a record
\* with a height of its own from then on.
Begun(w) ==
  /\ pc[w] \in {"idle", "height"} => fetching[w] = {}
  /\ pc[w] \in {"retry", "new"} => copy[w].lastProcessedBlock # NoHeight

BegunInv == TypeOK /\ \A w \in Workers : Begun(w)

LEMMA NoteKeepsRange ==
  ASSUME NEW params \in JobParams, NEW b \in Heights, NEW ids \in SUBSET Handlers
  PROVE  /\ NoteBlock(params, b).lastProcessedBlock = params.lastProcessedBlock
         /\ NoteForHandlers(params, ids, b).lastProcessedBlock = params.lastProcessedBlock
BY NoteRecords

LEMMA NextKeepsBegun == BegunInv /\ TypeOK' /\ [Next]_vars => BegunInv'
<1> SUFFICES ASSUME BegunInv, [Next]_vars, NEW v \in Workers PROVE Begun(v)'
  BY DEF BegunInv
<1>0. Begun(v) /\ TypeOK
  BY DEF BegunInv
<1>1. ASSUME UNCHANGED <<pc, copy, fetching>> PROVE Begun(v)'
  BY <1>0, <1>1 DEF Begun
<1>2. ASSUME NEW w \in Workers, v # w, Step(w) PROVE Begun(v)'
  <2>1. pc'[v] = pc[v] /\ copy'[v] = copy[v] /\ fetching'[v] = fetching[v]
    BY <1>0, <1>2 DEF TypeOK, Step, Start, HeightFails, HeightArrives, BlockArrives, BlockFails, BlockIsNull,
           HandlerSucceeds, HandlerFails, RetriesSettle, NewBlocksSettle, Save, Crash, Forget
  <2> QED
    BY <1>0, <2>1 DEF Begun
<1>3. CASE Start(v)
  BY <1>0, <1>3 DEF Start, TypeOK, Begun
<1>4. CASE HeightFails(v) \/ Save(v) \/ Crash(v)
  BY <1>0, <1>4 DEF HeightFails, Save, Crash, Forget, TypeOK, Begun
<1>5. ASSUME NEW height \in ReportedHeights, HeightArrives(v, height) PROVE Begun(v)'
  <2> DEFINE params == initJobData(copy[v], height)
  <2>1. height \in Heights \union {NoHeight} /\ copy[v] \in JobParams
    BY <1>0 DEF ReportedHeights, TypeOK
  <2>2. params \in JobParams /\ params.lastProcessedBlock # NoHeight
    BY <2>1, InitJobDataTypes
  <2>3. /\ pc'[v] = "retry"
        /\ copy'[v] = [params EXCEPT !.failedBlocks = {}, !.handlersData = [id \in HandlerIds |-> {}]]
    BY <1>0, <1>5 DEF HeightArrives, TypeOK
  <2> HIDE DEF params
  <2> QED
    BY <2>2, <2>3 DEF Begun, JobParams
<1>6. ASSUME NEW d \in fetching[v], BlockArrives(v, d) \/ BlockFails(v, d) \/ BlockIsNull(v, d)
      PROVE  Begun(v)'
  <2>1. /\ copy[v] \in JobParams /\ d.at \in Heights /\ d.for \in SUBSET Handlers /\ pc' = pc
        /\ fetching'[v] = fetching[v] \ {d}
    BY <1>0, <1>6 DEF TypeOK, Downloads, BlockArrives, BlockFails, BlockIsNull
  <2>2. copy'[v] \in {copy[v], NoteForHandlers(copy[v], d.for, d.at), NoteBlock(copy[v], d.at)}
    BY <1>0, <1>6 DEF TypeOK, BlockArrives, BlockFails, BlockIsNull
  <2>3. copy'[v].lastProcessedBlock = copy[v].lastProcessedBlock
    <3>1. /\ NoteBlock(copy[v], d.at).lastProcessedBlock = copy[v].lastProcessedBlock
          /\ NoteForHandlers(copy[v], d.for, d.at).lastProcessedBlock = copy[v].lastProcessedBlock
      BY <2>1, NoteKeepsRange
    <3> QED
      BY <2>2, <3>1
  <2> QED
    BY <1>0, <2>1, <2>3 DEF Begun
<1>7. ASSUME NEW e \in running[v], HandlerSucceeds(v, e) \/ HandlerFails(v, e)
      PROVE  Begun(v)'
  <2>1. /\ copy[v] \in JobParams /\ e.at \in Heights /\ {e.handler} \in SUBSET Handlers /\ pc' = pc
        /\ fetching' = fetching /\ copy'[v] \in {copy[v], NoteForHandlers(copy[v], {e.handler}, e.at)}
    BY <1>0, <1>7 DEF TypeOK, Executions, HandlerSucceeds, HandlerFails
  <2>2. NoteForHandlers(copy[v], {e.handler}, e.at).lastProcessedBlock = copy[v].lastProcessedBlock
    BY <2>1, NoteKeepsRange
  <2> QED
    BY <1>0, <2>1, <2>2 DEF Begun
<1>8. CASE RetriesSettle(v)
  BY <1>0, <1>8 DEF RetriesSettle, TypeOK, Begun
<1>9. CASE NewBlocksSettle(v)
  BY <1>0, <1>9 DEF NewBlocksSettle, TypeOK, Begun
<1>10. ASSUME Step(v) PROVE Begun(v)'
  BY <1>3, <1>4, <1>5, <1>6, <1>7, <1>8, <1>9, <1>10 DEF Step
<1> QED
  BY <1>1, <1>2, <1>10 DEF Next, NewBlock, runVars, vars

\* What a step may leave unaccounted for.
LosesOnlyRetries(w) == Unaccounted(w)' \subseteq Unaccounted(w) \union Retrying(w)

LEMMA MovedIsNotLost ==
  ASSUME NEW w \in Workers, done \subseteq done', MustAccountFor(w)' \subseteq MustAccountFor(w),
         Recorded(copy[w]) \subseteq done' \union Recorded(copy[w])' \union InFlight(w)',
         InFlight(w) \subseteq done' \union Recorded(copy[w])' \union InFlight(w)' \union Retrying(w)
  PROVE  LosesOnlyRetries(w)
BY DEF LosesOnlyRetries, Unaccounted

\* A step of another worker, or of the chain, only adds to done.
LEMMA OthersLoseNothing ==
  ASSUME NEW v \in Workers, done \subseteq done', pc'[v] = pc[v], copy'[v] = copy[v], top'[v] = top[v],
         fetching'[v] = fetching[v], running'[v] = running[v]
  PROVE  LosesOnlyRetries(v)
<1>1. /\ MustAccountFor(v)' = MustAccountFor(v) /\ Recorded(copy[v])' = Recorded(copy[v])
      /\ InFlight(v)' = InFlight(v)
  BY DEF MustAccountFor, Covered, Recorded, InFlight
<1> QED
  BY <1>1, MovedIsNotLost

\* What a record covers depends on its range only.
LEMMA CoveredByRange ==
  ASSUME NEW r, NEW s, r.lastProcessedBlock = s.lastProcessedBlock, r.since = s.since
  PROVE  Covered(r) = Covered(s)
BY DEF Covered

LEMMA WorkLosesOnlyRetries ==
  ASSUME TypeOK, TypeOK', NEW w \in Workers,
         \/ \E d \in fetching[w] : BlockArrives(w, d) \/ BlockFails(w, d) \/ BlockIsNull(w, d)
         \/ \E e \in running[w] : HandlerSucceeds(w, e) \/ HandlerFails(w, e)
  PROVE  LosesOnlyRetries(w)
<1>0. copy[w] \in JobParams /\ copy'[w] \in JobParams /\ fetching[w] \subseteq Downloads /\ running[w] \subseteq Executions
  BY DEF TypeOK
<1>1. ASSUME pc' = pc, top' = top,
             copy'[w].lastProcessedBlock = copy[w].lastProcessedBlock, copy'[w].since = copy[w].since
      PROVE  MustAccountFor(w)' = MustAccountFor(w)
  <2>1. Covered(copy'[w]) = Covered(copy[w])
    BY <1>1 DEF Covered
  <2>2. Covered([copy'[w] EXCEPT !.lastProcessedBlock = top[w]])
          = Covered([copy[w] EXCEPT !.lastProcessedBlock = top[w]])
    <3> DEFINE old == [copy[w] EXCEPT !.lastProcessedBlock = top[w]]
               new == [copy'[w] EXCEPT !.lastProcessedBlock = top[w]]
    <3>1. /\ old.lastProcessedBlock = top[w] /\ old.since = copy[w].since
          /\ new.lastProcessedBlock = top[w] /\ new.since = copy'[w].since
      BY <1>0 DEF JobParams
    <3> HIDE DEF old, new
    <3>2. Covered(new) = Covered(old)
      BY <1>1, <3>1, CoveredByRange
    <3> QED
      BY <3>2 DEF old, new
  <2> QED
    BY <1>1, <2>1, <2>2 DEF MustAccountFor
<1>2. ASSUME NEW d \in fetching[w], NEW p \in InFlight(w), fetching'[w] = fetching[w] \ {d},
             running[w] \subseteq running'[w]
      PROVE  p \in InFlight(w)' \union (d.for \X {d.at})
  BY <1>2 DEF InFlight
<1>3. ASSUME NEW d \in fetching[w], BlockArrives(w, d)
      PROVE  LosesOnlyRetries(w)
  <2>1. /\ UNCHANGED <<pc, top, copy, done>> /\ fetching'[w] = fetching[w] \ {d}
        /\ running'[w] = running[w] \union {[src |-> d.src, handler |-> h, at |-> d.at] : h \in d.for}
    BY <1>3 DEF BlockArrives, TypeOK
  <2>2. ASSUME NEW h \in d.for PROVE <<h, d.at>> \in InFlight(w)'
    <3> DEFINE e == [src |-> d.src, handler |-> h, at |-> d.at]
    <3>1. e \in running'[w] /\ <<e.handler, e.at>> = <<h, d.at>>
      BY <2>1
    <3> QED
      BY <3>1 DEF InFlight
  <2>3. InFlight(w) \subseteq InFlight(w)'
    BY <1>2, <2>1, <2>2
  <2>4. Recorded(copy[w])' = Recorded(copy[w])
    BY <2>1
  <2> QED
    BY <1>1, <2>1, <2>3, <2>4, MovedIsNotLost
<1>4. ASSUME NEW d \in fetching[w], BlockFails(w, d) \/ BlockIsNull(w, d)
      PROVE  LosesOnlyRetries(w)
  <2>1. /\ d.at \in Heights /\ d.for \in SUBSET Handlers
        /\ UNCHANGED <<pc, top, running, done>> /\ fetching'[w] = fetching[w] \ {d}
        /\ \/ copy'[w] = NoteForHandlers(copy[w], d.for, d.at)
           \/ copy'[w] = NoteBlock(copy[w], d.at)
           \/ copy'[w] = copy[w] /\ d.src \in Retries
    BY <1>0, <1>4 DEF BlockFails, BlockIsNull, TypeOK, Downloads
  <2>2. /\ NoteBlock(copy[w], d.at).lastProcessedBlock = copy[w].lastProcessedBlock
        /\ NoteBlock(copy[w], d.at).since = copy[w].since
        /\ Recorded(NoteBlock(copy[w], d.at)) = Recorded(copy[w]) \union (Handlers \X {d.at})
        /\ NoteForHandlers(copy[w], d.for, d.at).lastProcessedBlock = copy[w].lastProcessedBlock
        /\ NoteForHandlers(copy[w], d.for, d.at).since = copy[w].since
        /\ Recorded(NoteForHandlers(copy[w], d.for, d.at)) = Recorded(copy[w]) \union (d.for \X {d.at})
    <3>1. copy[w] \in JobParams /\ d.at \in Heights /\ d.for \in SUBSET Handlers
      BY <1>0, <2>1
    <3>2. /\ NoteBlock(copy[w], d.at).lastProcessedBlock = copy[w].lastProcessedBlock
          /\ NoteBlock(copy[w], d.at).since = copy[w].since
          /\ Recorded(NoteBlock(copy[w], d.at)) = Recorded(copy[w]) \union (Handlers \X {d.at})
      BY <3>1, NoteRecords
    <3>3. /\ NoteForHandlers(copy[w], d.for, d.at).lastProcessedBlock = copy[w].lastProcessedBlock
          /\ NoteForHandlers(copy[w], d.for, d.at).since = copy[w].since
          /\ Recorded(NoteForHandlers(copy[w], d.for, d.at)) = Recorded(copy[w]) \union (d.for \X {d.at})
      BY <3>1, NoteRecords
    <3> QED
      BY <3>2, <3>3
  <2>3. d.for \X {d.at} \subseteq Handlers \X {d.at}
    BY <2>1
  <2>4. d.src \in Retries => d.for \X {d.at} \subseteq Retrying(w)
    BY DEF Retrying
  <2>5. /\ copy'[w].lastProcessedBlock = copy[w].lastProcessedBlock
        /\ copy'[w].since = copy[w].since
        /\ Recorded(copy[w]) \subseteq Recorded(copy'[w])
        /\ d.for \X {d.at} \subseteq Recorded(copy'[w]) \union Retrying(w)
    <3> HIDE DEF Heights, Pairs, HandlerIds
    <3>1. CASE copy'[w] = NoteForHandlers(copy[w], d.for, d.at)
      BY <2>2, <3>1
    <3>2. CASE copy'[w] = NoteBlock(copy[w], d.at)
      BY <2>2, <2>3, <3>2
    <3>3. CASE copy'[w] = copy[w] /\ d.src \in Retries
      BY <2>4, <3>3
    <3> QED
      BY <2>1, <3>1, <3>2, <3>3
  <2>6. InFlight(w) \subseteq InFlight(w)' \union (d.for \X {d.at})
    BY <1>2, <2>1
  <2> QED
    BY <1>1, <2>1, <2>5, <2>6, MovedIsNotLost
<1>5. ASSUME NEW e \in running[w], HandlerSucceeds(w, e) \/ HandlerFails(w, e)
      PROVE  LosesOnlyRetries(w)
  <2>1. /\ e.at \in Heights /\ {e.handler} \in SUBSET Handlers
        /\ UNCHANGED <<pc, top, fetching>> /\ running'[w] = running[w] \ {e} /\ done \subseteq done'
        /\ \/ copy'[w] = copy[w] /\ <<e.handler, e.at>> \in done'
           \/ copy'[w] = NoteForHandlers(copy[w], {e.handler}, e.at)
    BY <1>0, <1>5 DEF HandlerSucceeds, HandlerFails, TypeOK, Executions
  <2>2. /\ NoteForHandlers(copy[w], {e.handler}, e.at).lastProcessedBlock = copy[w].lastProcessedBlock
        /\ NoteForHandlers(copy[w], {e.handler}, e.at).since = copy[w].since
        /\ Recorded(NoteForHandlers(copy[w], {e.handler}, e.at))
             = Recorded(copy[w]) \union ({e.handler} \X {e.at})
    BY <1>0, <2>1, NoteRecords
  <2>3. /\ copy'[w].lastProcessedBlock = copy[w].lastProcessedBlock
        /\ copy'[w].since = copy[w].since
        /\ Recorded(copy[w]) \subseteq Recorded(copy'[w])
        /\ <<e.handler, e.at>> \in done' \union Recorded(copy'[w])
    BY <2>1, <2>2
  <2>4. InFlight(w) \subseteq InFlight(w)' \union {<<e.handler, e.at>>}
    BY <2>1 DEF InFlight
  <2> QED
    BY <1>1, <2>1, <2>3, <2>4, MovedIsNotLost
<1> QED
  BY <1>3, <1>4, <1>5

LEMMA HeightArrivesLosesNothing ==
  ASSUME TypeOK, NEW w \in Workers, Begun(w), NEW height \in ReportedHeights, HeightArrives(w, height)
  PROVE  LosesOnlyRetries(w)
<1> DEFINE params == initJobData(copy[w], height)
<1>1. /\ height \in Heights \union {NoHeight} /\ copy[w] \in JobParams /\ fetching[w] = {}
      /\ UNCHANGED <<running, done>> /\ pc'[w] = "retry" /\ fetching'[w] = RetryDownloads(params)
      /\ copy'[w] = [params EXCEPT !.failedBlocks = {}, !.handlersData = [id \in HandlerIds |-> {}]]
  BY DEF ReportedHeights, TypeOK, Begun, HeightArrives
<1>2. /\ params \in JobParams /\ params.failedBlocks = copy[w].failedBlocks
      /\ params.handlersData = copy[w].handlersData
  BY <1>1, InitJobDataTypes
<1>3. Covered(params) \subseteq Covered(copy[w])
  <2>1. CASE copy[w].lastProcessedBlock = NoHeight
    <3> DEFINE h == IF height = NoHeight THEN 0 ELSE height
    <3>1. params = [copy[w] EXCEPT !.lastProcessedBlock = h - 1, !.since = h]
      BY <2>1 DEF initJobData
    <3>2. params.lastProcessedBlock = h - 1 /\ params.since = h /\ h \in Int
      BY <1>1, <3>1 DEF JobParams
    <3> HIDE DEF params, h
    <3>3. Covered(params) = {}
      BY <3>2 DEF Covered
    <3> QED
      BY <3>3
  <2>2. CASE copy[w].lastProcessedBlock # NoHeight
    BY <2>2 DEF initJobData
  <2> QED
    BY <2>1, <2>2
<1> HIDE DEF params
<1>4. MustAccountFor(w)' \subseteq MustAccountFor(w)
  <2>1. Covered(copy'[w]) = Covered(params)
    BY <1>1, <1>2, CoveredByRange DEF JobParams
  <2>2. MustAccountFor(w)' = Covered(copy'[w])
    BY <1>1 DEF MustAccountFor, Covered
  <2> QED
    BY <1>3, <2>1, <2>2 DEF MustAccountFor
<1>5. ASSUME NEW h \in Handlers, NEW b \in Heights, <<h, b>> \in Recorded(copy[w])
      PROVE  <<h, b>> \in InFlight(w)'
  <2>1. CASE b \in params.handlersData[h]
    <3> DEFINE q == <<h, b>>
               d == [src |-> "one", for |-> {q[1]}, at |-> q[2]]
    <3>1. q \in Pairs /\ q[2] \in params.handlersData[q[1]]
      BY <2>1
    <3>2. d \in RetryDownloads(params)
      <4> HIDE DEF q
      <4> QED
        BY <3>1 DEF RetryDownloads
    <3> QED
      BY <1>1, <3>2 DEF InFlight
  <2>2. CASE b \in params.failedBlocks
    <3> DEFINE d == [src |-> "all", for |-> Handlers, at |-> b]
    <3>1. d \in RetryDownloads(params)
      BY <2>2 DEF RetryDownloads
    <3> QED
      BY <1>1, <3>1 DEF InFlight
  <2> QED
    BY <1>2, <1>5, <2>1, <2>2 DEF Recorded
<1>6. Recorded(copy[w]) \subseteq InFlight(w)'
  <2>1. Recorded(copy[w]) \subseteq Pairs
    BY DEF Recorded
  <2> QED
    BY <1>5, <2>1
<1>7. InFlight(w) \subseteq InFlight(w)'
  BY <1>1 DEF InFlight
<1> QED
  BY <1>1, <1>4, <1>6, <1>7, MovedIsNotLost

LEMMA RetriesSettleLosesNothing ==
  ASSUME TypeOK, NEW w \in Workers, Begun(w), RetriesSettle(w)
  PROVE  LosesOnlyRetries(w)
<1> DEFINE fresh == {[src |-> "new", for |-> Handlers, at |-> b] :
                       b \in NewHeights(copy[w].lastProcessedBlock, top[w])}
<1>1. /\ pc[w] = "retry" /\ pc'[w] = "new" /\ UNCHANGED <<copy, top, running, done>>
      /\ fetching'[w] = fetching[w] \union fresh /\ copy[w] \in JobParams
      /\ top[w] \in Heights \union {NoHeight} /\ copy[w].lastProcessedBlock \in Int
  BY DEF RetriesSettle, TypeOK, Begun, JobParams, HeightOrNone
<1>2. InFlight(w) \subseteq InFlight(w)'
  BY <1>1 DEF InFlight
<1>3. ASSUME NEW h \in Handlers, NEW b \in Heights, top[w] # NoHeight,
             copy[w].lastProcessedBlock < b, b <= top[w]
      PROVE  <<h, b>> \in InFlight(w)'
  <2> DEFINE d == [src |-> "new", for |-> Handlers, at |-> b]
  <2>1. d \in fetching'[w]
    BY <1>1, <1>3 DEF NewHeights
  <2> QED
    BY <2>1 DEF InFlight
<1>4. Covered([copy[w] EXCEPT !.lastProcessedBlock = top[w]]) \subseteq Covered(copy[w]) \union InFlight(w)'
  <2> DEFINE new == [copy[w] EXCEPT !.lastProcessedBlock = top[w]]
  <2>1. /\ new.lastProcessedBlock = top[w] /\ new.since = copy[w].since
        /\ copy[w].lastProcessedBlock # NoHeight /\ copy[w].since \in Heights \union {MaxHeight + 1, NoHeight}
    BY <1>1 DEF JobParams
  <2> HIDE DEF new
  <2>2. ASSUME NEW h \in Handlers, NEW b \in Heights, <<h, b>> \in Covered(new)
        PROVE  <<h, b>> \in Covered(copy[w]) \union InFlight(w)'
    <3>1. top[w] # NoHeight /\ copy[w].since <= b /\ b <= top[w]
      BY <2>1, <2>2 DEF Covered
    <3>2. CASE copy[w].lastProcessedBlock < b
      BY <1>3, <3>1, <3>2
    <3>3. CASE ~(copy[w].lastProcessedBlock < b)
      BY <1>1, <2>1, <3>1, <3>3 DEF Covered
    <3> QED
      BY <3>2, <3>3
  <2>3. Covered(new) \subseteq Pairs
    BY DEF Covered
  <2>4. Covered(new) \subseteq Covered(copy[w]) \union InFlight(w)'
    BY <2>2, <2>3
  <2> QED
    BY <2>4 DEF new
<1>5. MustAccountFor(w)' = Covered(copy[w]) \union Covered([copy[w] EXCEPT !.lastProcessedBlock = top[w]])
  BY <1>1 DEF MustAccountFor, Covered
<1>6. Covered(copy[w]) \subseteq MustAccountFor(w) /\ Recorded(copy[w])' = Recorded(copy[w])
  BY <1>1 DEF MustAccountFor
<1> QED
  BY <1>1, <1>2, <1>4, <1>5, <1>6 DEF LosesOnlyRetries, Unaccounted

LEMMA StepLosesOnlyRetries ==
  ASSUME TypeOK, TypeOK', NEW w \in Workers, Begun(w), Step(w), pc[w] # "idle"
  PROVE  LosesOnlyRetries(w)
<1>1. CASE HeightFails(w) \/ Save(w) \/ Crash(w)
  <2>1. pc'[w] = "idle" /\ copy'[w] = EmptyJob
    BY <1>1 DEF HeightFails, Save, Crash, Forget, TypeOK
  <2>2. MustAccountFor(w)' = {}
    BY <2>1 DEF MustAccountFor, Covered, EmptyJob
  <2> QED
    BY <2>2 DEF LosesOnlyRetries, Unaccounted
<1>2. CASE NewBlocksSettle(w)
  <2>1. /\ pc[w] = "new" /\ pc'[w] = "save" /\ UNCHANGED <<fetching, running, done>>
        /\ copy[w] \in JobParams /\ copy'[w] = [copy[w] EXCEPT !.lastProcessedBlock = top[w]]
    BY <1>2 DEF NewBlocksSettle, TypeOK
  <2>2. MustAccountFor(w)' \subseteq MustAccountFor(w)
    BY <2>1 DEF MustAccountFor, Covered
  <2>3. Recorded(copy[w])' = Recorded(copy[w]) /\ InFlight(w)' = InFlight(w)
    BY <2>1 DEF Recorded, InFlight, JobParams
  <2> QED
    BY <2>1, <2>2, <2>3, MovedIsNotLost
<1> QED
  BY <1>1, <1>2, HeightArrivesLosesNothing, WorkLosesOnlyRetries, RetriesSettleLosesNothing DEF Step, Start

\* Whatever the transport, the node, the handlers and the other workers do,
\* a block that a run must account for is only lost while the run retries it
\* (blockchain.listener.ts processFailedBlocks).
THEOREM LossesAreRetries == Spec => OnlyRetriesAreLost
<1> DEFINE Losses == \A w \in Workers :
             pc[w] # "idle" => Unaccounted(w)' \subseteq Unaccounted(w) \union Retrying(w)
<1>1. BegunInv /\ TypeOK' /\ [Next]_vars => [Losses]_vars
  <2> SUFFICES ASSUME BegunInv, TypeOK', Next, NEW v \in Workers, pc[v] # "idle"
               PROVE  LosesOnlyRetries(v)
    BY DEF LosesOnlyRetries
  <2>1. TypeOK /\ Begun(v)
    BY DEF BegunInv
  <2>2. CASE NewBlock
    BY <2>2, OthersLoseNothing DEF NewBlock, runVars
  <2>3. CASE Step(v)
    BY <2>1, <2>3, StepLosesOnlyRetries
  <2>4. ASSUME NEW w \in Workers, w # v, Step(w) PROVE LosesOnlyRetries(v)
    <3>1. /\ pc'[v] = pc[v] /\ copy'[v] = copy[v] /\ top'[v] = top[v]
          /\ fetching'[v] = fetching[v] /\ running'[v] = running[v]
      BY <2>1, <2>4 DEF TypeOK, Step, Start, HeightFails, HeightArrives, BlockArrives, BlockFails, BlockIsNull,
             HandlerSucceeds, HandlerFails, RetriesSettle, NewBlocksSettle, Save, Crash, Forget
    <3>2. done \subseteq done'
      BY <2>4 DEF Step, Start, HeightFails, HeightArrives, BlockArrives, BlockFails, BlockIsNull,
             HandlerSucceeds, HandlerFails, RetriesSettle, NewBlocksSettle, Save, Crash
    <3> QED
      BY <3>1, <3>2, OthersLoseNothing
  <2> QED
    BY <2>2, <2>3, <2>4 DEF Next
<1>2. Init => BegunInv
  BY InitTypes DEF Init, BegunInv, Begun
<1>3. Spec => []BegunInv
  BY <1>2, NextKeepsBegun, TypeCorrect, PTL DEF Spec
<1> QED
  BY <1>1, <1>3, TypeCorrect, PTL DEF Spec, OnlyRetriesAreLost
=============================================================================
