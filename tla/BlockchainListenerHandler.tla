--------------------- MODULE BlockchainListenerHandler ---------------------
(***************************************************************************)
(* What one kind of subscription handler does with the blocks it is given  *)
(* (fluence.ms.abstract.blockchain/src/blockchain/                         *)
(* blockchain.listener.handler.ts and its five subclasses).                *)
(*                                                                         *)
(* A match is an output or a log of a block that a subscription asks for.  *)
(* A match with enough confirmations becomes a webhook at once; for any    *)
(* other a block recheck is stored, and every later execution, whatever    *)
(* block it is for, first processes its own block and then every recheck   *)
(* that is due: it loads the block again, compares hashes, creates the     *)
(* webhook and removes the recheck.  Executions run concurrently, calls to *)
(* the database can fail between any two steps, and the node may meanwhile *)
(* have replaced the block.                                                *)
(*                                                                         *)
(* The last height stands for all later blocks; they contain no match.     *)
(***************************************************************************)
EXTENDS Integers, FiniteSets

CONSTANTS
  Execs,        \* executions of the handler that can be in progress at once
  Kinds,        \* the kinds of handlers to look at
  Subs,         \* active subscriptions of that kind on this connection
  MinConfirmations,   \* what each subscription asks for
  MaxHeight,    \* bound: the last height
  Branches,     \* hashes a block can have at one height
  Matches,      \* [sub, out, at, hash]: match number out of sub in a block
  MaxCopies,    \* bound: copies of a webhook that are counted
  Fails,        \* what can fail: {}, {"task"} (rechecks), {"task", "exec"}
  Redelivers    \* may a block be given again after it was completed

Heights == 0 .. MaxHeight
Blocks == [at : Heights, hash : Branches]

\* Blocks that contain no match differ only in what is due when they come.
MatchHeights == {m.at : m \in Matches}

ASSUME KindsAssumption == Kinds \subseteq {"address", "contract", "oraclize", "fabric"}
ASSUME SubsAssumption == MinConfirmations \in [Subs -> Nat]
ASSUME BoundsAssumption == MaxHeight \in Nat /\ MaxCopies \in Nat \ {0}
ASSUME BranchesAssumption == Branches # {}
ASSUME MatchesAssumption ==
  Matches \subseteq [sub : Subs, out : 1 .. 2, at : 0 .. MaxHeight - 1, hash : Branches]
ASSUME SwitchesAssumption == Fails \subseteq {"task", "exec"} /\ Redelivers \in BOOLEAN

VARIABLES
  kind,         \* the handler's kind; never changes ("address" is also
                \* the transaction hash handler)
  tip,          \* height of the chain
  chain,        \* hash of the block at each height that can hold a match
  rechecks,     \* the stored block rechecks
  webhooks,     \* how many webhooks were stored for each match
  exec,         \* the executions in progress
  passed,       \* the heights that can hold a match and were completed
  answered,     \* history: [match, confirmed] an execution considered before
                \* it returned
  orphaned,     \* history: blocks a recheck found replaced
  threw         \* history: has an execution thrown

vars == <<kind, tip, chain, rechecks, webhooks, exec, passed, answered, orphaned, threw>>
nodeVars == <<tip, chain>>
histories == <<passed, answered, orphaned, threw>>

Min(m) == MinConfirmations[m.sub]
BlockOf(m) == [at |-> m.at, hash |-> m.hash]

\* Rechecks and webhooks are looked up by subscription and block only.
SameKey(m, n) == m.sub = n.sub /\ BlockOf(m) = BlockOf(n)

Rechecks == [match : Matches, invokeOn : Nat, conf : Heights, by : Execs]
Stages == {"load", "check", "create", "remove", "drop"}
Tasks == [recheck : Rechecks, stage : Stages]

Idle ==
  [phase |-> "idle", at |-> 0, hash |-> CHOOSE b \in Branches : TRUE, last |-> 0,
   todo |-> {}, next |-> {}, tasks |-> {}]

ExecRecords ==
  [phase : {"idle", "match", "insert", "list", "recheck"}, at : Heights, hash : Branches,
   last : Heights, todo : SUBSET Matches, next : SUBSET Matches,
   tasks : SUBSET Tasks]

\* A recheck is due after its block and no later than the confirmations
\* asked for require.
TypeOK ==
  /\ kind \in Kinds
  /\ tip \in Heights
  /\ chain \in [MatchHeights -> Branches]
  /\ rechecks \subseteq Rechecks
  /\ \A r \in rechecks : r.invokeOn \in r.match.at + 1 .. r.match.at + Min(r.match)
  /\ webhooks \in [Matches -> 0 .. MaxCopies]
  /\ exec \in [Execs -> ExecRecords]
  /\ passed \subseteq MatchHeights
  /\ answered \subseteq [match : Matches, confirmed : BOOLEAN]
  /\ orphaned \subseteq Blocks
  /\ threw \in BOOLEAN

Init ==
  /\ kind \in Kinds
  /\ tip = 0
  /\ chain \in [MatchHeights -> Branches]
  /\ rechecks = {}
  /\ webhooks = [m \in Matches |-> 0]
  /\ exec = [e \in Execs |-> Idle]
  /\ passed = {}
  /\ answered = {}
  /\ orphaned = {}
  /\ threw = FALSE

-----------------------------------------------------------------------------
\* The chain grows, or all its blocks from some height on are replaced
\* (outside the program).
Grow ==
  /\ tip < MaxHeight
  /\ tip' = tip + 1
  /\ UNCHANGED <<kind, chain, rechecks, webhooks, exec, histories>>

Reorganise ==
  /\ \E h \in 0 .. tip, b \in Branches :
       chain' = [i \in MatchHeights |-> IF i >= h THEN b ELSE chain[i]]
  /\ chain' # chain
  /\ UNCHANGED <<kind, tip, rechecks, webhooks, exec, histories>>

-----------------------------------------------------------------------------
\* The matches of a block the handler looks at, with the filters on
\* confirmations that two of the subclasses have.
Considered(at, hash, last) ==
  {m \in Matches :
     /\ BlockOf(m) = [at |-> at, hash |-> hash]
     /\ kind = "contract" => Min(m) <= last - at
     /\ kind = "oraclize" => Min(m) >= last - at}

Unconfirmed(at, hash, last) == {m \in Considered(at, hash, last) : Min(m) > last - at}

Confirmed(at, hash, last) == Considered(at, hash, last) \ Unconfirmed(at, hash, last)

\* blockchain.listener.ts: the listener gives a block to the handler once, again after a failure,
\* and, after a crash or with two workers, even again after it was completed.
Given(h) ==
  \/ h \notin MatchHeights
  \/ Redelivers
  \/ /\ h \notin passed
     /\ \A e \in Execs : exec[e].phase # "idle" => exec[e].at # h

Hash(h) == IF h \in MatchHeights THEN chain[h] ELSE Idle.hash

Begin(e, h, last) ==
  /\ exec[e].phase = "idle"
  /\ h <= last /\ last <= tip
  /\ Given(h)
  /\ exec' = [exec EXCEPT ![e] =
       [Idle EXCEPT !.phase = "match", !.at = h, !.hash = Hash(h), !.last = last,
                    !.todo = Unconfirmed(h, Hash(h), last)]]
  /\ UNCHANGED <<kind, nodeVars, rechecks, webhooks, histories>>

\* The execution ends; a throw leaves no trace but what is in the database.
Throw(e) == exec' = [exec EXCEPT ![e] = Idle] /\ threw' = TRUE

RecheckExists(m) == \E r \in rechecks : SameKey(r.match, m)

\* createBlockRecheck, first half: a recheck of the same subscription and
\* block makes the whole execution throw.
LookForRecheck(e, m) ==
  /\ exec[e].phase = "match"
  /\ m \in exec[e].todo
  /\ \A n \in exec[e].todo : SameKey(m, n) => m.out <= n.out
  /\ IF RecheckExists(m) THEN Throw(e)
     ELSE exec' = [exec EXCEPT ![e].phase = "insert", ![e].next = {m}] /\ UNCHANGED threw
  /\ UNCHANGED <<kind, nodeVars, rechecks, webhooks, passed, answered, orphaned>>

\* Faulty variant: the confirmations are added instead of subtracted.
InsertRecheckWrongly(e) ==
  LET conf == exec[e].last - exec[e].at IN
  /\ exec[e].phase = "insert"
  /\ rechecks' = rechecks \union
       {[match |-> m, invokeOn |-> m.at + Min(m) + conf, conf |-> conf, by |-> e] : m \in exec[e].next}
  /\ exec' = [exec EXCEPT ![e].phase = "match", ![e].next = {}, ![e].todo = @ \ exec[e].next]
  /\ UNCHANGED <<kind, nodeVars, webhooks, histories>>

\* createBlockRecheck, second half.
InsertRecheck(e) ==
  LET conf == exec[e].last - exec[e].at IN
  /\ exec[e].phase = "insert"
  /\ rechecks' = rechecks \union
       {[match |-> m, invokeOn |-> m.at + Min(m) - conf, conf |-> conf, by |-> e] : m \in exec[e].next}
  /\ exec' = [exec EXCEPT ![e].phase = "match", ![e].next = {}, ![e].todo = @ \ exec[e].next]
  /\ UNCHANGED <<kind, nodeVars, webhooks, histories>>

\* One more webhook for each of the matches.
Stored(ms) ==
  [m \in Matches |-> IF m \in ms /\ webhooks[m] < MaxCopies THEN webhooks[m] + 1 ELSE webhooks[m]]

\* The fabric handler collects its confirmed webhooks and never stores them.
Filled(e) ==
  IF kind = "fabric" THEN {} ELSE Confirmed(exec[e].at, exec[e].hash, exec[e].last)

\* All confirmed matches are stored with one insertion.
Fill(e) ==
  /\ exec[e].phase = "match" /\ exec[e].todo = {}
  /\ webhooks' = Stored(Filled(e))
  /\ exec' = [exec EXCEPT ![e].phase = "list"]
  /\ UNCHANGED <<kind, nodeVars, rechecks, histories>>

\* Faulty variant: the failure is caught and the execution goes on.
FillFailsQuietly(e) ==
  /\ "exec" \in Fails
  /\ exec[e].phase = "match" /\ exec[e].todo = {} /\ Filled(e) # {}
  /\ exec' = [exec EXCEPT ![e].phase = "list"]
  /\ UNCHANGED <<kind, nodeVars, rechecks, webhooks, histories>>

\* The insertion is refused, or the metric that is awaited with it.
FillFails(e) ==
  /\ "exec" \in Fails
  /\ exec[e].phase = "match" /\ exec[e].todo = {} /\ Filled(e) # {}
  /\ webhooks' \in {webhooks, Stored(Filled(e))}
  /\ Throw(e)
  /\ UNCHANGED <<kind, nodeVars, rechecks, passed, answered, orphaned>>

\* Any other call of the execution fails, or the process dies in it.
ExecFails(e) ==
  /\ "exec" \in Fails
  /\ exec[e].phase # "idle"
  /\ Throw(e)
  /\ UNCHANGED <<kind, nodeVars, rechecks, webhooks, passed, answered, orphaned>>

-----------------------------------------------------------------------------
\* Faulty variants: off by one; equality instead of $lte.
DueEarly(height) == {r \in rechecks : r.invokeOn <= height + 1}
DueExactly(height) == {r \in rechecks : r.invokeOn = height}

\* listOnBlockByTransportAndType
Due(height) == {r \in rechecks : r.invokeOn <= height}

ListRechecks(e) ==
  /\ exec[e].phase = "list"
  /\ exec' = [exec EXCEPT ![e].phase = "recheck",
                          ![e].tasks = {[recheck |-> r, stage |-> "load"] : r \in Due(exec[e].at)}]
  /\ UNCHANGED <<kind, nodeVars, rechecks, webhooks, histories>>

Advance(e, t, stage) ==
  exec' = [exec EXCEPT ![e].tasks = (@ \ {t}) \union {[t EXCEPT !.stage = stage]}]
End(e, t) == exec' = [exec EXCEPT ![e].tasks = @ \ {t}]

\* The block is loaded again; one with another hash takes its place.
LoadBlock(e, t) ==
  /\ t.stage = "load"
  /\ IF chain[t.recheck.match.at] = t.recheck.match.hash
     THEN Advance(e, t, "check")
     ELSE Advance(e, t, "drop")
  /\ UNCHANGED <<kind, nodeVars, rechecks, webhooks, histories>>

WebhookExists(m) == \E n \in Matches : SameKey(n, m) /\ webhooks[n] > 0

\* Faulty variant: createAction inserts without looking.
CheckWebhookNever(e, t) ==
  /\ t.stage = "check"
  /\ Advance(e, t, "create")
  /\ UNCHANGED <<kind, nodeVars, rechecks, webhooks, histories>>

\* The hook, then createAction, first half: a webhook of the same
\* subscription and block makes the task throw, and the recheck stays.
CheckWebhook(e, t) ==
  /\ t.stage = "check"
  /\ IF WebhookExists(t.recheck.match) THEN End(e, t) ELSE Advance(e, t, "create")
  /\ UNCHANGED <<kind, nodeVars, rechecks, webhooks, histories>>

\* createAction, second half.
CreateWebhook(e, t) ==
  /\ t.stage = "create"
  /\ webhooks' = Stored({t.recheck.match})
  /\ Advance(e, t, "remove")
  /\ UNCHANGED <<kind, nodeVars, rechecks, histories>>

\* removeById
RemoveRecheck(e, t) ==
  /\ t.stage \in {"remove", "drop"}
  /\ rechecks' = rechecks \ {t.recheck}
  /\ orphaned' = IF t.stage = "drop" THEN orphaned \union {BlockOf(t.recheck.match)} ELSE orphaned
  /\ End(e, t)
  /\ UNCHANGED <<kind, nodeVars, webhooks, passed, answered, threw>>

\* Faulty variant: the recheck is removed although its webhook was not stored.
TaskFailsForGood(e, t) ==
  /\ "task" \in Fails
  /\ rechecks' = rechecks \ {t.recheck}
  /\ End(e, t)
  /\ UNCHANGED <<kind, nodeVars, webhooks, histories>>

\* Any call for one recheck fails: the error is logged, the recheck stays.
TaskFails(e, t) ==
  /\ "task" \in Fails
  /\ End(e, t)
  /\ UNCHANGED <<kind, nodeVars, rechecks, webhooks, histories>>

\* All rechecks are settled and execute returns.
Finish(e) ==
  /\ exec[e].phase = "recheck" /\ exec[e].tasks = {}
  /\ passed' = passed \union ({exec[e].at} \cap MatchHeights)
  /\ answered' = answered \union
       {[match |-> m, confirmed |-> Min(m) <= exec[e].last - exec[e].at] :
          m \in Considered(exec[e].at, exec[e].hash, exec[e].last)}
  /\ exec' = [exec EXCEPT ![e] = Idle]
  /\ UNCHANGED <<kind, nodeVars, rechecks, webhooks, orphaned, threw>>

Task(e, t) ==
  \/ LoadBlock(e, t)
  \/ CheckWebhook(e, t)
  \/ CreateWebhook(e, t)
  \/ RemoveRecheck(e, t)

Next ==
  \/ Grow
  \/ Reorganise
  \/ \E e \in Execs :
       \/ \E h, last \in Heights : Begin(e, h, last)
       \/ \E m \in exec[e].todo : LookForRecheck(e, m)
       \/ InsertRecheck(e)
       \/ Fill(e)
       \/ FillFails(e)
       \/ ExecFails(e)
       \/ ListRechecks(e)
       \/ \E t \in exec[e].tasks : Task(e, t) \/ TaskFails(e, t)
       \/ Finish(e)

Spec == Init /\ [][Next]_vars

(***************************************************************************)
(* Fairness.  New blocks keep coming and each is given to the handler, an  *)
(* execution goes on when it can, and from some time on nothing fails and  *)
(* no block is replaced: what still looks like a failure is what happens   *)
(* when a row with the same key exists already, or a plain return.         *)
(***************************************************************************)
Fairness ==
  /\ WF_vars(Grow)
  /\ \A e \in Execs :
       /\ SF_vars(Begin(e, MaxHeight, MaxHeight))
       /\ WF_vars(\E m \in exec[e].todo : LookForRecheck(e, m))
       /\ WF_vars(InsertRecheck(e) \/ Fill(e) \/ ListRechecks(e) \/ Finish(e))
       /\ WF_vars(\E t \in exec[e].tasks : Task(e, t))
  /\ <>[][/\ ~Reorganise
           /\ \A e \in Execs :
                /\ FillFails(e) \/ ExecFails(e) =>
                     Finish(e) \/ \E m \in exec[e].todo : LookForRecheck(e, m)
                /\ \A t \in exec[e].tasks : TaskFails(e, t) => Task(e, t)]_vars

FairSpec == Spec /\ Fairness

-----------------------------------------------------------------------------
\* After execute returned for a block, each match it considered is a stored
\* webhook, a stored recheck, or in a block found replaced -- whatever failed
\* and was repeated, and whoever processed the recheck meanwhile.  What the
\* filters of the contract and oraclize handlers drop is not considered, and
\* the confirmed matches of the fabric handler are known to be lost.
MatchNotForgotten ==
  \A a \in answered :
    \/ webhooks[a.match] > 0
    \/ \E r \in rechecks : r.match = a.match
    \/ BlockOf(a.match) \in orphaned
    \/ kind = "fabric" /\ a.confirmed

Depth(m) == tip - m.at

\* A recheck of the match is in progress that waited for what was missing.
DueByRecheck(m) ==
  \E e \in Execs : \E t \in exec[e].tasks :
    /\ t.recheck.match = m
    /\ t.recheck.conf <= Depth(m)
    /\ Depth(m) + t.recheck.conf >= Min(m)

\* How early a webhook may come.  The block is as deep as the subscription
\* asks for, except by the confirmations (conf) that the webhook's recheck was
\* created with: createBlockRecheck subtracts them, although the height it waits
\* for is that of a block given to the handler, not of the chain.  The block
\* had them by then, so that it is never less than half as deep as asked, and
\* where the listener kept up with the chain (conf = 0) it is as deep.
AnnouncedWhenDue ==
  [][\A m \in Matches : webhooks'[m] > webhooks[m] => Depth(m) >= Min(m) \/ DueByRecheck(m)]_vars

\* One execution at a time, no block given twice and no execution that threw:
\* no match is stored twice, although a recheck whose removal failed is
\* processed again.
StoredAtMostOnce == ~threw => \A m \in Matches : webhooks[m] <= 1

\* Every recheck that can become due leads to a webhook for its subscription
\* and block, or the block is found replaced; the failed ones are "reloaded
\* in next iteration" (blockchain.listener.handler.ts:130).
RecheckSettles ==
  \A m \in Matches :
    (\E r \in rechecks : r.match = m /\ r.invokeOn <= MaxHeight)
      ~> (WebhookExists(m) \/ BlockOf(m) \in orphaned)

\* blockchain.listener.handler.ts:198 says of processWebhookBeforeSave "Hook
\* which executes before save webhook in DB. Webhook may be modified here".
HookedBeforeStored ==
  [][\A m \in Matches : webhooks'[m] > webhooks[m] =>
       \E e \in Execs : \E t \in exec[e].tasks : t.recheck.match = m /\ t.stage = "create"]_vars
=============================================================================
