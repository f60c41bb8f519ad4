------------------- MODULE BlockchainListenerHandlerProofs -------------------
(***************************************************************************)
(* Proofs about BlockchainListenerHandler for any subscriptions, matches,  *)
(* confirmations and executions, and for everything that can fail.         *)
(***************************************************************************)
EXTENDS BlockchainListenerHandler, TLAPS

-----------------------------------------------------------------------------
(* The invariant *)

UnconfirmedBy(e) == Unconfirmed(exec[e].at, exec[e].hash, exec[e].last)
ConfirmedBy(e) == Confirmed(exec[e].at, exec[e].hash, exec[e].last)

\* What MatchNotForgotten promises of a match.
Kept(m) ==
  \/ webhooks[m] > 0
  \/ \E r \in rechecks : r.match = m
  \/ BlockOf(m) \in orphaned

\* A recheck waits for exactly the confirmations that were missing.
Exact(r) ==
  /\ r.invokeOn = r.match.at + Min(r.match) - r.conf
  /\ r.conf < Min(r.match)

\* A task is for a recheck that is due, and removes it as done only after
\* its webhook was stored.
TaskOK(e, t) ==
  /\ Exact(t.recheck)
  /\ t.recheck.invokeOn <= exec[e].at
  /\ t.stage = "remove" => webhooks[t.recheck.match] > 0

\* An execution knows a height its chain has reached, and what it no longer
\* has to store is kept.
ExecOK(e) ==
  /\ exec[e].at <= exec[e].last
  /\ exec[e].last <= tip
  /\ exec[e].todo \subseteq UnconfirmedBy(e)
  /\ exec[e].next \subseteq exec[e].todo
  /\ \A t \in exec[e].tasks : exec[e].phase = "recheck" /\ TaskOK(e, t)
  /\ exec[e].phase # "idle" => \A m \in UnconfirmedBy(e) \ exec[e].todo : Kept(m)
  /\ exec[e].phase \in {"list", "recheck"} =>
       /\ exec[e].todo = {}
       /\ kind # "fabric" => \A m \in ConfirmedBy(e) : Kept(m)

RechecksOK == \A r \in rechecks : Exact(r)

IInv ==
  /\ TypeOK
  /\ RechecksOK
  /\ \A e \in Execs : ExecOK(e)
  /\ MatchNotForgotten

-----------------------------------------------------------------------------
(* The operators *)

\* The filters only take matches away; confirmed and unconfirmed ones share
\* out the others.
LEMMA ConsideredParts ==
  ASSUME NEW at, NEW hash, NEW last
  PROVE  /\ Considered(at, hash, last) \subseteq Matches
         /\ \A m \in Considered(at, hash, last) : m.at = at /\ m.hash = hash
         /\ Unconfirmed(at, hash, last) \subseteq Considered(at, hash, last)
         /\ \A m \in Unconfirmed(at, hash, last) : Min(m) > last - at
         /\ Considered(at, hash, last) =
              Unconfirmed(at, hash, last) \union Confirmed(at, hash, last)
<1>1. \A m \in Considered(at, hash, last) : m.at = at /\ m.hash = hash
  BY DEF Considered, BlockOf
<1> QED
  BY <1>1 DEF Considered, Unconfirmed, Confirmed

LEMMA MatchTypes ==
  ASSUME NEW m \in Matches
  PROVE  /\ m.at \in Heights /\ m.at \in MatchHeights /\ m.at + 1 \in Heights
         /\ Min(m) \in Nat
         /\ BlockOf(m) \in Blocks
<1>1. m \in [sub : Subs, out : 1 .. 2, at : 0 .. MaxHeight - 1, hash : Branches]
  BY MatchesAssumption
<1>2. m.sub \in Subs /\ m.at \in 0 .. MaxHeight - 1 /\ m.hash \in Branches
  BY <1>1
<1>3. m.at \in Heights /\ m.at + 1 \in Heights
  BY <1>2, BoundsAssumption DEF Heights
<1> QED
  BY <1>2, <1>3, SubsAssumption DEF MatchHeights, Min, BlockOf, Blocks

\* The matches of a block that are not confirmed ask for more than its depth;
\* the others for no more.
LEMMA ConfirmedIsDeep ==
  ASSUME NEW at \in Heights, NEW hash, NEW last \in Heights,
         NEW m \in Considered(at, hash, last)
  PROVE  m \in Confirmed(at, hash, last) <=> Min(m) <= last - at
<1>1. Min(m) \in Nat /\ last - at \in Int
  BY ConsideredParts, MatchTypes, BoundsAssumption DEF Heights
<1> QED
  BY <1>1 DEF Unconfirmed, Confirmed

\* A webhook is never taken back.
LEMMA StoredTypes ==
  ASSUME webhooks \in [Matches -> 0 .. MaxCopies], NEW ms
  PROVE  /\ Stored(ms) \in [Matches -> 0 .. MaxCopies]
         /\ \A m \in Matches : Stored(ms)[m] >= webhooks[m]
         /\ \A m \in Matches \cap ms : Stored(ms)[m] > 0
         /\ \A m \in Matches \ ms : Stored(ms)[m] = webhooks[m]
         /\ \A m \in Matches : Stored(ms)[m] <= webhooks[m] + 1
BY BoundsAssumption DEF Stored

\* Every block has a hash, the one an idle execution remembers too.
LEMMA IdleIsTyped == Idle \in ExecRecords
<1>1. (CHOOSE b \in Branches : TRUE) \in Branches
  BY BranchesAssumption
<1>2. 0 \in Heights
  BY BoundsAssumption DEF Heights
<1> QED
  BY <1>1, <1>2 DEF Idle, ExecRecords

\* One execution takes a step.
LEMMA ExecChanges ==
  ASSUME exec \in [Execs -> ExecRecords], NEW e \in Execs, NEW x \in ExecRecords,
         exec' = [exec EXCEPT ![e] = x]
  PROVE  /\ exec' \in [Execs -> ExecRecords]
         /\ exec'[e] = x
         /\ \A f \in Execs \ {e} : exec'[f] = exec[f]
OBVIOUS

-----------------------------------------------------------------------------
(* What a step of one execution leaves to the others *)

\* Only the removal of a recheck can take away what a match is kept by.
LEMMA KeptStays ==
  ASSUME TypeOK, TypeOK',
         \A m \in Matches : webhooks'[m] >= webhooks[m],
         rechecks \subseteq rechecks', orphaned \subseteq orphaned',
         NEW m \in Matches, Kept(m)
  PROVE  Kept(m)'
<1>1. CASE webhooks[m] > 0
  <2>1. webhooks[m] \in 0 .. MaxCopies /\ webhooks'[m] \in 0 .. MaxCopies
    BY DEF TypeOK
  <2> QED
    BY <1>1, <2>1, BoundsAssumption DEF Kept
<1> QED
  BY <1>1 DEF Kept, BlockOf

LEMMA OthersKeepExecOK ==
  ASSUME TypeOK, TypeOK', kind' = kind, tip' >= tip,
         \A m \in Matches : webhooks'[m] >= webhooks[m],
         \A m \in Matches : Kept(m) => Kept(m)',
         NEW f \in Execs, ExecOK(f), exec'[f] = exec[f]
  PROVE  ExecOK(f)'
<1>1. /\ UnconfirmedBy(f)' = UnconfirmedBy(f) /\ ConfirmedBy(f)' = ConfirmedBy(f)
      /\ UnconfirmedBy(f) \subseteq Matches /\ ConfirmedBy(f) \subseteq Matches
  BY DEF UnconfirmedBy, ConfirmedBy, Unconfirmed, Confirmed, Considered, BlockOf, Min
<1>2. exec'[f].at <= exec'[f].last /\ exec'[f].last <= tip'
  <2>1. exec[f].last \in Heights /\ tip \in Heights /\ tip' \in Heights
    BY DEF TypeOK, ExecRecords
  <2> QED
    BY <2>1, BoundsAssumption DEF ExecOK, Heights
<1>3. ASSUME NEW t \in exec'[f].tasks
      PROVE  TaskOK(f, t)'
  <2>1. t \in Tasks /\ TaskOK(f, t)
    BY <1>3 DEF ExecOK, TypeOK, ExecRecords
  <2>2. t.recheck.match \in Matches
    BY <2>1 DEF Tasks, Rechecks
  <2>3. webhooks[t.recheck.match] > 0 => webhooks'[t.recheck.match] > 0
    <3>1. webhooks[t.recheck.match] \in 0 .. MaxCopies /\ webhooks'[t.recheck.match] \in 0 .. MaxCopies
      BY <2>2 DEF TypeOK
    <3> QED
      BY <2>2, <3>1, BoundsAssumption
  <2> QED
    BY <2>1, <2>3 DEF TaskOK, Exact, Min
<1> QED
  BY <1>1, <1>2, <1>3 DEF ExecOK

LEMMA AnsweredStays ==
  ASSUME TypeOK, kind' = kind, answered' = answered, MatchNotForgotten,
         \A m \in Matches : Kept(m) => Kept(m)'
  PROVE  MatchNotForgotten'
<1> SUFFICES ASSUME NEW a \in answered
             PROVE  Kept(a.match)' \/ (kind' = "fabric" /\ a.confirmed)
  BY DEF MatchNotForgotten, Kept
<1>1. a.match \in Matches
  BY DEF TypeOK
<1>2. Kept(a.match) \/ (kind = "fabric" /\ a.confirmed)
  BY DEF MatchNotForgotten, Kept
<1> QED
  BY <1>1, <1>2

LEMMA StepKeepsIInv ==
  ASSUME IInv, TypeOK', RechecksOK', kind' = kind, tip' = tip, answered' = answered,
         \A m \in Matches : webhooks'[m] >= webhooks[m],
         \A m \in Matches : Kept(m) => Kept(m)',
         NEW e \in Execs, \A f \in Execs \ {e} : exec'[f] = exec[f],
         ExecOK(e)'
  PROVE  IInv'
<1>1. tip' >= tip
  BY BoundsAssumption DEF IInv, TypeOK, Heights
<1>2. \A f \in Execs : ExecOK(f)'
  BY <1>1, OthersKeepExecOK DEF IInv
<1> QED
  BY <1>2, AnsweredStays DEF IInv

-----------------------------------------------------------------------------
(* The steps *)

LEMMA InitIsIInv == Init => IInv
<1> SUFFICES ASSUME Init PROVE IInv
  OBVIOUS
<1>1. TypeOK
  <2>1. 0 \in Heights /\ 0 \in 0 .. MaxCopies
    BY BoundsAssumption DEF Heights
  <2>2. exec \in [Execs -> ExecRecords]
    BY IdleIsTyped DEF Init
  <2>3. webhooks \in [Matches -> 0 .. MaxCopies]
    BY <2>1 DEF Init
  <2> QED
    BY <2>1, <2>2, <2>3 DEF Init, TypeOK
<1>2. ASSUME NEW e \in Execs
      PROVE  ExecOK(e)
  BY BoundsAssumption DEF Init, ExecOK, Idle
<1> QED
  BY <1>1, <1>2 DEF Init, IInv, RechecksOK, MatchNotForgotten

LEMMA ChainKeepsIInv ==
  ASSUME IInv, Grow \/ Reorganise
  PROVE  IInv'
<1>1. /\ UNCHANGED <<kind, rechecks, webhooks, exec, histories>>
      /\ tip' \in Heights /\ tip' >= tip
      /\ chain' \in [MatchHeights -> Branches]
  BY BoundsAssumption DEF IInv, TypeOK, Grow, Reorganise, Heights
<1>2. TypeOK'
  BY <1>1 DEF IInv, TypeOK, histories
<1>3. \A m \in Matches : webhooks'[m] >= webhooks[m]
  BY <1>1, BoundsAssumption DEF IInv, TypeOK
<1>4. \A m \in Matches : Kept(m) => Kept(m)'
  BY <1>1 DEF Kept, histories
<1>5. \A e \in Execs : ExecOK(e)'
  BY <1>1, <1>2, <1>3, <1>4, OthersKeepExecOK DEF IInv
<1>6. RechecksOK'
  BY <1>1 DEF IInv, RechecksOK, Exact, Min
<1> QED
  BY <1>1, <1>2, <1>4, <1>5, <1>6, AnsweredStays DEF IInv, histories

LEMMA BeginKeepsIInv ==
  ASSUME IInv, NEW e \in Execs, NEW h \in Heights, NEW last \in Heights, Begin(e, h, last)
  PROVE  IInv'
<1> DEFINE x == [Idle EXCEPT !.phase = "match", !.at = h, !.hash = Hash(h), !.last = last,
                             !.todo = Unconfirmed(h, Hash(h), last)]
<1>1. /\ exec' = [exec EXCEPT ![e] = x] /\ h <= last /\ last <= tip
      /\ UNCHANGED <<kind, nodeVars, rechecks, webhooks, histories>>
  BY DEF Begin
<1>2. Hash(h) \in Branches
  BY BranchesAssumption DEF IInv, TypeOK, Hash, Idle
<1>3. Unconfirmed(h, Hash(h), last) \subseteq Matches
  BY ConsideredParts
<1>4. /\ x \in ExecRecords
      /\ x.phase = "match" /\ x.at = h /\ x.last = last /\ x.hash = Hash(h)
      /\ x.todo = Unconfirmed(h, Hash(h), last) /\ x.next = {} /\ x.tasks = {}
  BY <1>2, <1>3, IdleIsTyped DEF ExecRecords, Idle
<1> HIDE DEF x
<1>5. /\ exec' \in [Execs -> ExecRecords] /\ exec'[e] = x
      /\ \A f \in Execs \ {e} : exec'[f] = exec[f]
  BY <1>1, <1>4, ExecChanges DEF IInv, TypeOK
<1>6. TypeOK'
  BY <1>1, <1>5 DEF IInv, TypeOK, nodeVars, histories
<1>7. UnconfirmedBy(e)' = Unconfirmed(h, Hash(h), last)
  BY <1>1, <1>4, <1>5 DEF UnconfirmedBy, Unconfirmed, Considered
<1>8. ExecOK(e)'
  BY <1>1, <1>4, <1>5, <1>7 DEF ExecOK, nodeVars
<1>9. /\ \A m \in Matches : webhooks'[m] >= webhooks[m]
      /\ \A m \in Matches : Kept(m) => Kept(m)'
      /\ RechecksOK'
  BY <1>1, BoundsAssumption DEF IInv, TypeOK, Kept, RechecksOK, Exact, Min, histories
<1> QED
  BY <1>1, <1>5, <1>6, <1>8, <1>9, StepKeepsIInv DEF nodeVars, histories

\* Whatever fails, the execution leaves only what it has stored.
LEMMA ThrowKeepsIInv ==
  ASSUME IInv, NEW e \in Execs, Throw(e),
         webhooks' \in [Matches -> 0 .. MaxCopies],
         \A m \in Matches : webhooks'[m] >= webhooks[m],
         UNCHANGED <<kind, nodeVars, rechecks, passed, answered, orphaned>>
  PROVE  IInv'
<1>1. /\ exec' \in [Execs -> ExecRecords] /\ exec'[e] = Idle
      /\ \A f \in Execs \ {e} : exec'[f] = exec[f]
  BY IdleIsTyped, ExecChanges DEF Throw, IInv, TypeOK
<1>2. TypeOK'
  BY <1>1 DEF IInv, TypeOK, nodeVars, Throw
<1>3. ExecOK(e)'
  BY <1>1, <1>2, BoundsAssumption DEF ExecOK, Idle, TypeOK, Heights
<1>4. \A m \in Matches : Kept(m) => Kept(m)'
  BY <1>2, KeptStays DEF IInv
<1>5. RechecksOK'
  BY DEF IInv, RechecksOK, Exact, Min
<1> QED
  BY <1>1, <1>2, <1>3, <1>4, <1>5, StepKeepsIInv DEF nodeVars

LEMMA LookForRecheckKeepsIInv ==
  ASSUME IInv, NEW e \in Execs, NEW m \in exec[e].todo, LookForRecheck(e, m)
  PROVE  IInv'
<1>1. CASE RecheckExists(m)
  <2>1. Throw(e) /\ UNCHANGED <<kind, nodeVars, rechecks, webhooks, passed, answered, orphaned>>
    BY <1>1 DEF LookForRecheck
  <2>2. webhooks' \in [Matches -> 0 .. MaxCopies] /\ \A n \in Matches : webhooks'[n] >= webhooks[n]
    BY <2>1, BoundsAssumption DEF IInv, TypeOK
  <2> QED
    BY <2>1, <2>2, ThrowKeepsIInv
<1>2. CASE ~RecheckExists(m)
  <2> DEFINE x == [exec[e] EXCEPT !.phase = "insert", !.next = {m}]
  <2>1. /\ exec' = [exec EXCEPT ![e] = x]
        /\ exec[e].phase = "match"
        /\ UNCHANGED <<kind, nodeVars, rechecks, webhooks, histories>>
    BY <1>2 DEF LookForRecheck, histories
  <2>2. exec[e] \in ExecRecords
    BY DEF IInv, TypeOK
  <2>3. /\ x \in ExecRecords
        /\ x.phase = "insert" /\ x.next = {m} /\ x.at = exec[e].at /\ x.hash = exec[e].hash
        /\ x.last = exec[e].last /\ x.todo = exec[e].todo /\ x.tasks = exec[e].tasks
    BY <2>2 DEF ExecRecords
  <2> HIDE DEF x
  <2>4. /\ exec' \in [Execs -> ExecRecords] /\ exec'[e] = x
        /\ \A f \in Execs \ {e} : exec'[f] = exec[f]
    BY <2>1, <2>3, ExecChanges DEF IInv, TypeOK
  <2>5. TypeOK'
    BY <2>1, <2>4 DEF IInv, TypeOK, nodeVars, histories
  <2>6. UnconfirmedBy(e)' = UnconfirmedBy(e)
    BY <2>1, <2>3, <2>4 DEF UnconfirmedBy, Unconfirmed, Considered
  <2>7. \A t \in exec[e].tasks : TaskOK(e, t)'
    BY <2>1, <2>3, <2>4 DEF IInv, ExecOK, TaskOK, Exact, Min
  <2>8. /\ \A n \in Matches : webhooks'[n] >= webhooks[n]
        /\ \A n \in Matches : Kept(n) => Kept(n)'
        /\ \A n \in UnconfirmedBy(e) \ exec[e].todo : Kept(n)'
        /\ RechecksOK'
    BY <2>1, BoundsAssumption DEF IInv, ExecOK, TypeOK, Kept, RechecksOK, Exact, Min, histories
  <2>9. ExecOK(e)'
    BY <2>1, <2>3, <2>4, <2>6, <2>7, <2>8 DEF IInv, ExecOK, nodeVars
  <2> QED
    BY <2>1, <2>4, <2>5, <2>8, <2>9, StepKeepsIInv DEF nodeVars, histories
<1> QED
  BY <1>1, <1>2

\* The recheck waits for the confirmations that are missing, at least one.
LEMMA NewRecheck ==
  ASSUME IInv, NEW e \in Execs, NEW m \in exec[e].next
  PROVE  LET conf == exec[e].last - exec[e].at
             r == [match |-> m, invokeOn |-> m.at + Min(m) - conf, conf |-> conf, by |-> e]
         IN  r \in Rechecks /\ Exact(r) /\ r.invokeOn \in m.at + 1 .. m.at + Min(m)
<1> DEFINE conf == exec[e].last - exec[e].at
           invokeOn == m.at + Min(m) - conf
<1>1. exec[e].at \in Heights /\ exec[e].last \in Heights /\ exec[e].at <= exec[e].last
  BY DEF IInv, TypeOK, ExecOK, ExecRecords
<1>2. m \in UnconfirmedBy(e)
  BY DEF IInv, ExecOK
<1>3. m \in Matches /\ Min(m) > conf
  BY <1>2, ConsideredParts DEF UnconfirmedBy
<1>4. conf \in Heights
  BY <1>1, BoundsAssumption DEF Heights
<1>5. invokeOn \in m.at + 1 .. m.at + Min(m) /\ invokeOn \in Nat
  BY <1>3, <1>4, MatchTypes, BoundsAssumption DEF Heights
<1> HIDE DEF invokeOn
<1>6. [match |-> m, invokeOn |-> invokeOn, conf |-> conf, by |-> e] \in Rechecks
  BY <1>3, <1>4, <1>5 DEF Rechecks
<1> QED
  BY <1>3, <1>5, <1>6 DEF Exact, invokeOn

LEMMA InsertRecheckKeepsIInv ==
  ASSUME IInv, NEW e \in Execs, InsertRecheck(e)
  PROVE  IInv'
<1> DEFINE conf == exec[e].last - exec[e].at
           New == {[match |-> m, invokeOn |-> m.at + Min(m) - conf, conf |-> conf, by |-> e] :
                     m \in exec[e].next}
           x == [exec[e] EXCEPT !.phase = "match", !.next = {}, !.todo = @ \ exec[e].next]
<1>1. /\ exec[e].phase = "insert"
      /\ rechecks' = rechecks \union New
      /\ exec' = [exec EXCEPT ![e] = x]
      /\ UNCHANGED <<kind, nodeVars, webhooks, histories>>
  BY DEF InsertRecheck
<1>2. \A r \in New : r \in Rechecks /\ Exact(r) /\ r.invokeOn \in r.match.at + 1 .. r.match.at + Min(r.match)
  BY NewRecheck
<1>3. ASSUME NEW m \in exec[e].next
      PROVE  \E r \in New : r.match = m
  <2> DEFINE r == [match |-> m, invokeOn |-> m.at + Min(m) - conf, conf |-> conf, by |-> e]
  <2>1. r \in New /\ r.match = m
    OBVIOUS
  <2> QED
    BY <2>1
<1> HIDE DEF New
<1>4. exec[e] \in ExecRecords
  BY DEF IInv, TypeOK
<1>5. /\ x \in ExecRecords
      /\ x.phase = "match" /\ x.next = {} /\ x.at = exec[e].at /\ x.hash = exec[e].hash
      /\ x.last = exec[e].last /\ x.todo = exec[e].todo \ exec[e].next /\ x.tasks = exec[e].tasks
  BY <1>4 DEF ExecRecords
<1> HIDE DEF x
<1>6. /\ exec' \in [Execs -> ExecRecords] /\ exec'[e] = x
      /\ \A f \in Execs \ {e} : exec'[f] = exec[f]
  BY <1>1, <1>5, ExecChanges DEF IInv, TypeOK
<1>7. TypeOK'
  BY <1>1, <1>2, <1>6 DEF IInv, TypeOK, nodeVars, histories, Min
<1>8. RechecksOK'
  BY <1>1, <1>2 DEF IInv, RechecksOK, Exact, Min
<1>9. /\ \A m \in Matches : webhooks'[m] >= webhooks[m]
      /\ \A m \in Matches : Kept(m) => Kept(m)'
      /\ \A m \in exec[e].next : Kept(m)'
  BY <1>1, <1>3, BoundsAssumption DEF IInv, TypeOK, Kept, histories
<1>10. UnconfirmedBy(e)' = UnconfirmedBy(e) /\ UnconfirmedBy(e) \subseteq Matches
  BY <1>1, <1>5, <1>6 DEF UnconfirmedBy, Unconfirmed, Considered
<1>11. \A t \in exec[e].tasks : TaskOK(e, t)'
  BY <1>1, <1>5, <1>6 DEF IInv, ExecOK, TaskOK, Exact, Min
<1>12. \A m \in UnconfirmedBy(e) \ (exec[e].todo \ exec[e].next) : Kept(m)'
  BY <1>1, <1>9, <1>10 DEF IInv, ExecOK
<1>13. ExecOK(e)'
  BY <1>1, <1>5, <1>6, <1>10, <1>11, <1>12 DEF IInv, ExecOK, nodeVars
<1> QED
  BY <1>1, <1>6, <1>7, <1>8, <1>9, <1>13, StepKeepsIInv DEF nodeVars, histories

LEMMA FillKeepsIInv ==
  ASSUME IInv, NEW e \in Execs, Fill(e)
  PROVE  IInv'
<1> DEFINE x == [exec[e] EXCEPT !.phase = "list"]
<1>1. /\ exec[e].phase = "match" /\ exec[e].todo = {}
      /\ webhooks' = Stored(Filled(e))
      /\ exec' = [exec EXCEPT ![e] = x]
      /\ UNCHANGED <<kind, nodeVars, rechecks, histories>>
  BY DEF Fill
<1>2. /\ webhooks' \in [Matches -> 0 .. MaxCopies]
      /\ \A m \in Matches : webhooks'[m] >= webhooks[m]
      /\ \A m \in Matches \cap Filled(e) : webhooks'[m] > 0
  BY <1>1, StoredTypes DEF IInv, TypeOK
<1>3. exec[e] \in ExecRecords
  BY DEF IInv, TypeOK
<1>4. /\ x \in ExecRecords
      /\ x.phase = "list" /\ x.next = exec[e].next /\ x.at = exec[e].at /\ x.hash = exec[e].hash
      /\ x.last = exec[e].last /\ x.todo = exec[e].todo /\ x.tasks = exec[e].tasks
  BY <1>3 DEF ExecRecords
<1> HIDE DEF x
<1>5. /\ exec' \in [Execs -> ExecRecords] /\ exec'[e] = x
      /\ \A f \in Execs \ {e} : exec'[f] = exec[f]
  BY <1>1, <1>4, ExecChanges DEF IInv, TypeOK
<1>6. TypeOK'
  BY <1>1, <1>2, <1>5 DEF IInv, TypeOK, nodeVars, histories
<1>7. \A m \in Matches : Kept(m) => Kept(m)'
  BY <1>1, <1>2, <1>6, KeptStays DEF IInv, histories
<1>8. RechecksOK'
  BY <1>1 DEF IInv, RechecksOK, Exact, Min
<1>9. /\ UnconfirmedBy(e)' = UnconfirmedBy(e) /\ ConfirmedBy(e)' = ConfirmedBy(e)
      /\ UnconfirmedBy(e) \subseteq Matches /\ ConfirmedBy(e) \subseteq Matches
  BY <1>1, <1>4, <1>5 DEF UnconfirmedBy, ConfirmedBy, Unconfirmed, Confirmed, Considered
<1>10. \A m \in UnconfirmedBy(e) : Kept(m)'
  BY <1>1, <1>7, <1>9 DEF IInv, ExecOK
<1>11. kind # "fabric" => \A m \in ConfirmedBy(e) : Kept(m)'
  BY <1>2, <1>9 DEF Filled, ConfirmedBy, Kept
<1>12. \A t \in exec[e].tasks : TaskOK(e, t)'
  <2> SUFFICES ASSUME NEW t \in exec[e].tasks PROVE TaskOK(e, t)'
    OBVIOUS
  <2>1. TaskOK(e, t) /\ t.recheck.match \in Matches
    BY <1>3 DEF IInv, ExecOK, ExecRecords, Tasks, Rechecks
  <2>2. /\ webhooks[t.recheck.match] \in 0 .. MaxCopies /\ webhooks'[t.recheck.match] \in 0 .. MaxCopies
        /\ webhooks'[t.recheck.match] >= webhooks[t.recheck.match]
    BY <1>2, <2>1 DEF IInv, TypeOK
  <2>3. webhooks[t.recheck.match] > 0 => webhooks'[t.recheck.match] > 0
    BY <2>2, BoundsAssumption
  <2> QED
    BY <1>4, <1>5, <2>1, <2>3 DEF TaskOK, Exact, Min
<1>13. ExecOK(e)'
  BY <1>1, <1>4, <1>5, <1>9, <1>10, <1>11, <1>12 DEF IInv, ExecOK, nodeVars
<1> QED
  BY <1>1, <1>2, <1>5, <1>6, <1>7, <1>8, <1>13, StepKeepsIInv DEF nodeVars, histories

LEMMA FailuresKeepIInv ==
  ASSUME IInv, NEW e \in Execs, FillFails(e) \/ ExecFails(e)
  PROVE  IInv'
<1>1. Throw(e) /\ UNCHANGED <<kind, nodeVars, rechecks, passed, answered, orphaned>>
  BY DEF FillFails, ExecFails
<1>2. webhooks' \in [Matches -> 0 .. MaxCopies] /\ \A m \in Matches : webhooks'[m] >= webhooks[m]
  <2>1. webhooks' = webhooks \/ webhooks' = Stored(Filled(e))
    BY DEF FillFails, ExecFails
  <2> QED
    BY <2>1, StoredTypes, BoundsAssumption DEF IInv, TypeOK
<1> QED
  BY <1>1, <1>2, ThrowKeepsIInv

\* Once the execution has listed the rechecks its own block is done, and
\* only its tasks go on.
LEMMA TasksKeepIInv ==
  ASSUME IInv, NEW e \in Execs, exec[e].phase \in {"list", "recheck"},
         NEW T \in SUBSET Tasks,
         exec' = [exec EXCEPT ![e] = [exec[e] EXCEPT !.phase = "recheck", !.tasks = T]],
         \A t \in T : TaskOK(e, t)',
         UNCHANGED <<kind, nodeVars, passed, answered, threw>>,
         webhooks' \in [Matches -> 0 .. MaxCopies],
         \A m \in Matches : webhooks'[m] >= webhooks[m],
         rechecks' \subseteq rechecks, orphaned' \subseteq Blocks,
         \A m \in Matches : Kept(m) => Kept(m)'
  PROVE  IInv'
<1> DEFINE x == [exec[e] EXCEPT !.phase = "recheck", !.tasks = T]
<1>1. exec[e] \in ExecRecords
  BY DEF IInv, TypeOK
<1>2. /\ x \in ExecRecords
      /\ x.phase = "recheck" /\ x.next = exec[e].next /\ x.at = exec[e].at
      /\ x.hash = exec[e].hash /\ x.last = exec[e].last /\ x.todo = exec[e].todo /\ x.tasks = T
  BY <1>1 DEF ExecRecords
<1>3. exec' = [exec EXCEPT ![e] = x]
  OBVIOUS
<1> HIDE DEF x
<1>4. /\ exec' \in [Execs -> ExecRecords] /\ exec'[e] = x
      /\ \A f \in Execs \ {e} : exec'[f] = exec[f]
  BY <1>2, <1>3, ExecChanges DEF IInv, TypeOK
<1>5. TypeOK'
  BY <1>4 DEF IInv, TypeOK, nodeVars, Min
<1>6. RechecksOK'
  BY DEF IInv, RechecksOK, Exact, Min
<1>7. /\ UnconfirmedBy(e)' = UnconfirmedBy(e) /\ ConfirmedBy(e)' = ConfirmedBy(e)
      /\ UnconfirmedBy(e) \subseteq Matches /\ ConfirmedBy(e) \subseteq Matches
  BY <1>2, <1>4 DEF UnconfirmedBy, ConfirmedBy, Unconfirmed, Confirmed, Considered
<1>8. /\ exec[e].todo = {}
      /\ \A m \in UnconfirmedBy(e) : Kept(m)'
      /\ kind # "fabric" => \A m \in ConfirmedBy(e) : Kept(m)'
  BY <1>7 DEF IInv, ExecOK
<1>9. ExecOK(e)'
  BY <1>2, <1>4, <1>7, <1>8 DEF IInv, ExecOK, nodeVars
<1> QED
  BY <1>4, <1>5, <1>6, <1>9, StepKeepsIInv DEF nodeVars

LEMMA ListRechecksKeepsIInv ==
  ASSUME IInv, NEW e \in Execs, ListRechecks(e)
  PROVE  IInv'
<1> DEFINE T == {[recheck |-> r, stage |-> "load"] : r \in Due(exec[e].at)}
<1>1. /\ exec[e].phase = "list"
      /\ exec' = [exec EXCEPT ![e] = [exec[e] EXCEPT !.phase = "recheck", !.tasks = T]]
      /\ UNCHANGED <<kind, nodeVars, rechecks, webhooks, histories>>
  BY DEF ListRechecks
<1>2. T \in SUBSET Tasks
  BY DEF Due, IInv, TypeOK, Tasks, Stages
<1>3. exec'[e].at = exec[e].at
  BY <1>1 DEF IInv, TypeOK, ExecRecords
<1>4. ASSUME NEW t \in T
      PROVE  TaskOK(e, t)'
  <2>1. PICK r \in rechecks : r.invokeOn <= exec[e].at /\ t = [recheck |-> r, stage |-> "load"]
    BY DEF Due
  <2>2. t.recheck = r /\ t.stage = "load" /\ Exact(r)
    BY <2>1 DEF IInv, RechecksOK
  <2> QED
    BY <1>3, <2>1, <2>2 DEF TaskOK, Exact, Min
<1> HIDE DEF T
<1>5. /\ webhooks' \in [Matches -> 0 .. MaxCopies]
      /\ \A m \in Matches : webhooks'[m] >= webhooks[m]
      /\ orphaned' \subseteq Blocks
      /\ \A m \in Matches : Kept(m) => Kept(m)'
  BY <1>1, BoundsAssumption DEF IInv, TypeOK, Kept, histories
<1> QED
  BY <1>1, <1>2, <1>4, <1>5, TasksKeepIInv DEF histories

LEMMA TaskFacts ==
  ASSUME IInv, NEW e \in Execs, NEW t \in exec[e].tasks
  PROVE  /\ exec[e].phase = "recheck" /\ exec[e].tasks \subseteq Tasks
         /\ TaskOK(e, t) /\ t.stage \in Stages
         /\ t.recheck \in Rechecks /\ t.recheck.match \in Matches
         /\ \A stage \in Stages :
              /\ [t EXCEPT !.stage = stage] \in Tasks
              /\ [t EXCEPT !.stage = stage].recheck = t.recheck
              /\ [t EXCEPT !.stage = stage].stage = stage
<1>1. exec[e] \in ExecRecords
  BY DEF IInv, TypeOK
<1>2. exec[e].tasks \subseteq Tasks
  BY <1>1 DEF ExecRecords
<1>3. t \in [recheck : Rechecks, stage : Stages]
  BY <1>2 DEF Tasks
<1> QED
  BY <1>2, <1>3 DEF IInv, ExecOK, Tasks, Rechecks

LEMMA AdvanceKeepsIInv ==
  ASSUME IInv, NEW e \in Execs, NEW t \in exec[e].tasks, NEW stage \in Stages,
         Advance(e, t, stage),
         UNCHANGED <<kind, nodeVars, rechecks, histories>>,
         webhooks' \in [Matches -> 0 .. MaxCopies],
         \A m \in Matches : webhooks'[m] >= webhooks[m],
         stage = "remove" => webhooks'[t.recheck.match] > 0
  PROVE  IInv'
<1> DEFINE u == [t EXCEPT !.stage = stage]
           T == (exec[e].tasks \ {t}) \union {u}
<1>1. /\ exec[e].phase = "recheck" /\ T \in SUBSET Tasks
      /\ u.recheck = t.recheck /\ u.stage = stage
  BY TaskFacts
<1>2. exec' = [exec EXCEPT ![e] = [exec[e] EXCEPT !.phase = "recheck", !.tasks = T]]
  BY <1>1 DEF Advance, IInv, TypeOK, ExecRecords
<1>3. exec'[e].at = exec[e].at
  BY <1>2 DEF IInv, TypeOK, ExecRecords
<1>4. ASSUME NEW v \in exec[e].tasks \ {t}
      PROVE  TaskOK(e, v)'
  <2>1. TaskOK(e, v) /\ v.recheck.match \in Matches
    BY TaskFacts
  <2>2. /\ webhooks[v.recheck.match] \in 0 .. MaxCopies /\ webhooks'[v.recheck.match] \in 0 .. MaxCopies
        /\ webhooks'[v.recheck.match] >= webhooks[v.recheck.match]
    BY <2>1 DEF IInv, TypeOK
  <2>3. webhooks[v.recheck.match] > 0 => webhooks'[v.recheck.match] > 0
    BY <2>2, BoundsAssumption
  <2> QED
    BY <1>3, <2>1, <2>3 DEF TaskOK, Exact, Min
<1>5. TaskOK(e, u)'
  <2>1. TaskOK(e, t)
    BY TaskFacts
  <2> QED
    BY <1>1, <1>3, <2>1 DEF TaskOK, Exact, Min
<1>6. \A v \in T : TaskOK(e, v)'
  BY <1>4, <1>5
<1>7. /\ orphaned' \subseteq Blocks
      /\ \A m \in Matches : Kept(m) => Kept(m)'
  <2>1. ASSUME NEW m \in Matches
        PROVE  webhooks[m] > 0 => webhooks'[m] > 0
    <3>1. webhooks[m] \in 0 .. MaxCopies /\ webhooks'[m] \in 0 .. MaxCopies /\ webhooks'[m] >= webhooks[m]
      BY DEF IInv, TypeOK
    <3> QED
      BY <3>1, BoundsAssumption
  <2> QED
    BY <2>1 DEF Kept, IInv, TypeOK, histories
<1> HIDE DEF T
<1> QED
  BY <1>1, <1>2, <1>6, <1>7, TasksKeepIInv DEF histories

LEMMA EndKeepsIInv ==
  ASSUME IInv, NEW e \in Execs, NEW t \in exec[e].tasks, End(e, t),
         UNCHANGED <<kind, nodeVars, webhooks, passed, answered, threw>>,
         rechecks' \subseteq rechecks, orphaned' \subseteq Blocks,
         \A m \in Matches : Kept(m) => Kept(m)'
  PROVE  IInv'
<1> DEFINE T == exec[e].tasks \ {t}
<1>1. exec[e].phase = "recheck" /\ T \in SUBSET Tasks
  BY TaskFacts
<1>2. exec' = [exec EXCEPT ![e] = [exec[e] EXCEPT !.phase = "recheck", !.tasks = T]]
  BY <1>1 DEF End, IInv, TypeOK, ExecRecords
<1>3. exec'[e].at = exec[e].at
  BY <1>2 DEF IInv, TypeOK, ExecRecords
<1>4. \A v \in T : TaskOK(e, v)'
  <2>1. \A v \in T : TaskOK(e, v)
    BY TaskFacts
  <2> QED
    BY <1>3, <2>1 DEF TaskOK, Exact, Min
<1>5. webhooks' \in [Matches -> 0 .. MaxCopies] /\ \A m \in Matches : webhooks'[m] >= webhooks[m]
  BY BoundsAssumption DEF IInv, TypeOK
<1> HIDE DEF T
<1> QED
  BY <1>1, <1>2, <1>4, <1>5, TasksKeepIInv

\* A recheck that is removed leaves a webhook, or a block found replaced.
LEMMA RemoveRecheckKeepsIInv ==
  ASSUME IInv, NEW e \in Execs, NEW t \in exec[e].tasks, RemoveRecheck(e, t)
  PROVE  IInv'
<1>1. TaskOK(e, t) /\ t.recheck.match \in Matches
  BY TaskFacts
<1>2. /\ rechecks' = rechecks \ {t.recheck} /\ webhooks' = webhooks
      /\ \/ t.stage = "remove" /\ orphaned' = orphaned
         \/ t.stage = "drop" /\ orphaned' = orphaned \union {BlockOf(t.recheck.match)}
  BY DEF RemoveRecheck
<1>3. orphaned' \subseteq Blocks
  BY <1>1, <1>2, MatchTypes DEF IInv, TypeOK
<1>4. ASSUME NEW m \in Matches, Kept(m)
      PROVE  Kept(m)'
  <2>1. CASE m = t.recheck.match
    BY <1>1, <1>2, <2>1 DEF TaskOK, Kept
  <2>2. CASE m # t.recheck.match
    BY <1>2, <1>4, <2>2 DEF Kept
  <2> QED
    BY <2>1, <2>2
<1> QED
  BY <1>2, <1>3, <1>4, EndKeepsIInv DEF RemoveRecheck

LEMMA TaskKeepsIInv ==
  ASSUME IInv, NEW e \in Execs, NEW t \in exec[e].tasks, Task(e, t) \/ TaskFails(e, t)
  PROVE  IInv'
<1>1. /\ webhooks \in [Matches -> 0 .. MaxCopies]
      /\ \A m \in Matches : webhooks[m] >= webhooks[m]
      /\ orphaned \subseteq Blocks
  BY BoundsAssumption DEF IInv, TypeOK
<1>2. CASE LoadBlock(e, t)
  <2>1. PICK stage \in {"check", "drop"} : Advance(e, t, stage)
    BY <1>2 DEF LoadBlock
  <2> QED
    BY <1>1, <1>2, <2>1, AdvanceKeepsIInv DEF LoadBlock, Stages
<1>3. CASE CheckWebhook(e, t)
  <2>1. \A m \in Matches : Kept(m) => Kept(m)'
    BY <1>3 DEF CheckWebhook, Kept, histories
  <2>2. CASE End(e, t)
    BY <1>1, <1>3, <2>1, <2>2, EndKeepsIInv DEF CheckWebhook, histories
  <2>3. CASE Advance(e, t, "create")
    BY <1>1, <1>3, <2>3, AdvanceKeepsIInv DEF CheckWebhook, Stages
  <2> QED
    BY <1>3, <2>2, <2>3 DEF CheckWebhook
<1>4. CASE CreateWebhook(e, t)
  <2>1. t.recheck.match \in Matches /\ "remove" \in Stages
    BY TaskFacts DEF Stages
  <2>2. /\ webhooks' \in [Matches -> 0 .. MaxCopies]
        /\ \A m \in Matches : webhooks'[m] >= webhooks[m]
        /\ webhooks'[t.recheck.match] > 0
    BY <1>1, <1>4, <2>1, StoredTypes DEF CreateWebhook
  <2> QED
    BY <1>4, <2>1, <2>2, AdvanceKeepsIInv DEF CreateWebhook
<1>5. CASE RemoveRecheck(e, t)
  BY <1>5, RemoveRecheckKeepsIInv
<1>6. CASE TaskFails(e, t)
  <2>1. \A m \in Matches : Kept(m) => Kept(m)'
    BY <1>6 DEF TaskFails, Kept, histories
  <2> QED
    BY <1>1, <1>6, <2>1, EndKeepsIInv DEF TaskFails, histories
<1> QED
  BY <1>2, <1>3, <1>4, <1>5, <1>6 DEF Task

\* An execution returns when everything it considered is kept.
LEMMA FinishKeepsIInv ==
  ASSUME IInv, NEW e \in Execs, Finish(e)
  PROVE  IInv'
<1> DEFINE All == Considered(exec[e].at, exec[e].hash, exec[e].last)
           New == {[match |-> m, confirmed |-> Min(m) <= exec[e].last - exec[e].at] : m \in All}
<1>1. /\ exec[e].phase = "recheck"
      /\ passed' = passed \union ({exec[e].at} \cap MatchHeights)
      /\ answered' = answered \union New
      /\ exec' = [exec EXCEPT ![e] = Idle]
      /\ UNCHANGED <<kind, nodeVars, rechecks, webhooks, orphaned, threw>>
  BY DEF Finish
<1>2. /\ exec' \in [Execs -> ExecRecords] /\ exec'[e] = Idle
      /\ \A f \in Execs \ {e} : exec'[f] = exec[f]
  BY <1>1, IdleIsTyped, ExecChanges DEF IInv, TypeOK
<1>3. All \subseteq Matches
  BY ConsideredParts
<1>4. New \subseteq [match : Matches, confirmed : BOOLEAN]
  <2>1. ASSUME NEW m \in All
        PROVE  [match |-> m, confirmed |-> Min(m) <= exec[e].last - exec[e].at]
                 \in [match : Matches, confirmed : BOOLEAN]
    BY <1>3
  <2> QED
    BY <2>1
<1>5. TypeOK'
  BY <1>1, <1>2, <1>4 DEF IInv, TypeOK, nodeVars, Min
<1>6. RechecksOK'
  BY <1>1 DEF IInv, RechecksOK, Exact, Min
<1>7. /\ \A m \in Matches : webhooks'[m] >= webhooks[m]
      /\ \A m \in Matches : Kept(m) => Kept(m)'
  BY <1>1, BoundsAssumption DEF IInv, TypeOK, Kept
<1>8. ExecOK(e)'
  BY <1>2, <1>5, BoundsAssumption DEF ExecOK, Idle, TypeOK, Heights
<1>9. \A f \in Execs : ExecOK(f)'
  <2>1. tip' >= tip
    BY <1>1, BoundsAssumption DEF IInv, TypeOK, Heights, nodeVars
  <2> QED
    BY <1>1, <1>2, <1>5, <1>7, <1>8, <2>1, OthersKeepExecOK DEF IInv
<1>10. ASSUME NEW a \in New
       PROVE  Kept(a.match)' \/ (kind' = "fabric" /\ a.confirmed)
  <2>1. PICK m \in All : a = [match |-> m, confirmed |-> Min(m) <= exec[e].last - exec[e].at]
    OBVIOUS
  <2>2. a.match = m /\ a.confirmed = (Min(m) <= exec[e].last - exec[e].at)
    BY <2>1
  <2>3. exec[e].at \in Heights /\ exec[e].last \in Heights
    BY DEF IInv, TypeOK, ExecRecords
  <2>4. CASE m \in UnconfirmedBy(e)
    <3>1. Kept(m)
      BY <1>1, <2>4 DEF IInv, ExecOK
    <3> QED
      BY <1>3, <1>7, <2>2, <3>1
  <2>5. CASE m \in ConfirmedBy(e)
    <3>1. a.confirmed
      BY <2>2, <2>3, <2>5, ConfirmedIsDeep DEF ConfirmedBy
    <3>2. kind # "fabric" => Kept(m)
      BY <1>1, <2>5 DEF IInv, ExecOK
    <3> QED
      BY <1>1, <1>3, <1>7, <2>2, <3>1, <3>2
  <2> QED
    BY <2>4, <2>5, ConsideredParts DEF UnconfirmedBy, ConfirmedBy
<1>11. ASSUME NEW a \in answered
       PROVE  Kept(a.match)' \/ (kind' = "fabric" /\ a.confirmed)
  <2>1. a.match \in Matches /\ (Kept(a.match) \/ (kind = "fabric" /\ a.confirmed))
    BY DEF IInv, TypeOK, MatchNotForgotten, Kept
  <2> QED
    BY <1>1, <1>7, <2>1
<1>12. MatchNotForgotten'
  BY <1>1, <1>10, <1>11 DEF MatchNotForgotten, Kept
<1> QED
  BY <1>5, <1>6, <1>9, <1>12 DEF IInv

LEMMA NextKeepsIInv == IInv /\ [Next]_vars => IInv'
<1> SUFFICES ASSUME IInv, [Next]_vars PROVE IInv'
  OBVIOUS
<1>1. CASE UNCHANGED vars
  <2>1. \A e \in Execs : ExecOK(e)'
    BY <1>1 DEF IInv, ExecOK, TaskOK, Exact, Kept, UnconfirmedBy, ConfirmedBy, Unconfirmed,
                Confirmed, Considered, vars
  <2> QED
    BY <1>1, <2>1 DEF IInv, TypeOK, RechecksOK, Exact, MatchNotForgotten, vars
<1>2. CASE Next
  BY <1>2, ChainKeepsIInv, BeginKeepsIInv, LookForRecheckKeepsIInv, InsertRecheckKeepsIInv,
     FillKeepsIInv, FailuresKeepIInv, ListRechecksKeepsIInv, TaskKeepsIInv, FinishKeepsIInv
     DEF Next
<1> QED
  BY <1>1, <1>2

\* The state of handlers, rechecks and webhooks stays within its types; in
\* particular no recheck is ever due for its own block or later than asked.
THEOREM TypeCorrect == Spec => []TypeOK
<1>1. IInv => TypeOK
  BY DEF IInv
<1> QED
  BY <1>1, InitIsIInv, NextKeepsIInv, PTL DEF Spec

\* For every kind of handler, any number of concurrent executions, blocks
\* given again, blocks replaced and failures at any step, a match that an
\* execution considered before it returned is a webhook, a stored recheck or
\* in a block found replaced (the confirmed ones of the fabric handler aside).
THEOREM NoMatchIsForgotten == Spec => []MatchNotForgotten
<1>1. IInv => MatchNotForgotten
  BY DEF IInv
<1> QED
  BY <1>1, InitIsIInv, NextKeepsIInv, PTL DEF Spec

-----------------------------------------------------------------------------
(* No webhook is early *)

\* A webhook that the execution of its own block stores has its confirmations.
LEMMA FillIsDue ==
  ASSUME IInv, NEW e \in Execs, NEW m \in Filled(e)
  PROVE  m \in Matches /\ tip - m.at >= Min(m)
<1>1. m \in Confirmed(exec[e].at, exec[e].hash, exec[e].last)
  BY DEF Filled
<1>2. m \in Matches /\ m.at = exec[e].at
  BY <1>1, ConsideredParts
<1>3. exec[e].at \in Heights /\ exec[e].last \in Heights /\ tip \in Heights /\ exec[e].last <= tip
  BY DEF IInv, TypeOK, ExecOK, ExecRecords
<1>4. Min(m) <= exec[e].last - exec[e].at
  BY <1>1, <1>3, ConsideredParts, ConfirmedIsDeep
<1> QED
  BY <1>2, <1>3, <1>4, MatchTypes, BoundsAssumption DEF Heights

\* A recheck, stored or taken up, was created with no more confirmations than
\* its block had.
Had(r) == r.conf <= tip - r.match.at
ConfirmationsHad ==
  /\ \A r \in rechecks : Had(r)
  /\ \A e \in Execs : \A t \in exec[e].tasks : Had(t.recheck)

\* It is enough that new rechecks are created so, and new tasks are for stored
\* rechecks: the chain does not become shorter.
LEMMA ConfirmationsStayHad ==
  ASSUME IInv, ConfirmationsHad, tip' \in Heights, tip' >= tip,
         \A r \in rechecks' : r \in rechecks \/ Had(r)',
         \A e \in Execs : \A t \in exec'[e].tasks :
           t.recheck \in rechecks \/ \E u \in exec[e].tasks : u.recheck = t.recheck
  PROVE  ConfirmationsHad'
<1>1. ASSUME NEW r, r \in Rechecks, Had(r)
      PROVE  Had(r)'
  <2>1. r.match \in Matches /\ r.conf \in Heights /\ tip \in Heights
    BY <1>1 DEF Rechecks, IInv, TypeOK
  <2>2. r.match.at \in Heights
    BY <2>1, MatchTypes
  <2> QED
    BY <1>1, <2>1, <2>2, BoundsAssumption DEF Had, Heights
<1>2. /\ rechecks \subseteq Rechecks
      /\ \A e \in Execs : \A u \in exec[e].tasks : u.recheck \in Rechecks
  BY TaskFacts DEF IInv, TypeOK
<1> QED
  BY <1>1, <1>2 DEF ConfirmationsHad

\* New rechecks come from InsertRecheck, new tasks from ListRechecks.
LEMMA NextKeepsConfirmationsHad ==
  ASSUME IInv, ConfirmationsHad, [Next]_vars
  PROVE  ConfirmationsHad'
<1>1. tip \in Heights /\ exec \in [Execs -> ExecRecords]
  BY DEF IInv, TypeOK
<1>2. CASE Grow \/ Reorganise \/ UNCHANGED vars
  <2>1. tip' \in Heights /\ tip' >= tip /\ UNCHANGED <<exec, rechecks>>
    BY <1>1, <1>2, BoundsAssumption DEF Grow, Reorganise, Heights, vars
  <2> QED
    BY <2>1, ConfirmationsStayHad
<1>3. ASSUME UNCHANGED tip, rechecks' \subseteq rechecks, NEW e \in Execs, NEW x,
             exec' = [exec EXCEPT ![e] = x],
             \A t \in x.tasks :
               t.recheck \in rechecks \/ \E u \in exec[e].tasks : u.recheck = t.recheck
      PROVE  ConfirmationsHad'
  <2>1. tip' \in Heights /\ tip' >= tip
    BY <1>1, <1>3, BoundsAssumption DEF Heights
  <2>2. exec'[e] = x /\ \A f \in Execs \ {e} : exec'[f] = exec[f]
    BY <1>1, <1>3
  <2> QED
    BY <1>3, <2>1, <2>2, ConfirmationsStayHad
<1>4. ASSUME NEW e \in Execs, InsertRecheck(e)
      PROVE  ConfirmationsHad'
  <2>1. tip' \in Heights /\ tip' >= tip /\ tip' = tip
    BY <1>1, <1>4, BoundsAssumption DEF InsertRecheck, nodeVars, Heights
  <2>2. \A f \in Execs : exec'[f].tasks = exec[f].tasks
    BY <1>1, <1>4 DEF InsertRecheck, ExecRecords
  <2>3. ASSUME NEW m \in exec[e].next
        PROVE  m.at = exec[e].at
    BY <2>3, ConsideredParts DEF IInv, ExecOK, UnconfirmedBy
  <2>4. exec[e].last \in Heights /\ exec[e].at \in Heights /\ exec[e].last <= tip
    BY <1>1 DEF IInv, ExecOK, ExecRecords
  <2>5. \A r \in rechecks' : r \in rechecks \/ Had(r)'
    BY <1>1, <1>4, <2>1, <2>3, <2>4, BoundsAssumption DEF InsertRecheck, Had, Heights
  <2> QED
    BY <2>1, <2>2, <2>5, ConfirmationsStayHad
<1>5. ASSUME NEW e \in Execs, NEW t \in exec[e].tasks, Task(e, t) \/ TaskFails(e, t)
      PROVE  ConfirmationsHad'
  <2>1. UNCHANGED tip /\ rechecks' \subseteq rechecks
    BY <1>5 DEF Task, LoadBlock, CheckWebhook, CreateWebhook, RemoveRecheck, TaskFails, nodeVars
  <2>2. End(e, t) \/ \E stage \in Stages : Advance(e, t, stage)
    BY <1>5 DEF Task, LoadBlock, CheckWebhook, CreateWebhook, RemoveRecheck, TaskFails, Stages
  <2>3. exec[e] \in ExecRecords
    BY <1>1
  <2>4. CASE End(e, t)
    <3> DEFINE x == [exec[e] EXCEPT !.tasks = @ \ {t}]
    <3>1. exec' = [exec EXCEPT ![e] = x] /\ x.tasks = exec[e].tasks \ {t}
      BY <2>3, <2>4 DEF End, ExecRecords
    <3> HIDE DEF x
    <3> QED
      BY <1>3, <2>1, <3>1
  <2>5. ASSUME NEW stage \in Stages, Advance(e, t, stage)
        PROVE  ConfirmationsHad'
    <3> DEFINE x == [exec[e] EXCEPT !.tasks = (@ \ {t}) \union {[t EXCEPT !.stage = stage]}]
    <3>1. exec' = [exec EXCEPT ![e] = x]
          /\ x.tasks = (exec[e].tasks \ {t}) \union {[t EXCEPT !.stage = stage]}
      BY <2>3, <2>5 DEF Advance, ExecRecords
    <3>2. [t EXCEPT !.stage = stage].recheck = t.recheck
      BY TaskFacts
    <3> HIDE DEF x
    <3> QED
      BY <1>3, <2>1, <3>1, <3>2
  <2> QED
    BY <2>2, <2>4, <2>5
<1>6. ASSUME NEW e \in Execs, ListRechecks(e)
      PROVE  ConfirmationsHad'
  <2> DEFINE x == [exec[e] EXCEPT !.phase = "recheck",
                     !.tasks = {[recheck |-> r, stage |-> "load"] : r \in Due(exec[e].at)}]
  <2>1. exec' = [exec EXCEPT ![e] = x]
        /\ x.tasks = {[recheck |-> r, stage |-> "load"] : r \in Due(exec[e].at)}
    BY <1>1, <1>6 DEF ListRechecks, ExecRecords
  <2>2. UNCHANGED tip /\ rechecks' = rechecks
    BY <1>6 DEF ListRechecks, nodeVars
  <2>3. \A t \in x.tasks : t.recheck \in rechecks
    BY <2>1 DEF Due
  <2> HIDE DEF x
  <2> QED
    BY <1>3, <2>1, <2>2, <2>3
<1>7. ASSUME NEW e \in Execs,
             \/ \E h, last \in Heights : Begin(e, h, last)
             \/ \E m \in exec[e].todo : LookForRecheck(e, m)
             \/ Fill(e) \/ FillFails(e) \/ ExecFails(e) \/ Finish(e)
      PROVE  ConfirmationsHad'
  <2>1. UNCHANGED tip /\ rechecks' = rechecks
    BY <1>7 DEF Begin, LookForRecheck, Fill, FillFails, ExecFails, Finish, nodeVars
  <2>2. Idle.tasks = {}
    BY DEF Idle
  <2>3. \E x : exec' = [exec EXCEPT ![e] = x] /\ x.tasks \subseteq exec[e].tasks
    <3>1. exec[e] \in ExecRecords
      BY <1>1
    <3>2. ASSUME NEW x, exec' = [exec EXCEPT ![e] = x], x.tasks = {} \/ x.tasks = exec[e].tasks
          PROVE  \E y : exec' = [exec EXCEPT ![e] = y] /\ y.tasks \subseteq exec[e].tasks
      BY <3>2
    <3>3. CASE ExecFails(e) \/ FillFails(e) \/ Finish(e)
      BY <2>2, <3>2, <3>3 DEF ExecFails, FillFails, Finish, Throw
    <3>4. CASE \E h, last \in Heights : Begin(e, h, last)
      <4>1. PICK h \in Heights, last \in Heights : Begin(e, h, last)
        BY <3>4
      <4> DEFINE x == [Idle EXCEPT !.phase = "match", !.at = h, !.hash = Hash(h), !.last = last,
                                   !.todo = Unconfirmed(h, Hash(h), last)]
      <4>2. exec' = [exec EXCEPT ![e] = x] /\ x.tasks = {}
        BY <4>1 DEF Begin, Idle
      <4> HIDE DEF x
      <4> QED
        BY <3>2, <4>2
    <3>5. CASE \E m \in exec[e].todo : LookForRecheck(e, m)
      <4>1. PICK m \in exec[e].todo : LookForRecheck(e, m)
        BY <3>5
      <4> DEFINE x == [exec[e] EXCEPT !.phase = "insert", !.next = {m}]
      <4>2. x.tasks = exec[e].tasks
        BY <3>1 DEF ExecRecords
      <4>3. Throw(e) \/ exec' = [exec EXCEPT ![e] = x]
        BY <4>1 DEF LookForRecheck
      <4> HIDE DEF x
      <4> QED
        BY <2>2, <3>2, <4>2, <4>3 DEF Throw
    <3>6. CASE Fill(e)
      <4> DEFINE x == [exec[e] EXCEPT !.phase = "list"]
      <4>1. exec' = [exec EXCEPT ![e] = x] /\ x.tasks = exec[e].tasks
        BY <3>1, <3>6 DEF Fill, ExecRecords
      <4> HIDE DEF x
      <4> QED
        BY <3>2, <4>1
    <3> QED
      BY <1>7, <3>3, <3>4, <3>5, <3>6
  <2> QED
    BY <1>3, <2>1, <2>3
<1> QED
  BY <1>2, <1>4, <1>5, <1>6, <1>7 DEF Next

\* A recheck is processed when the tip is as far from its block as it waited
\* for, and what it did not wait for was there.
LEMMA TaskIsDue ==
  ASSUME IInv, ConfirmationsHad, NEW e \in Execs, NEW t \in exec[e].tasks
  PROVE  /\ tip - t.recheck.match.at + t.recheck.conf >= Min(t.recheck.match)
         /\ t.recheck.conf <= tip - t.recheck.match.at
<1>1. /\ t.recheck.invokeOn = t.recheck.match.at + Min(t.recheck.match) - t.recheck.conf
      /\ t.recheck.invokeOn <= exec[e].at
      /\ t.recheck.match \in Matches /\ t.recheck.conf \in Heights
      /\ t.recheck.conf <= tip - t.recheck.match.at
  BY TaskFacts DEF TaskOK, Exact, ConfirmationsHad, Had, Rechecks
<1>2. /\ exec[e].at \in Heights /\ exec[e].last \in Heights /\ tip \in Heights
      /\ exec[e].at <= exec[e].last /\ exec[e].last <= tip
  BY DEF IInv, TypeOK, ExecOK, ExecRecords
<1>3. t.recheck.match.at \in Heights /\ Min(t.recheck.match) \in Nat
  BY <1>1, MatchTypes
<1> QED
  BY <1>1, <1>2, <1>3, BoundsAssumption DEF Heights

\* Webhooks are stored by three kinds of steps.
LEMMA WebhooksChange ==
  ASSUME [Next]_vars
  PROVE  \/ webhooks' = webhooks
         \/ \E e \in Execs : webhooks' = Stored(Filled(e))
         \/ \E e \in Execs : \E t \in exec[e].tasks :
              t.stage = "create" /\ webhooks' = Stored({t.recheck.match})
<1>1. ASSUME NEW e \in Execs, NEW t \in exec[e].tasks, Task(e, t) \/ TaskFails(e, t)
      PROVE  \/ webhooks' = webhooks
             \/ t.stage = "create" /\ webhooks' = Stored({t.recheck.match})
  BY <1>1 DEF Task, LoadBlock, CheckWebhook, CreateWebhook, RemoveRecheck, TaskFails
<1>2. ASSUME NEW e \in Execs, FillFails(e) \/ Fill(e)
      PROVE  webhooks' = webhooks \/ webhooks' = Stored(Filled(e))
  BY <1>2 DEF Fill, FillFails
<1>3. ASSUME NEW e \in Execs,
             \/ \E h, last \in Heights : Begin(e, h, last)
             \/ \E m \in exec[e].todo : LookForRecheck(e, m)
             \/ InsertRecheck(e) \/ ExecFails(e) \/ ListRechecks(e) \/ Finish(e)
      PROVE  webhooks' = webhooks
  BY <1>3 DEF Begin, LookForRecheck, InsertRecheck, ExecFails, ListRechecks, Finish
<1>4. CASE UNCHANGED vars \/ Grow \/ Reorganise
  BY <1>4 DEF vars, Grow, Reorganise
<1> QED
  BY <1>1, <1>2, <1>3, <1>4 DEF Next

\* A webhook comes early by no more than the confirmations its recheck was
\* created with, which its block had: by none where the listener kept up.
THEOREM WebhooksAreEarlyByAtMostTheLag == Spec => AnnouncedWhenDue
<1>1. IInv /\ ConfirmationsHad /\ [Next]_vars =>
        [\A m \in Matches : webhooks'[m] > webhooks[m] => Depth(m) >= Min(m) \/ DueByRecheck(m)]_vars
  <2> SUFFICES ASSUME IInv, ConfirmationsHad, [Next]_vars, NEW m \in Matches, webhooks'[m] > webhooks[m]
               PROVE  Depth(m) >= Min(m) \/ DueByRecheck(m)
    OBVIOUS
  <2>1. ASSUME NEW ms, webhooks' = Stored(ms)
        PROVE  m \in ms
    <3>1. webhooks \in [Matches -> 0 .. MaxCopies] /\ webhooks[m] \in 0 .. MaxCopies
      BY DEF IInv, TypeOK
    <3>2. m \notin ms => webhooks'[m] = webhooks[m]
      BY <2>1, <3>1, StoredTypes
    <3> QED
      BY <3>1, <3>2, BoundsAssumption
  <2>2. webhooks' # webhooks
    <3>1. webhooks[m] \in 0 .. MaxCopies
      BY DEF IInv, TypeOK
    <3> QED
      BY <3>1, BoundsAssumption
  <2>3. CASE \E e \in Execs : webhooks' = Stored(Filled(e))
    BY <2>1, <2>3, FillIsDue DEF Depth
  <2>4. CASE \E e \in Execs : \E t \in exec[e].tasks : webhooks' = Stored({t.recheck.match})
    BY <2>1, <2>4, TaskIsDue DEF Depth, DueByRecheck
  <2> QED
    BY <2>2, <2>3, <2>4, WebhooksChange
<1>2. Init => ConfirmationsHad
  BY DEF Init, Idle, ConfirmationsHad
<1>3. IInv /\ ConfirmationsHad /\ [Next]_vars => ConfirmationsHad'
  BY NextKeepsConfirmationsHad
<1> QED
  BY <1>1, <1>2, <1>3, InitIsIInv, NextKeepsIInv, PTL DEF Spec, AnnouncedWhenDue

-----------------------------------------------------------------------------
(* No webhook is stored twice *)

\* Executions follow one another, and a completed block is not given again.
OneAtATime == (\A e, f \in Execs : e = f) /\ ~Redelivers

\* The blocks an execution was begun for, and those whose own matches are done.
Begun(h) == h \in passed \/ \E e \in Execs : exec[e].at = h /\ exec[e].phase # "idle"
Filed(h) == h \in passed \/ \E e \in Execs : exec[e].at = h /\ exec[e].phase \in {"list", "recheck"}

\* A block is processed once, what is about to be inserted does not exist,
\* and each recheck has one task.
NotPassed(e) == exec[e].phase # "idle" => exec[e].at \notin passed
InsertsOne(e) ==
  exec[e].phase = "insert" =>
    /\ \A m, n \in exec[e].next : m = n
    /\ \A m \in exec[e].next, r \in rechecks : ~SameKey(r.match, m)
TasksApart(e) ==
  /\ \A t \in exec[e].tasks :
       /\ t.recheck \in rechecks
       /\ t.stage = "create" => webhooks[t.recheck.match] = 0
  /\ \A t, u \in exec[e].tasks : t.recheck = u.recheck => t = u

OnceExec(e) == NotPassed(e) /\ InsertsOne(e) /\ TasksApart(e)

OneRecheckPerKey == \A r, q \in rechecks : SameKey(r.match, q.match) => r = q
RechecksBegun == \A r \in rechecks : Begun(r.match.at)
WebhooksFiled == \A m \in Matches : webhooks[m] <= 1 /\ (webhooks[m] > 0 => Filed(m.at))

Once ==
  /\ OneRecheckPerKey
  /\ RechecksBegun
  /\ WebhooksFiled
  /\ \A e \in Execs : OnceExec(e)

\* Blocks do not become unprocessed again, for as long as nothing throws.
LEMMA ProgressStays ==
  ASSUME OneAtATime, NEW e \in Execs, passed \subseteq passed',
         exec'[e].at = exec[e].at \/ exec[e].phase = "idle" \/ exec[e].at \in passed',
         exec[e].phase # "idle" /\ exec[e].at \notin passed' => exec'[e].phase # "idle",
         exec[e].phase \in {"list", "recheck"} /\ exec[e].at \notin passed' =>
           exec'[e].phase \in {"list", "recheck"},
         NEW h
  PROVE  (Begun(h) => Begun(h)') /\ (Filed(h) => Filed(h)')
BY DEF OneAtATime, Begun, Filed

LEMMA BeginKeepsOnce ==
  ASSUME OneAtATime, IInv, Once,
         NEW e \in Execs, NEW h \in Heights, NEW last \in Heights, Begin(e, h, last)
  PROVE  Once'
<1>1. /\ exec[e].phase = "idle" /\ Given(h)
      /\ exec' = [exec EXCEPT ![e] =
           [Idle EXCEPT !.phase = "match", !.at = h, !.hash = Hash(h), !.last = last,
                        !.todo = Unconfirmed(h, Hash(h), last)]]
      /\ UNCHANGED <<rechecks, webhooks, passed>>
  BY DEF Begin, histories
<1>2. exec'[e].phase = "match" /\ exec'[e].at = h /\ exec'[e].tasks = {}
  BY <1>1 DEF IInv, TypeOK, Idle
<1>3. h \notin passed
  BY <1>1 DEF Given, OneAtATime, IInv, TypeOK
<1>4. \A f \in Execs : f = e
  BY DEF OneAtATime
<1>5. \A k : (Begun(k) => Begun(k)') /\ (Filed(k) => Filed(k)')
  BY <1>1, ProgressStays
<1>6. OneRecheckPerKey' /\ RechecksBegun' /\ WebhooksFiled'
  BY <1>1, <1>5 DEF Once, OneRecheckPerKey, SameKey, BlockOf, RechecksBegun, WebhooksFiled
<1>7. OnceExec(e)'
  BY <1>1, <1>2, <1>3 DEF OnceExec, NotPassed, InsertsOne, TasksApart
<1> QED
  BY <1>4, <1>6, <1>7 DEF Once

LEMMA LookForRecheckKeepsOnce ==
  ASSUME OneAtATime, IInv, Once, NEW e \in Execs, NEW m \in exec[e].todo,
         LookForRecheck(e, m), ~RecheckExists(m)
  PROVE  Once'
<1>1. /\ exec[e].phase = "match"
      /\ exec' = [exec EXCEPT ![e].phase = "insert", ![e].next = {m}]
      /\ UNCHANGED <<rechecks, webhooks, passed>>
  BY DEF LookForRecheck
<1>2. /\ exec'[e].phase = "insert" /\ exec'[e].next = {m} /\ exec'[e].at = exec[e].at
      /\ exec'[e].tasks = exec[e].tasks
  BY <1>1 DEF IInv, TypeOK, ExecRecords
<1>4. \A h : (Begun(h) => Begun(h)') /\ (Filed(h) => Filed(h)')
  BY <1>1, <1>2, ProgressStays
<1>5. OneRecheckPerKey' /\ RechecksBegun' /\ WebhooksFiled'
  BY <1>1, <1>4 DEF Once, OneRecheckPerKey, SameKey, BlockOf, RechecksBegun, WebhooksFiled
<1>6. OnceExec(e)'
  <2>1. NotPassed(e)'
    BY <1>1, <1>2 DEF Once, OnceExec, NotPassed
  <2>2. InsertsOne(e)'
    BY <1>1, <1>2 DEF InsertsOne, RecheckExists, SameKey, BlockOf
  <2>3. TasksApart(e)'
    BY <1>1, <1>2 DEF Once, OnceExec, TasksApart
  <2> QED
    BY <2>1, <2>2, <2>3 DEF OnceExec
<1> QED
  BY <1>5, <1>6 DEF Once, OneAtATime

LEMMA InsertRecheckKeepsOnce ==
  ASSUME OneAtATime, IInv, Once, NEW e \in Execs, InsertRecheck(e)
  PROVE  Once'
<1> DEFINE conf == exec[e].last - exec[e].at
           R(m) == [match |-> m, invokeOn |-> m.at + Min(m) - conf, conf |-> conf, by |-> e]
<1>1. /\ exec[e].phase = "insert"
      /\ rechecks' = rechecks \union {R(m) : m \in exec[e].next}
      /\ exec' = [exec EXCEPT ![e].phase = "match", ![e].next = {}, ![e].todo = @ \ exec[e].next]
      /\ UNCHANGED <<webhooks, passed>>
  BY DEF InsertRecheck, histories
<1>2. exec'[e].phase = "match" /\ exec'[e].at = exec[e].at /\ exec'[e].tasks = exec[e].tasks
  BY <1>1 DEF IInv, TypeOK, ExecRecords
<1>3. /\ \A m, n \in exec[e].next : m = n
      /\ \A m \in exec[e].next, r \in rechecks : ~SameKey(r.match, m)
      /\ \A m \in exec[e].next : R(m).match = m
  BY <1>1 DEF Once, OnceExec, InsertsOne
<1>4. \A m \in exec[e].next : m.at = exec[e].at
  BY ConsideredParts DEF IInv, ExecOK, UnconfirmedBy
<1> HIDE DEF R
<1>5. OneRecheckPerKey'
  <2> SUFFICES ASSUME NEW r \in rechecks', NEW q \in rechecks', SameKey(r.match, q.match)
               PROVE  r = q
    BY DEF OneRecheckPerKey, SameKey, BlockOf
  <2>1. CASE r \in rechecks /\ q \in rechecks
    BY <2>1 DEF Once, OneRecheckPerKey
  <2>2. ASSUME NEW m \in exec[e].next, r = R(m) \/ q = R(m)
        PROVE  r = R(m) /\ q = R(m)
    BY <1>1, <1>3, <2>2 DEF SameKey
  <2> QED
    BY <1>1, <2>1, <2>2
<1>6. \A h : (Begun(h) => Begun(h)') /\ (Filed(h) => Filed(h)')
  BY <1>1, <1>2, ProgressStays
<1>7. RechecksBegun'
  <2>1. \A m \in exec[e].next : Begun(m.at)'
    BY <1>2, <1>4 DEF Begun
  <2>2. ASSUME NEW r \in {R(m) : m \in exec[e].next}
        PROVE  Begun(r.match.at)'
    BY <1>3, <2>1
  <2>3. \A r \in rechecks : Begun(r.match.at)'
    BY <1>6 DEF Once, RechecksBegun
  <2> QED
    BY <1>1, <2>2, <2>3 DEF RechecksBegun
<1>8. WebhooksFiled'
  BY <1>1, <1>6 DEF Once, WebhooksFiled
<1>9. OnceExec(e)'
  <2>1. NotPassed(e)'
    BY <1>1, <1>2 DEF Once, OnceExec, NotPassed
  <2>2. InsertsOne(e)'
    BY <1>2 DEF InsertsOne
  <2>3. TasksApart(e)'
    BY <1>1, <1>2 DEF Once, OnceExec, TasksApart
  <2> QED
    BY <2>1, <2>2, <2>3 DEF OnceExec
<1> QED
  BY <1>5, <1>7, <1>8, <1>9 DEF Once, OneAtATime

\* The block's own matches have no webhook yet.
LEMMA FillKeepsOnce ==
  ASSUME OneAtATime, IInv, Once, NEW e \in Execs, Fill(e)
  PROVE  Once'
<1>1. /\ exec[e].phase = "match"
      /\ webhooks' = Stored(Filled(e))
      /\ exec' = [exec EXCEPT ![e].phase = "list"]
      /\ UNCHANGED <<rechecks, passed>>
  BY DEF Fill, histories
<1>2. /\ exec'[e].phase = "list" /\ exec'[e].at = exec[e].at /\ exec'[e].tasks = exec[e].tasks
      /\ exec[e].tasks = {}
  BY <1>1 DEF IInv, TypeOK, ExecRecords, ExecOK
<1>3. \A h : (Begun(h) => Begun(h)') /\ (Filed(h) => Filed(h)')
  BY <1>1, <1>2, ProgressStays
<1>4. OneRecheckPerKey' /\ RechecksBegun'
  BY <1>1, <1>3 DEF Once, OneRecheckPerKey, SameKey, BlockOf, RechecksBegun
<1>5. ASSUME NEW m \in Matches
      PROVE  webhooks'[m] <= 1 /\ (webhooks'[m] > 0 => Filed(m.at)')
  <2>1. webhooks[m] \in 0 .. MaxCopies /\ webhooks[m] <= 1 /\ (webhooks[m] > 0 => Filed(m.at))
    BY DEF IInv, TypeOK, Once, WebhooksFiled
  <2>2. CASE m \in Filled(e)
    <3>1. m.at = exec[e].at
      BY <2>2, ConsideredParts DEF Filled
    <3>2. Filed(m.at)'
      BY <1>2, <3>1 DEF Filed
    <3>3. ~Filed(m.at)
      BY <1>1, <3>1 DEF Once, OnceExec, NotPassed, Filed, OneAtATime
    <3>4. webhooks[m] = 0 /\ webhooks'[m] <= webhooks[m] + 1
      BY <1>1, <2>1, <3>3, StoredTypes, BoundsAssumption DEF IInv, TypeOK
    <3> QED
      BY <3>2, <3>4
  <2>3. CASE m \notin Filled(e)
    BY <1>1, <1>3, <2>1, <2>3, StoredTypes DEF IInv, TypeOK
  <2> QED
    BY <2>2, <2>3
<1>6. OnceExec(e)'
  <2>1. NotPassed(e)'
    BY <1>1, <1>2 DEF Once, OnceExec, NotPassed
  <2> QED
    BY <1>2, <2>1 DEF OnceExec, InsertsOne, TasksApart
<1> QED
  BY <1>4, <1>5, <1>6 DEF Once, OneAtATime, WebhooksFiled

LEMMA ListRechecksKeepsOnce ==
  ASSUME OneAtATime, IInv, Once, NEW e \in Execs, ListRechecks(e)
  PROVE  Once'
<1> DEFINE T == {[recheck |-> r, stage |-> "load"] : r \in Due(exec[e].at)}
<1>1. /\ exec[e].phase = "list"
      /\ exec' = [exec EXCEPT ![e].phase = "recheck", ![e].tasks = T]
      /\ UNCHANGED <<rechecks, webhooks, passed>>
  BY DEF ListRechecks, histories
<1>2. exec'[e].phase = "recheck" /\ exec'[e].at = exec[e].at /\ exec'[e].tasks = T
  BY <1>1 DEF IInv, TypeOK, ExecRecords
<1>3. \A t \in T : t.recheck \in rechecks /\ t.stage = "load"
  BY DEF Due
<1>4. \A t, u \in T : t.recheck = u.recheck => t = u
  OBVIOUS
<1> HIDE DEF T
<1>5. \A h : (Begun(h) => Begun(h)') /\ (Filed(h) => Filed(h)')
  BY <1>1, <1>2, ProgressStays
<1>6. OneRecheckPerKey' /\ RechecksBegun' /\ WebhooksFiled'
  BY <1>1, <1>5 DEF Once, OneRecheckPerKey, SameKey, BlockOf, RechecksBegun, WebhooksFiled
<1>7. OnceExec(e)'
  <2>1. NotPassed(e)'
    BY <1>1, <1>2 DEF Once, OnceExec, NotPassed
  <2>2. TasksApart(e)'
    BY <1>1, <1>2, <1>3, <1>4 DEF TasksApart
  <2> QED
    BY <1>2, <2>1, <2>2 DEF OnceExec, InsertsOne
<1> QED
  BY <1>6, <1>7 DEF Once, OneAtATime

\* A task that changes no webhook goes on, or ends and may take its recheck
\* with it.
LEMMA QuietTaskKeepsOnce ==
  ASSUME OneAtATime, IInv, Once, NEW e \in Execs, NEW t \in exec[e].tasks,
         \/ /\ \E stage \in Stages :
                 /\ Advance(e, t, stage)
                 /\ stage = "create" => webhooks[t.recheck.match] = 0
            /\ rechecks' = rechecks
         \/ End(e, t) /\ rechecks' \in {rechecks, rechecks \ {t.recheck}},
         UNCHANGED <<webhooks, passed>>
  PROVE  Once'
<1>1. exec[e].phase = "recheck" /\ exec'[e].phase = "recheck" /\ exec'[e].at = exec[e].at
  BY TaskFacts DEF Advance, End, IInv, TypeOK, ExecRecords
<1>2. \A h : (Begun(h) => Begun(h)') /\ (Filed(h) => Filed(h)')
  BY <1>1, ProgressStays
<1>3. rechecks' \subseteq rechecks
  OBVIOUS
<1>4. OneRecheckPerKey' /\ RechecksBegun' /\ WebhooksFiled'
  BY <1>2, <1>3 DEF Once, OneRecheckPerKey, SameKey, BlockOf, RechecksBegun, WebhooksFiled
<1>5. NotPassed(e)' /\ InsertsOne(e)'
  BY <1>1 DEF Once, OnceExec, NotPassed, InsertsOne
<1>6. TasksApart(e)
  BY DEF Once, OnceExec
<1>7. TasksApart(e)'
  <2>1. ASSUME NEW stage \in Stages, Advance(e, t, stage), rechecks' = rechecks,
               stage = "create" => webhooks[t.recheck.match] = 0
        PROVE  TasksApart(e)'
    <3> DEFINE v == [t EXCEPT !.stage = stage]
    <3>1. v.recheck = t.recheck /\ v.stage = stage
      BY TaskFacts
    <3>2. exec'[e].tasks = (exec[e].tasks \ {t}) \union {v}
      BY <2>1 DEF Advance, IInv, TypeOK, ExecRecords
    <3> HIDE DEF v
    <3> QED
      BY <1>6, <2>1, <3>1, <3>2 DEF TasksApart
  <2>2. ASSUME End(e, t), rechecks' \in {rechecks, rechecks \ {t.recheck}}
        PROVE  TasksApart(e)'
    <3>1. exec'[e].tasks = exec[e].tasks \ {t}
      BY <2>2 DEF End, IInv, TypeOK, ExecRecords
    <3> QED
      BY <1>6, <2>2, <3>1 DEF TasksApart
  <2> QED
    BY <2>1, <2>2
<1> QED
  BY <1>4, <1>5, <1>7 DEF Once, OneAtATime, OnceExec

\* A recheck's webhook is the first one; two tasks never create the same.
LEMMA CreateWebhookKeepsOnce ==
  ASSUME OneAtATime, IInv, Once, NEW e \in Execs, NEW t \in exec[e].tasks, CreateWebhook(e, t)
  PROVE  Once'
<1> DEFINE v == [t EXCEPT !.stage = "remove"]
           w == t.recheck.match
<1>1. /\ t.stage = "create"
      /\ webhooks' = Stored({w})
      /\ Advance(e, t, "remove")
      /\ UNCHANGED <<rechecks, passed>>
  BY DEF CreateWebhook, histories
<1>2. /\ exec[e].phase = "recheck" /\ exec'[e].phase = "recheck" /\ exec'[e].at = exec[e].at
      /\ exec'[e].tasks = (exec[e].tasks \ {t}) \union {v}
  BY <1>1, TaskFacts DEF Advance, IInv, TypeOK, ExecRecords
<1>3. v.recheck = t.recheck /\ v.stage = "remove" /\ w \in Matches
  <2>1. "remove" \in Stages
    BY DEF Stages
  <2> QED
    BY <2>1, TaskFacts
<1>4. \A h : (Begun(h) => Begun(h)') /\ (Filed(h) => Filed(h)')
  BY <1>1, <1>2, ProgressStays
<1>5. OneRecheckPerKey' /\ RechecksBegun'
  BY <1>1, <1>4 DEF Once, OneRecheckPerKey, SameKey, BlockOf, RechecksBegun
<1>6. TasksApart(e) /\ t.recheck \in rechecks /\ webhooks[w] = 0
  BY <1>1 DEF Once, OnceExec, TasksApart
<1>7. Filed(w.at)'
  <2>1. Begun(w.at)
    BY <1>6 DEF Once, RechecksBegun
  <2> QED
    BY <1>1, <1>2, <2>1 DEF Begun, Filed, OneAtATime
<1>8. ASSUME NEW m \in Matches
      PROVE  webhooks'[m] <= 1 /\ (webhooks'[m] > 0 => Filed(m.at)')
  <2>1. webhooks[m] \in 0 .. MaxCopies /\ webhooks[m] <= 1 /\ (webhooks[m] > 0 => Filed(m.at))
    BY DEF IInv, TypeOK, Once, WebhooksFiled
  <2>2. CASE m = w
    BY <1>1, <1>6, <1>7, <2>1, <2>2, StoredTypes DEF IInv, TypeOK
  <2>3. CASE m # w
    BY <1>1, <1>4, <2>1, <2>3, StoredTypes DEF IInv, TypeOK
  <2> QED
    BY <2>2, <2>3
<1>9. ASSUME NEW u \in exec[e].tasks \ {t}, u.stage = "create"
      PROVE  webhooks'[u.recheck.match] = 0
  <2>1. u.recheck \in rechecks /\ u.recheck # t.recheck /\ webhooks[u.recheck.match] = 0
    BY <1>6, <1>9 DEF TasksApart
  <2>2. u.recheck.match \in Matches /\ u.recheck.match # w
    BY <1>6, <2>1, TaskFacts DEF Once, OneRecheckPerKey, SameKey
  <2> QED
    BY <1>1, <2>1, <2>2, StoredTypes DEF IInv, TypeOK
<1> HIDE DEF v
<1>10. TasksApart(e)'
  BY <1>1, <1>2, <1>3, <1>6, <1>9 DEF TasksApart
<1>11. NotPassed(e)' /\ InsertsOne(e)'
  BY <1>1, <1>2 DEF Once, OnceExec, NotPassed, InsertsOne
<1> QED
  BY <1>5, <1>8, <1>10, <1>11 DEF Once, OneAtATime, OnceExec, WebhooksFiled

LEMMA TaskKeepsOnce ==
  ASSUME OneAtATime, IInv, Once, NEW e \in Execs, NEW t \in exec[e].tasks,
         Task(e, t) \/ TaskFails(e, t)
  PROVE  Once'
<1>1. CASE LoadBlock(e, t)
  BY <1>1, QuietTaskKeepsOnce DEF LoadBlock, Stages, histories
<1>2. CASE CheckWebhook(e, t)
  <2>1. CASE WebhookExists(t.recheck.match)
    BY <1>2, <2>1, QuietTaskKeepsOnce DEF CheckWebhook, histories
  <2>2. CASE ~WebhookExists(t.recheck.match)
    <3>1. t.recheck.match \in Matches
      BY TaskFacts
    <3>2. ~(webhooks[t.recheck.match] > 0)
      BY <2>2, <3>1 DEF WebhookExists, SameKey
    <3>3. webhooks[t.recheck.match] = 0
      BY <3>1, <3>2, BoundsAssumption DEF IInv, TypeOK
    <3> QED
      BY <1>2, <2>2, <3>3, QuietTaskKeepsOnce DEF CheckWebhook, Stages, histories
  <2> QED
    BY <2>1, <2>2
<1>3. CASE RemoveRecheck(e, t)
  BY <1>3, QuietTaskKeepsOnce DEF RemoveRecheck
<1>4. CASE TaskFails(e, t)
  BY <1>4, QuietTaskKeepsOnce DEF TaskFails, histories
<1> QED
  BY <1>1, <1>2, <1>3, <1>4, CreateWebhookKeepsOnce DEF Task

LEMMA FinishKeepsOnce ==
  ASSUME OneAtATime, IInv, Once, NEW e \in Execs, Finish(e)
  PROVE  Once'
<1>1. /\ passed' = passed \union ({exec[e].at} \cap MatchHeights)
      /\ exec' = [exec EXCEPT ![e] = Idle]
      /\ UNCHANGED <<rechecks, webhooks>>
  BY DEF Finish
<1>2. exec'[e].phase = "idle" /\ exec'[e].tasks = {}
  BY <1>1 DEF IInv, TypeOK, Idle
<1>3. ASSUME NEW m \in Matches
      PROVE  (Begun(m.at) => Begun(m.at)') /\ (Filed(m.at) => Filed(m.at)')
  BY <1>1, MatchTypes DEF Begun, Filed, OneAtATime
<1>4. OneRecheckPerKey' /\ RechecksBegun' /\ WebhooksFiled'
  <2>1. \A r \in rechecks : r.match \in Matches
    BY DEF IInv, TypeOK, Rechecks
  <2> QED
    BY <1>1, <1>3, <2>1 DEF Once, OneRecheckPerKey, SameKey, BlockOf, RechecksBegun, WebhooksFiled
<1>5. OnceExec(e)'
  BY <1>2 DEF OnceExec, NotPassed, InsertsOne, TasksApart
<1> QED
  BY <1>4, <1>5 DEF Once, OneAtATime

\* Only a throw can be followed by a second webhook.
LEMMA NextKeepsOnce ==
  ASSUME OneAtATime, IInv, Once, [Next]_vars
  PROVE  threw' = TRUE \/ (threw' = threw /\ Once')
<1>1. CASE UNCHANGED <<rechecks, webhooks, exec, passed, threw>>
  BY <1>1 DEF Once, OneRecheckPerKey, SameKey, BlockOf, RechecksBegun, Begun, WebhooksFiled, Filed,
              OnceExec, NotPassed, InsertsOne, TasksApart
<1>2. CASE \E e \in Execs : FillFails(e) \/ ExecFails(e)
  BY <1>2 DEF FillFails, ExecFails, Throw
<1>3. ASSUME NEW e \in Execs, NEW m \in exec[e].todo, LookForRecheck(e, m)
      PROVE  threw' = TRUE \/ (threw' = threw /\ Once')
  <2>1. CASE RecheckExists(m)
    BY <1>3, <2>1 DEF LookForRecheck, Throw
  <2>2. CASE ~RecheckExists(m)
    <3>1. threw' = threw
      BY <1>3, <2>2 DEF LookForRecheck
    <3> QED
      BY <1>3, <2>2, <3>1, LookForRecheckKeepsOnce
  <2> QED
    BY <2>1, <2>2
<1>4. ASSUME NEW e \in Execs, NEW t \in exec[e].tasks, Task(e, t) \/ TaskFails(e, t)
      PROVE  threw' = threw /\ Once'
  <2>1. threw' = threw
    BY <1>4 DEF Task, LoadBlock, CheckWebhook, CreateWebhook, RemoveRecheck, TaskFails, histories
  <2> QED
    BY <1>4, <2>1, TaskKeepsOnce
<1>5. ASSUME NEW e \in Execs,
             \/ \E h, last \in Heights : Begin(e, h, last)
             \/ InsertRecheck(e) \/ Fill(e) \/ ListRechecks(e) \/ Finish(e)
      PROVE  threw' = threw /\ Once'
  <2>1. threw' = threw
    BY <1>5 DEF Begin, InsertRecheck, Fill, ListRechecks, Finish, histories
  <2> QED
    BY <1>5, <2>1, BeginKeepsOnce, InsertRecheckKeepsOnce, FillKeepsOnce, ListRechecksKeepsOnce,
       FinishKeepsOnce
<1>6. CASE UNCHANGED vars \/ Grow \/ Reorganise
  BY <1>1, <1>6 DEF vars, Grow, Reorganise, histories
<1> QED
  BY <1>2, <1>3, <1>4, <1>5, <1>6 DEF Next

\* When executions follow one another and no completed block is given again,
\* as long as none has thrown no match is stored twice: not by the rechecks
\* whose removal failed either, however often they are processed again.
THEOREM NoMatchIsStoredTwice ==
  ASSUME OneAtATime
  PROVE  Spec => []StoredAtMostOnce
<1> DEFINE OnceInv == threw = TRUE \/ (threw = FALSE /\ Once)
<1>1. Init => OnceInv
  <2> SUFFICES ASSUME Init PROVE Once
    BY DEF Init
  <2>1. \A e \in Execs : exec[e] = Idle
    BY DEF Init
  <2>2. Idle.phase = "idle" /\ Idle.tasks = {}
    BY DEF Idle
  <2>3. \A e \in Execs : OnceExec(e)
    BY <2>1, <2>2 DEF OnceExec, NotPassed, InsertsOne, TasksApart
  <2>4. OneRecheckPerKey /\ RechecksBegun /\ WebhooksFiled
    BY DEF Init, OneRecheckPerKey, RechecksBegun, WebhooksFiled
  <2> QED
    BY <2>3, <2>4 DEF Once
<1>2. IInv /\ OnceInv /\ [Next]_vars => OnceInv'
  <2> SUFFICES ASSUME IInv, OnceInv, [Next]_vars PROVE OnceInv'
    OBVIOUS
  <2>1. CASE threw = TRUE
    <3>1. threw' = threw \/ threw' = TRUE
      BY DEF Next, vars, Grow, Reorganise, Begin, LookForRecheck, InsertRecheck, Fill, FillFails,
             ExecFails, Throw, ListRechecks, Task, LoadBlock, CheckWebhook, CreateWebhook,
             RemoveRecheck, TaskFails, Finish, histories
    <3> QED
      BY <2>1, <3>1
  <2>2. CASE threw = FALSE /\ Once
    BY <2>2, NextKeepsOnce
  <2> QED
    BY <2>1, <2>2
<1>3. OnceInv => StoredAtMostOnce
  BY DEF Once, WebhooksFiled, StoredAtMostOnce
<1> QED
  BY <1>1, <1>2, <1>3, InitIsIInv, NextKeepsIInv, PTL DEF Spec
=============================================================================
