-------------------------- MODULE ManagedTransport --------------------------
(***************************************************************************)
(* How a call finds a node of its blockchain: loading of connections,      *)
(* health check and choice (fluence.lib.services/src/services/transports/  *)
(* managed.blockchain.transport.service.ts).                               *)
(*                                                                         *)
(* Every call first looks for connections created since the last search,   *)
(* then asks the reference node for its height, replacing a reference that *)
(* throws, then, when the last health check is old enough, asks the nodes  *)
(* one after another until one passes, and only then takes a transport.    *)
(* Calls run concurrently on the same fields.                              *)
(*                                                                         *)
(* A height is "low" or "high", far enough ahead for the check.  A list is *)
(* modelled without the repetitions it may hold: they only repeat a        *)
(* question, and never change which service is found first.                *)
(***************************************************************************)
EXTENDS Integers, Sequences, SequencesExt

CONSTANTS
  Connections, Public, TypeOf,   \* connections; the public ones; their transport id
  Initial,                \* the connections found by init, in order
  Wanted,                 \* the connections that calls name, None when they name none
  Calls,                  \* calls that can be in progress at once
  None, Rejected,         \* no connection, no answer yet; an error
  Answers,                \* what nodes may answer
  MaxTime                 \* bound on the clock

Heights == {"low", "high"}
Types == {TypeOf[c] : c \in Connections}
Time == 0 .. MaxTime

ASSUME ConnectionsAssumption ==
  IsFiniteSet(Connections) /\ Public \subseteq Connections /\ DOMAIN TypeOf = Connections
ASSUME InitialAssumption == Initial \in Seq(Connections) /\ IsInjective(Initial)
ASSUME WantedAssumption == Wanted \subseteq Connections \union {None}
ASSUME NoneAssumption == {None, Rejected} \cap Connections = {} /\ None # Rejected
ASSUME AnswersAssumption == Answers \subseteq Heights \union {"null", "throws"}
ASSUME TimeAssumption == MaxTime \in Nat \ {0}

VARIABLES
  clock,        \* the clock that stamps documents and searches
  doc,          \* the connection documents: stamped only, enabled, disabled
  loaded,       \* transportServices
  searchedAt,   \* lastTransportConnectionsSearchAt
  active,       \* activeTransports, by transport id
  checked,      \* has a health check been completed (lastCheckAt)
  reference,    \* the node whose height others are compared with
  settled,      \* from now on every node answers the same height
  call,         \* the calls in progress, and what the last one got
  lastRead,     \* history: the latest search whose query was answered
  exempt        \* history: connections a search cannot be asked to find

vars == <<clock, doc, loaded, searchedAt, active, checked, reference, settled, call, lastRead, exempt>>
world == <<clock, doc, settled, exempt>>
environment == <<world, lastRead>>
fields == <<loaded, searchedAt, active, checked, reference>>

Docs == [at : Time, status : {"stamped", "enabled", "disabled"}]

CallRecords ==
  [phase : {"idle", "search", "resolve", "find", "height", "check", "mark"},
   want : Wanted \union {None}, got : Connections \union {None, Rejected},
   now : Time, since : Time, found : SUBSET Connections,
   at : 0 .. Len(loaded), asked : Connections \union {None}, again : BOOLEAN, height : Heights \union {None}]

Idle ==
  [phase |-> "idle", want |-> None, got |-> None, now |-> 0, since |-> 0, found |-> {},
   at |-> 0, asked |-> None, again |-> FALSE, height |-> None]

TypeOK ==
  /\ clock \in Time
  /\ doc \in [Connections -> Docs \union {None}]
  /\ loaded \in Seq(Connections) /\ IsInjective(loaded)
  /\ searchedAt \in Time
  /\ active \in [Types -> BOOLEAN]
  /\ checked \in BOOLEAN
  /\ reference \in Connections \union {None}
  /\ settled \in BOOLEAN
  /\ call \in [Calls -> CallRecords]
  /\ lastRead \in Time /\ exempt \subseteq Connections

\* Faulty variant: the private services are not filtered out.
PublicsUnfiltered(services) == DOMAIN services

\* publicTransportServices, as their positions in the list of all services.
Publics(services) == {i \in DOMAIN services : services[i] \in Public}

\* After init: the connections enabled at that time are loaded and, if one
\* of the public ones answered, it is the reference.
Init ==
  /\ clock = 1 /\ searchedAt = 1 /\ lastRead = 1
  /\ doc = [c \in Connections |-> IF c \in ToSet(Initial) THEN [at |-> 0, status |-> "enabled"] ELSE None]
  /\ loaded = Initial
  /\ active = [t \in Types |-> FALSE]
  /\ checked = FALSE
  /\ reference \in {Initial[i] : i \in Publics(Initial)} \union {None}
  /\ settled = FALSE
  /\ call = [k \in Calls |-> Idle]
  /\ exempt = {}

-----------------------------------------------------------------------------
\* Outside the program: time passes, nodes recover.
Tick == clock < MaxTime /\ clock' = clock + 1 /\ UNCHANGED <<doc, settled, exempt, lastRead, fields, call>>

Settle ==
  /\ ~settled /\ settled' = TRUE
  /\ UNCHANGED <<clock, doc, exempt, lastRead, fields, call>>

\* What a node that is asked now may answer.
NodeAnswers == IF settled THEN {"low"} ELSE Answers

\* transport.connection.dao.ts: createdAt is taken before the insertion.
Stamp(c) ==
  /\ doc[c] = None
  /\ doc' = [doc EXCEPT ![c] = [at |-> clock, status |-> "stamped"]]
  /\ UNCHANGED <<clock, settled, exempt, lastRead, fields, call>>

Insert(c) ==
  /\ doc[c] # None /\ doc[c].status = "stamped"
  /\ doc' = [doc EXCEPT ![c].status = "enabled"]
  /\ exempt' = IF lastRead >= doc[c].at THEN exempt \union {c} ELSE exempt
  /\ UNCHANGED <<clock, settled, lastRead, fields, call>>

\* setStatus, or removal: the service is not told.  Documents that init had
\* found (at = 0) are left as they are: no later search looks so far back.
SetStatus(c, status) ==
  /\ doc[c] # None /\ doc[c].at > 0 /\ doc[c].status \notin {"stamped", status}
  /\ doc' = [doc EXCEPT ![c].status = status]
  /\ exempt' = exempt \union {c}
  /\ UNCHANGED <<clock, settled, lastRead, fields, call>>

-----------------------------------------------------------------------------
Answer(k, got) == call' = [call EXCEPT ![k] = [Idle EXCEPT !.want = call[k].want, !.got = got]]

Enter(k, want) ==
  /\ call[k].phase = "idle"
  /\ call' = [call EXCEPT ![k] =
       [Idle EXCEPT !.phase = "search", !.want = want, !.now = clock, !.since = searchedAt]]
  /\ UNCHANGED <<environment, fields>>

\* loadNewTransportConnections: the query is answered ...
Read(k) ==
  /\ call[k].phase = "search"
  /\ call' = [call EXCEPT ![k].phase = "resolve",
       ![k].found = {c \in Connections : doc[c] # None /\ doc[c].status = "enabled" /\ doc[c].at > call[k].since}]
  /\ lastRead' = IF call[k].now > lastRead THEN call[k].now ELSE lastRead
  /\ UNCHANGED <<world, fields>>

\* getActiveTransport starts with the first public service.
Find(k, again, services) ==
  IF Publics(services) = {} THEN Answer(k, Rejected)
  ELSE call' = [call EXCEPT ![k] =
         [Idle EXCEPT !.phase = "find", !.want = call[k].want, !.at = Min(Publics(services)), !.again = again]]

AskReference(k, c, again) ==
  call' = [call EXCEPT ![k] =
    [Idle EXCEPT !.phase = "height", !.want = call[k].want, !.asked = c, !.again = again]]

\* getReferenceBlockHeight
Reference(k, services) ==
  IF reference = None THEN Find(k, FALSE, services) ELSE AskReference(k, reference, FALSE)

\* Faulty variant: the search is stamped when it is over.
LoadStampedLate(k) ==
  /\ call[k].phase = "resolve"
  /\ \E new \in SetToSeqs(call[k].found \ ToSet(loaded)) :
       loaded' = loaded \o new /\ Reference(k, loaded \o new)
  /\ searchedAt' = clock
  /\ UNCHANGED <<environment, active, checked, reference>>

\* ... and what it found is added to the lists.
Load(k) ==
  /\ call[k].phase = "resolve"
  /\ \E new \in SetToSeqs(call[k].found \ ToSet(loaded)) :
       loaded' = loaded \o new /\ Reference(k, loaded \o new)
  /\ searchedAt' = call[k].now
  /\ UNCHANGED <<environment, active, checked, reference>>

\* The query fails: the error is logged and the call goes on.
SearchFails(k) ==
  /\ call[k].phase = "search"
  /\ Reference(k, loaded)
  /\ UNCHANGED <<environment, fields>>

\* One public service after another is asked; the first that answers a
\* height becomes the reference, and is asked once more.
FindNext(k) ==
  LET c == loaded[call[k].at]
      later == {i \in Publics(loaded) : i > call[k].at} IN
  /\ call[k].phase = "find"
  /\ \/ /\ NodeAnswers \cap Heights # {}
        /\ reference' = c /\ AskReference(k, c, call[k].again)
     \/ /\ NodeAnswers \ Heights # {}
        /\ IF later = {} THEN Answer(k, Rejected)
           ELSE call' = [call EXCEPT ![k].at = Min(later)]
        /\ UNCHANGED reference
  /\ UNCHANGED <<environment, loaded, searchedAt, active, checked>>

\* getActiveTransportService, after updateValid: find takes the first of these.
Usable(want) ==
  {i \in DOMAIN loaded :
     /\ IF want = None THEN i \in Publics(loaded) ELSE loaded[i] = want
     /\ active[TypeOf[loaded[i]]]}

Take(k) ==
  LET usable == Usable(call[k].want) IN
  Answer(k, IF usable = {} THEN Rejected ELSE loaded[Min(usable)])

\* Faulty variant: an answer of null is taken for a height.
HeightDueUnchecked(k) ==
  /\ call[k].phase = "height"
  /\ \E height \in NodeAnswers \ {"throws"} :
       call' = [call EXCEPT ![k] =
         [Idle EXCEPT !.phase = "check", !.want = call[k].want, !.at = 1, !.height = height]]
  /\ UNCHANGED <<environment, fields>>

\* Another height check follows when the last one is old enough (time is not
\* measured: before the first check it is always due, later it may be).
HeightDue(k) ==
  /\ call[k].phase = "height"
  /\ \E height \in NodeAnswers \cap Heights :
       call' = [call EXCEPT ![k] =
         [Idle EXCEPT !.phase = "check", !.want = call[k].want, !.at = 1, !.height = height]]
  /\ UNCHANGED <<environment, fields>>

HeightNotDue(k) ==
  /\ call[k].phase = "height" /\ NodeAnswers \cap Heights # {}
  /\ checked
  /\ Take(k)
  /\ UNCHANGED <<environment, fields>>

\* The reference throws: another one is looked for, once per call.
HeightThrows(k) ==
  /\ call[k].phase = "height" /\ "throws" \in NodeAnswers
  /\ IF call[k].again THEN Answer(k, Rejected) ELSE Find(k, TRUE, loaded)
  /\ UNCHANGED <<environment, fields>>

\* The reference answers null: the call is rejected, the reference stays.
HeightIsNull(k) ==
  /\ call[k].phase = "height" /\ "null" \in NodeAnswers
  /\ Answer(k, Rejected)
  /\ UNCHANGED <<environment, fields>>

\* A node that is not ahead makes its transport id active and ends the check.
Judge(k, ahead) ==
  /\ active' = [active EXCEPT ![TypeOf[loaded[call[k].at]]] = ~ahead]
  /\ IF ahead /\ call[k].at < Len(loaded) THEN call' = [call EXCEPT ![k].at = @ + 1]
     ELSE call' = [call EXCEPT ![k] = [Idle EXCEPT !.phase = "mark", !.want = call[k].want]]

\* Faulty variant: the comparison also fails nodes that are level.
CheckStrictly(k) ==
  /\ call[k].phase = "check"
  /\ \E answer \in NodeAnswers \ {"throws"} :
       Judge(k, answer = call[k].height \/ answer = "high")
  /\ UNCHANGED <<environment, loaded, searchedAt, checked, reference>>

\* The health check: a node passes unless it is too far ahead of the
\* reference; one that answers null passes.
Check(k) ==
  /\ call[k].phase = "check"
  /\ \E answer \in NodeAnswers \ {"throws"} :
       Judge(k, answer = "high" /\ call[k].height = "low")
  /\ UNCHANGED <<environment, loaded, searchedAt, checked, reference>>

\* The catch clause marks the transport id as inactive, then uses a constant
\* declared below it: the call is rejected, and the mark stays.
CheckThrows(k) ==
  /\ call[k].phase = "check" /\ "throws" \in NodeAnswers
  /\ active' = [active EXCEPT ![TypeOf[loaded[call[k].at]]] = FALSE]
  /\ Answer(k, Rejected)
  /\ UNCHANGED <<environment, loaded, searchedAt, checked, reference>>

\* setFailedByIds is done (nothing reads what it writes), and lastCheckAt set.
Mark(k) ==
  /\ call[k].phase = "mark"
  /\ checked' = TRUE
  /\ Take(k)
  /\ UNCHANGED <<environment, loaded, searchedAt, active, reference>>

MarkFails(k) ==
  /\ call[k].phase = "mark"
  /\ Answer(k, Rejected)
  /\ UNCHANGED <<environment, fields>>

Step(k) ==
  \/ Read(k) \/ Load(k) \/ SearchFails(k)
  \/ FindNext(k)
  \/ HeightDue(k) \/ HeightNotDue(k) \/ HeightThrows(k) \/ HeightIsNull(k)
  \/ Check(k) \/ CheckThrows(k)
  \/ Mark(k) \/ MarkFails(k)

Next ==
  \/ Tick \/ Settle
  \/ \E c \in Connections :
       \/ Stamp(c) \/ Insert(c)
       \/ \E status \in {"enabled", "disabled"} : SetStatus(c, status)
  \/ \E k \in Calls : Step(k) \/ \E want \in Wanted : Enter(k, want)

Spec == Init /\ [][Next]_vars

\* Fairness: calls keep coming and go on, the check interval ends again and
\* again, and from some time on the database does not refuse the check's
\* writes.
Fairness ==
  /\ \A k \in Calls :
       /\ WF_vars(Step(k))
       /\ WF_vars(\E want \in Wanted : Enter(k, want))
       /\ SF_vars(HeightDue(k))
FairSpec == Spec /\ Fairness /\ <>[][\A k \in Calls : MarkFails(k) => Mark(k)]_vars

-----------------------------------------------------------------------------
\* A connection that was inserted before any search later than its stamp was
\* answered, and was not switched since, is loaded, or newer than the next search
\* looks back: no overlap of searches, none that fails, and no creation
\* during a search makes the service miss it (the search is stamped before
\* its query, managed.blockchain.transport.service.ts:248).
EnabledConnectionIsLoaded ==
  \A c \in Connections \ exempt :
    (doc[c] # None /\ doc[c].status = "enabled") =>
      c \in ToSet(loaded) \/ doc[c].at > searchedAt

\* A private connection serves only the calls that name it, and no call
\* takes its node's height for the reference's, in whatever order lists are
\* loaded and references replaced (lines 228-238 and 267-292).
PrivateServesItsOwner ==
  /\ reference \in Public \union {None}
  /\ \A k \in Calls :
       /\ call[k].asked \in Public \union {None}
       /\ call[k].got \in Connections \ Public => call[k].want = call[k].got

\* Once all nodes answer the same height for good, then from some time
\* on no call is rejected, whatever reference, marks and lists were left
\* behind -- except for connections that are not loaded, and for those of
\* another transport id than the first node's, which the check never gets to.
RecoversWhenNodesAnswer ==
  <>settled =>
    \A k \in Calls :
      <>[](call[k].got = Rejected =>
             \/ call[k].want # None /\ call[k].want \notin ToSet(loaded)
             \/ LET t == TypeOf[Head(loaded)] IN
                IF call[k].want = None THEN \A i \in Publics(loaded) : TypeOf[loaded[i]] # t
                ELSE TypeOf[call[k].want] # t)
=============================================================================
