------------------------- MODULE StatusPropagation -------------------------
(***************************************************************************)
(* How the status of a client or a project reaches its subscriptions, its  *)
(* blockchain setups and their private connections                         *)
(* (fluence.lib.services/src/services/object/client.service.ts,            *)
(* project.service.ts, project.blockchain.setup.service.ts and their DAOs).*)
(*                                                                         *)
(* A request sends all its database calls at once (Promise.all) and none   *)
(* of them is part of a transaction: they land in any order.  The request  *)
(* is answered when all have landed, or as soon as one is refused; those   *)
(* still on their way then land later, when the caller may already have    *)
(* asked for something else.                                               *)
(***************************************************************************)
EXTENDS Integers, FiniteSets

CONSTANTS
  Clients, Projects, ClientOf,      \* ClientOf[p]: the client of a project
  Subs, KindOf, ProjectOf,          \* subscriptions that can be created
  Setups, Conns, InitialSetups,     \* setup ids, private connections
  Callers, NoCaller,                \* requests that can be open at once
  None,                             \* no setup, no connection, no value
  CanFail,                          \* may the database refuse a call
  MaxLate                           \* bound: calls that rejected requests
                                    \* have left behind at any time

Kinds == {"address", "transaction", "contract", "oraclize", "fabric"}

ASSUME ClientsAssumption == ClientOf \in [Projects -> Clients]
ASSUME SubsAssumption == KindOf \in [Subs -> Kinds] /\ ProjectOf \in [Subs -> Projects]
ASSUME NoneAssumption ==
  None \notin BOOLEAN /\ None \notin Conns /\ NoCaller \notin Callers /\ CanFail \in BOOLEAN
ASSUME MaxLateAssumption == MaxLate \in Nat
\* The ids of documents are those the database gives: no two are the same.
ASSUME IdsAssumption ==
  /\ Clients \cap Projects = {} /\ Setups \cap (Clients \union Projects \union Conns) = {}
  /\ Conns \cap (Clients \union Projects) = {}

\* A call to a collection that holds no document at all is left out.
Collections == {KindOf[s] : s \in Subs}

VARIABLES
  client,     \* is the status of each client Active
  project,    \* status and isRemoved of each project
  sub,        \* the two copied flags of each subscription, or None
  setup,      \* the blockchain setup stored under each id, or None
  conn,       \* the private connections: enabled, disabled or gone
  call,       \* the open requests
  effects,    \* database calls on their way
  told        \* history: what the last undisturbed request about a facet
              \* was told to have been done

vars == <<client, project, sub, setup, conn, call, effects, told>>
data == <<client, project, sub, setup, conn>>

Flags == [isProjectActive : BOOLEAN \union {None}, isClientActive : BOOLEAN \union {None}]
SetupRows == [project : Projects, conn : Conns \union {None}, on : BOOLEAN]

\* No two of the setups at the start share a connection (createSetup).
ASSUME SetupsAssumption ==
  /\ None \notin SetupRows /\ InitialSetups \in [Setups -> SetupRows \union {None}]
  /\ \A u, v \in Setups :
       (InitialSetups[u] # None /\ InitialSetups[v] # None /\ InitialSetups[u].conn # None
         /\ InitialSetups[u].conn = InitialSetups[v].conn) => u = v

\* What one request can be about.
Facets == ({"client"} \X Clients) \union ({"project", "setups"} \X Projects)

Requests == [open : BOOLEAN, facets : SUBSET Facets, to : BOOLEAN, clean : BOOLEAN]
Closed == [open |-> FALSE, facets |-> {}, to |-> FALSE, clean |-> FALSE]

\* One database call: what it does, in the collection of which kind, to
\* which documents, with which value; on behalf of whom.
Effects ==
  [do : {"client", "project", "isClientActive", "isProjectActive", "removeProject", "setups",
         "listSetups", "setup", "readSetup", "conns", "readToRemove", "listToRemove",
         "removeSetups", "removeConns", "insertSetup"},
   kind : Kinds \union {None},
   of : SUBSET (Clients \union Projects \union Setups \union Conns),
   to : BOOLEAN, facet : Facets, by : Callers \union {NoCaller}]

TypeOK ==
  /\ client \in [Clients -> BOOLEAN]
  /\ project \in [Projects -> [active : BOOLEAN, removed : BOOLEAN]]
  /\ sub \in [Subs -> Flags \union {None}]
  /\ setup \in [Setups -> SetupRows \union {None}]
  /\ conn \in [Conns -> {"enabled", "disabled", "gone"}]
  /\ call \in [Callers -> Requests]
  /\ effects \subseteq Effects
  /\ told \in [Facets -> BOOLEAN \union {None}]

\* Clients are created active, projects with the status they are given.
Init ==
  /\ client = [c \in Clients |-> TRUE]
  /\ project \in [Projects -> [active : BOOLEAN, removed : {FALSE}]]
  /\ sub = [s \in Subs |-> None]
  /\ setup = InitialSetups
  /\ conn = [n \in Conns |-> "enabled"]
  /\ call = [k \in Callers |-> Closed]
  /\ effects = {}
  /\ told = [f \in Facets |-> None]

-----------------------------------------------------------------------------
Effect(do, kind, of, to, facet, k) ==
  [do |-> do, kind |-> kind, of |-> of, to |-> to, facet |-> facet, by |-> k]

\* A request begins.  It is clean when nothing else is on its way for the
\* same facets, and it disturbs the requests that are.
Begin(k, facets, to, tells, sent) ==
  /\ ~call[k].open
  /\ call' = [j \in Callers |->
       IF j = k THEN [open |-> TRUE, facets |-> facets, to |-> to,
                      clean |-> tells /\ \A e \in effects : e.facet \notin facets]
       ELSE [call[j] EXCEPT !.clean = @ /\ call[j].facets \cap facets = {}]]
  /\ told' = [f \in Facets |-> IF f \in facets THEN None ELSE told[f]]
  /\ effects' = effects \union sent
  /\ UNCHANGED data

\* ClientService.setStatus.  The fabric service is called with the client's
\* id in the place of a project's, so no document of its collection matches.
ClientSetStatus(k, c, to) ==
  LET f == <<"client", c>> IN
  Begin(k, {f}, to, TRUE,
    {Effect("client", None, {c}, to, f, k)}
      \union {Effect(IF kind = "fabric" THEN "isProjectActive" ELSE "isClientActive",
                     kind, {c}, to, f, k) : kind \in Collections})

\* Faulty variant: one of the five services is left out.
ProjectFlagsIncomplete(k, p, to) ==
  {Effect("isProjectActive", kind, {p}, to, <<"project", p>>, k) : kind \in Collections \ {"contract"}}

ProjectFlags(k, p, to) ==
  {Effect("isProjectActive", kind, {p}, to, <<"project", p>>, k) : kind \in Collections}

\* ProjectBlockchainSetupService.setStatusByProjectId: the setups are
\* updated and listed at the same time.
SetupsOfProject(k, p, to) ==
  {Effect(do, None, {p}, to, <<"setups", p>>, k) : do \in {"setups", "listSetups"}}

\* ProjectService.setStatus
ProjectSetStatus(k, p, to) ==
  Begin(k, {<<"project", p>>, <<"setups", p>>}, to, TRUE,
    {Effect("project", None, {p}, to, <<"project", p>>, k)}
      \union ProjectFlags(k, p, to) \union SetupsOfProject(k, p, to))

\* ProjectService.setNameAndWebhookUrlAndStatus leaves the setups alone.
ProjectSetNameAndStatus(k, p, to) ==
  Begin(k, {<<"project", p>>}, to, TRUE,
    {Effect("project", None, {p}, to, <<"project", p>>, k)} \union ProjectFlags(k, p, to))

\* ProjectService.removeProject leaves the subscriptions alone.
RemoveProject(k, p) ==
  Begin(k, {<<"setups", p>>}, FALSE, TRUE,
    {Effect("removeProject", None, {p}, TRUE, <<"setups", p>>, k)} \union SetupsOfProject(k, p, FALSE))

\* The setup service's own operations.  They concern one project at a time,
\* and nothing is told about all of its setups.
OnSetups(k, p, to, sent) == Begin(k, {<<"setups", p>>}, to, FALSE, sent)

HasSetup(n) == \E u \in Setups : setup[u] # None /\ setup[u].conn = n

\* Faulty variant: an existing setup is not looked for.
CreateSetupUnchecked(k, u, p, n) ==
  /\ setup[u] = None /\ \A e \in effects : e.do = "insertSetup" => u \notin e.of
  /\ n \in Conns => conn[n] # "gone"
  /\ OnSetups(k, p, TRUE, {Effect("insertSetup", None, {u, n} \ {None}, TRUE, <<"setups", p>>, k)})

\* createSetup, for a connection that exists: a setup with the same connection -- or, for a setup without
\* one, any other without -- makes it throw; the insertion comes after.
CreateSetup(k, u, p, n) ==
  /\ setup[u] = None /\ \A e \in effects : e.do = "insertSetup" => u \notin e.of
  /\ n \in Conns => conn[n] # "gone"
  /\ ~HasSetup(n)
  /\ OnSetups(k, p, TRUE, {Effect("insertSetup", None, {u, n} \ {None}, TRUE, <<"setups", p>>, k)})

SetupSetStatus(k, u, to) ==
  /\ setup[u] # None
  /\ LET p == setup[u].project IN
     OnSetups(k, p, to, {Effect(do, None, {u}, to, <<"setups", p>>, k) : do \in {"setup", "readSetup"}})

RemoveSetup(k, u) ==
  /\ setup[u] # None
  /\ LET p == setup[u].project IN
     OnSetups(k, p, FALSE, {Effect("readToRemove", None, {u}, FALSE, <<"setups", p>>, k)})

RemoveSetups(k, p) ==
  OnSetups(k, p, FALSE, {Effect("listToRemove", None, {p}, FALSE, <<"setups", p>>, k)})

\* createSubscription of the five services, with one insertion, whatever the client's and the
\* project's status.  Only the address subscription has all its flags set.
NewFlags(s) ==
  [isProjectActive |-> IF KindOf[s] = "address" THEN TRUE ELSE None,
   isClientActive  |-> IF KindOf[s] = "address" THEN TRUE ELSE None]

About(s) == {<<"client", ClientOf[ProjectOf[s]]>>, <<"project", ProjectOf[s]>>}

CreateSubscription(s) ==
  /\ sub[s] = None
  /\ sub' = [sub EXCEPT ![s] = NewFlags(s)]
  /\ call' = [k \in Callers |-> [call[k] EXCEPT !.clean = @ /\ call[k].facets \cap About(s) = {}]]
  /\ told' = [f \in Facets |-> IF f \in About(s) THEN None ELSE told[f]]
  /\ UNCHANGED <<client, project, setup, conn, effects>>

-----------------------------------------------------------------------------
\* A database call lands.
Land(e) == e \in effects /\ effects' = effects \ {e} /\ UNCHANGED <<call, told>>

\* Faulty variant: the project's status is handed on untranslated.
SwitchUntranslated(on) == IF on THEN "ACTIVE" ELSE "INACTIVE"

\* The status of a connection that goes with that of its setup.
Switch(on) == IF on THEN "enabled" ELSE "disabled"

WriteClient(e) ==
  /\ e.do = "client"
  /\ client' = [c \in Clients |-> IF c \in e.of THEN e.to ELSE client[c]]
  /\ Land(e) /\ UNCHANGED <<project, sub, setup, conn>>

WriteProject(e) ==
  /\ e.do \in {"project", "removeProject"}
  /\ project' = [p \in Projects |->
       IF p \notin e.of THEN project[p]
       ELSE IF e.do = "project" THEN [project[p] EXCEPT !.active = e.to]
       ELSE [project[p] EXCEPT !.removed = TRUE]]
  /\ Land(e) /\ UNCHANGED <<client, sub, setup, conn>>

WriteFlags(e) ==
  /\ e.do \in {"isClientActive", "isProjectActive"}
  /\ sub' = [s \in Subs |->
       IF sub[s] = None \/ KindOf[s] # e.kind THEN sub[s]
       ELSE IF e.do = "isClientActive" /\ ClientOf[ProjectOf[s]] \in e.of
            THEN [sub[s] EXCEPT !.isClientActive = e.to]
       ELSE IF e.do = "isProjectActive" /\ ProjectOf[s] \in e.of
            THEN [sub[s] EXCEPT !.isProjectActive = e.to]
       ELSE sub[s]]
  /\ Land(e) /\ UNCHANGED <<client, project, setup, conn>>

Touches(e, u) == setup[u] # None /\ (u \in e.of \/ setup[u].project \in e.of)

WriteSetups(e) ==
  /\ e.do \in {"setups", "setup", "removeSetups", "insertSetup"}
  /\ setup' = [u \in Setups |->
       IF e.do = "insertSetup" /\ u \in e.of
       THEN [project |-> e.facet[2], on |-> TRUE,
             conn |-> IF e.of \cap Conns = {} THEN None ELSE CHOOSE n \in e.of \cap Conns : TRUE]
       ELSE IF ~Touches(e, u) THEN setup[u]
       ELSE IF e.do = "removeSetups" THEN None
       ELSE [setup[u] EXCEPT !.on = e.to]]
  /\ Land(e) /\ UNCHANGED <<client, project, sub, conn>>

WriteConns(e) ==
  /\ e.do \in {"conns", "removeConns"}
  /\ conn' = [n \in Conns |-> IF n \notin e.of \/ conn[n] = "gone" THEN conn[n]
                              ELSE IF e.do = "conns" THEN Switch(e.to) ELSE "gone"]
  /\ Land(e) /\ UNCHANGED <<client, project, sub, setup>>

\* A setup, or those of a project, has been read; the calls that depend on
\* it are sent.
Reads == {"listSetups", "readSetup", "readToRemove", "listToRemove"}

Found(e) == {u \in Setups : Touches(e, u)}

FollowUps(e) ==
  LET held == {setup[u].conn : u \in Found(e)} \ {None}
      send(do, of) == {[e EXCEPT !.do = do, !.of = of]}
      removing == e.do \in {"readToRemove", "listToRemove"}
  IN  (IF held = {} THEN {} ELSE send(IF removing THEN "removeConns" ELSE "conns", held))
        \union (IF removing THEN send("removeSetups", e.of) ELSE {})

ReadSetups(e) ==
  /\ e.do \in Reads /\ e \in effects
  /\ e.do \in {"readSetup", "readToRemove"} => Found(e) # {}
  /\ effects' = (effects \ {e}) \union FollowUps(e)
  /\ UNCHANGED <<data, call, told>>

\* Faulty variant: the calls are not awaited.
ReturnAtOnce(k) ==
  /\ call[k].open
  /\ told' = [f \in Facets |->
       IF call[k].clean /\ f \in call[k].facets THEN call[k].to ELSE told[f]]
  /\ call' = [call EXCEPT ![k] = Closed]
  /\ effects' = {IF e.by = k THEN [e EXCEPT !.by = NoCaller] ELSE e : e \in effects}
  /\ UNCHANGED data

\* All calls of a request have landed.
Return(k) ==
  /\ call[k].open
  /\ \A e \in effects : e.by # k
  /\ told' = [f \in Facets |->
       IF call[k].clean /\ f \in call[k].facets THEN call[k].to ELSE told[f]]
  /\ call' = [call EXCEPT ![k] = Closed]
  /\ UNCHANGED <<data, effects>>

\* A call is refused, or the setup that was to be read is gone: the request
\* is rejected, and the calls it sent go on without it.
Refuse(e) ==
  /\ e \in effects
  /\ CanFail \/ (e.do \in {"readSetup", "readToRemove"} /\ Found(e) = {})
  /\ effects' = {IF d.by = e.by THEN [d EXCEPT !.by = NoCaller] ELSE d : d \in effects \ {e}}
  /\ Cardinality({d \in effects \ {e} : d.by \in {e.by, NoCaller}}) <= MaxLate
  /\ call' = [k \in Callers |-> IF k = e.by THEN Closed ELSE call[k]]
  /\ UNCHANGED <<data, told>>

Ask(k) ==
  \/ \E to \in BOOLEAN :
       \/ \E c \in Clients : ClientSetStatus(k, c, to)
       \/ \E p \in Projects : ProjectSetStatus(k, p, to) \/ ProjectSetNameAndStatus(k, p, to)
       \/ \E u \in Setups : SetupSetStatus(k, u, to)
  \/ \E p \in Projects : RemoveProject(k, p) \/ RemoveSetups(k, p)
  \/ \E u \in Setups : RemoveSetup(k, u)
  \/ \E u \in Setups, p \in Projects, n \in Conns \union {None} : CreateSetup(k, u, p, n)

Next ==
  \/ \E k \in Callers : Ask(k) \/ Return(k)
  \/ \E s \in Subs : CreateSubscription(s)
  \/ \E e \in effects :
       \/ WriteClient(e) \/ WriteProject(e) \/ WriteFlags(e) \/ WriteSetups(e) \/ WriteConns(e)
       \/ ReadSetups(e)
       \/ Refuse(e)

Spec == Init /\ [][Next]_vars

-----------------------------------------------------------------------------
\* What a caller who was told that a status is set may rely on.
ClientShows(c, on) ==
  /\ client[c] = on
  /\ \A s \in Subs : (sub[s] # None /\ ClientOf[ProjectOf[s]] = c /\ KindOf[s] # "fabric")
                       => sub[s].isClientActive = on

ProjectShows(p, on) ==
  /\ project[p].active = on
  /\ \A s \in Subs : (sub[s] # None /\ ProjectOf[s] = p) => sub[s].isProjectActive = on

SetupsShow(p, on) ==
  \A u \in Setups : (setup[u] # None /\ setup[u].project = p) =>
    /\ setup[u].on = on
    /\ setup[u].conn # None => conn[setup[u].conn] \in {Switch(on), "gone"}

\* When a request has been answered and nothing else has concerned its
\* facets since it began (no request, no new subscription), every document
\* it is about shows what was asked, whatever earlier requests were refused
\* halfway: asking again repairs them.  (FIXMEs at project.service.ts:200
\* and project.blockchain.setup.service.ts:90, 120, 134, 152 ask for a
\* transaction.)  The fabric subscriptions of a client are left out because
\* client.service.ts:145 does not reach them.
AnsweredTakesEffect ==
  \A f \in Facets : told[f] # None =>
    CASE f[1] = "client"  -> ClientShows(f[2], told[f])
      [] f[1] = "project" -> ProjectShows(f[2], told[f])
      [] f[1] = "setups"  -> SetupsShow(f[2], told[f])

\* One request after another and none refused: a private connection is
\* switched or removed only for the project whose setup holds it, although
\* the connections to change were listed before the change.
ConnectionsFollowTheirOwner ==
  [][\A n \in Conns : conn'[n] # conn[n] =>
       \E e \in effects \ effects' :
         \A u \in Setups : (setup[u] # None /\ setup[u].conn = n) => setup[u].project = e.facet[2]]_vars
=============================================================================
