----------------------- MODULE StatusPropagationProofs -----------------------
(***************************************************************************)
(* Proofs about StatusPropagation for any sets of documents and callers.   *)
(***************************************************************************)
EXTENDS StatusPropagation, TLAPS

-----------------------------------------------------------------------------
(* The invariant *)

\* What a database call of each kind is about.
Shaped(e) ==
  /\ e.do \in {"client", "isClientActive"} =>
       \E c \in Clients : e.of = {c} /\ e.facet = <<"client", c>>
  /\ e.do = "project" => \E p \in Projects : e.of = {p} /\ e.facet = <<"project", p>>
  /\ e.do = "isProjectActive" =>
       \/ \E p \in Projects : e.of = {p} /\ e.facet = <<"project", p>>
       \/ \E c \in Clients : e.of = {c} /\ e.facet = <<"client", c>>
  /\ e.do \notin {"client", "isClientActive", "project", "isProjectActive"} =>
       \E p \in Projects : e.facet = <<"setups", p>> /\ e.of \subseteq {p} \union Setups \union Conns
  /\ e.do \in {"conns", "removeConns"} => e.of \subseteq Conns

EffectsShaped == \A e \in effects : Shaped(e)

\* Who is owed that a facet shows a value: a caller who was told so, or one
\* whose request nothing has disturbed.
Asks(k, f) == call[k].open = TRUE /\ call[k].clean = TRUE /\ f \in call[k].facets
Claim(f, to) == told[f] = to \/ \E k \in Callers : Asks(k, f) /\ call[k].to = to

\* Nothing is on its way for a facet that somebody was told about, and only
\* an undisturbed request's own calls for one that it asks for.
Quiet == \A f \in Facets : told[f] # None => \A e \in effects : e.facet # f
SoleAsker ==
  \A k \in Callers, f \in Facets : Asks(k, f) => \A e \in effects : e.facet = f => e.by = k

\* The calls of undisturbed requests.
Lasting ==
  {"client", "isClientActive", "project", "isProjectActive", "setups", "listSetups", "conns",
   "removeProject"}

Agreed(f, to) ==
  \A e \in effects : e.facet = f => e.do \in Lasting /\ (e.do = "removeProject" \/ e.to = to)

Agreement == \A f \in Facets, to \in BOOLEAN : Claim(f, to) => Agreed(f, to)

\* Each document shows the value, or the call that sets it is on its way.
Sent(do, kind, of, f) ==
  \E e \in effects : e.do = do /\ e.kind = kind /\ e.of = of /\ e.facet = f

ClientDue(c, to) ==
  /\ client[c] = to \/ Sent("client", None, {c}, <<"client", c>>)
  /\ \A s \in Subs : (sub[s] # None /\ ClientOf[ProjectOf[s]] = c /\ KindOf[s] # "fabric") =>
       sub[s].isClientActive = to \/ Sent("isClientActive", KindOf[s], {c}, <<"client", c>>)

ProjectDue(p, to) ==
  /\ project[p].active = to \/ Sent("project", None, {p}, <<"project", p>>)
  /\ \A s \in Subs : (sub[s] # None /\ ProjectOf[s] = p) =>
       sub[s].isProjectActive = to \/ Sent("isProjectActive", KindOf[s], {p}, <<"project", p>>)

ClientsDue == \A c \in Clients, to \in BOOLEAN : Claim(<<"client", c>>, to) => ClientDue(c, to)
ProjectsDue == \A p \in Projects, to \in BOOLEAN : Claim(<<"project", p>>, to) => ProjectDue(p, to)

FlagsInv ==
  TypeOK /\ EffectsShaped /\ Quiet /\ SoleAsker /\ Agreement /\ ClientsDue /\ ProjectsDue

-----------------------------------------------------------------------------
(* Requests *)

LEMMA FacetFacts ==
  /\ \A c \in Clients : <<"client", c>> \in Facets
  /\ \A p \in Projects : <<"project", p>> \in Facets /\ <<"setups", p>> \in Facets
BY DEF Facets

\* What requests send: calls of their own, about their facets.
Sends(k, facets, sent) ==
  \A e \in sent : e \in Effects /\ Shaped(e) /\ e.facet \in facets /\ e.by = k

\* A request that tells its caller something only sends calls that set it,
\* and all of those it takes.
Sets(to, tells, sent) ==
  tells = TRUE => \A e \in sent : e.do \in Lasting /\ (e.do = "removeProject" \/ e.to = to)

Suffices(facets, to, tells) ==
  /\ \A c \in Clients : (tells = TRUE /\ <<"client", c>> \in facets) => ClientDue(c, to)'
  /\ \A p \in Projects : (tells = TRUE /\ <<"project", p>> \in facets) => ProjectDue(p, to)'

LEMMA BeginTypes ==
  ASSUME TypeOK, NEW k \in Callers, NEW facets, facets \subseteq Facets, NEW to \in BOOLEAN,
         NEW tells \in BOOLEAN, NEW sent, Sends(k, facets, sent), Begin(k, facets, to, tells, sent)
  PROVE  TypeOK'
<1>1. told' \in [Facets -> BOOLEAN \union {None}]
  BY DEF Begin, TypeOK
<1>2. effects' \subseteq Effects
  BY DEF Begin, TypeOK, Sends
<1>3. call' \in [Callers -> Requests]
  BY DEF Begin, TypeOK, Requests
<1> QED
  BY <1>1, <1>2, <1>3 DEF Begin, TypeOK, data

\* What a request does to the claims of the others.
CallsOnly(k, facets, to, tells) ==
  /\ \A f \in facets : Asks(k, f)' => (tells = TRUE /\ \A e \in effects : e.facet # f)
  /\ call'[k].to = to
  /\ \A f \in Facets : Asks(k, f)' => f \in facets
  /\ \A j \in Callers \ {k}, f \in Facets : Asks(j, f)' => Asks(j, f) /\ f \notin facets
  /\ \A j \in Callers \ {k} : call'[j].to = call[j].to
  /\ \A f \in Facets : told'[f] = IF f \in facets THEN None ELSE told[f]

ClaimsOnly(facets, to, tells) ==
  \A f \in Facets, on \in BOOLEAN : Claim(f, on)' =>
    \/ f \notin facets /\ Claim(f, on)
    \/ f \in facets /\ on = to /\ tells = TRUE /\ \A e \in effects : e.facet # f

LEMMA BeginCalls ==
  ASSUME TypeOK, NEW k \in Callers, NEW facets, facets \subseteq Facets, NEW to \in BOOLEAN,
         NEW tells \in BOOLEAN, NEW sent, Begin(k, facets, to, tells, sent)
  PROVE  CallsOnly(k, facets, to, tells)
<1>1. \A j \in Callers : call[j] \in Requests
  BY DEF TypeOK
<1>2. \A j \in Callers \ {k} :
        /\ call'[j].open = call[j].open /\ call'[j].facets = call[j].facets /\ call'[j].to = call[j].to
        /\ call'[j].clean = (call[j].clean /\ call[j].facets \cap facets = {})
  BY <1>1 DEF Begin, Requests
<1>3. /\ call'[k].facets = facets /\ call'[k].to = to
      /\ call'[k].clean = (tells /\ \A e \in effects : e.facet \notin facets)
  BY DEF Begin
<1>4. \A j \in Callers \ {k}, f \in Facets : Asks(j, f)' => Asks(j, f) /\ f \notin facets
  <2> SUFFICES ASSUME NEW j \in Callers \ {k}, NEW f \in Facets, Asks(j, f)'
               PROVE  Asks(j, f) /\ f \notin facets
    OBVIOUS
  <2>1. call'[j].open = TRUE /\ call'[j].clean = TRUE /\ f \in call'[j].facets
    BY DEF Asks
  <2>2. call[j].clean /\ call[j].facets \cap facets = {}
    BY <1>2, <2>1
  <2>3. call[j].clean = TRUE
    BY <1>1, <2>2 DEF Requests
  <2> QED
    BY <1>2, <2>1, <2>2, <2>3 DEF Asks
<1>5. \A f \in facets : Asks(k, f)' => (tells = TRUE /\ \A e \in effects : e.facet # f)
  BY <1>3 DEF Asks
<1>6. \A f \in Facets : Asks(k, f)' => f \in facets
  BY <1>3 DEF Asks
<1>7. \A f \in Facets : told'[f] = IF f \in facets THEN None ELSE told[f]
  BY DEF Begin
<1> QED
  BY <1>2, <1>3, <1>4, <1>5, <1>6, <1>7 DEF CallsOnly

\* A request makes no claim but its own, and takes back those about its facets.
LEMMA BeginClaims ==
  ASSUME TypeOK, NEW k \in Callers, NEW facets, facets \subseteq Facets, NEW to \in BOOLEAN,
         NEW tells \in BOOLEAN, NEW sent, Begin(k, facets, to, tells, sent)
  PROVE  ClaimsOnly(facets, to, tells)
<1> SUFFICES ASSUME NEW f \in Facets, NEW on \in BOOLEAN, Claim(f, on)'
             PROVE  \/ f \notin facets /\ Claim(f, on)
                    \/ f \in facets /\ on = to /\ tells = TRUE /\ \A e \in effects : e.facet # f
  BY DEF ClaimsOnly
<1>0. CallsOnly(k, facets, to, tells)
  BY BeginCalls
<1>1. CASE told'[f] = on
  BY <1>1, <1>0, NoneAssumption DEF Claim, CallsOnly
<1>2. CASE \E j \in Callers : Asks(j, f)' /\ call'[j].to = on
  <2>1. PICK j \in Callers : Asks(j, f)' /\ call'[j].to = on
    BY <1>2
  <2>2. CASE j = k
    BY <1>0, <2>1, <2>2 DEF CallsOnly
  <2>3. CASE j # k
    BY <1>0, <2>1, <2>3 DEF Claim, CallsOnly
  <2> QED
    BY <2>2, <2>3
<1> QED
  BY <1>1, <1>2 DEF Claim

LEMMA BeginKeepsQuiet ==
  ASSUME TypeOK, Quiet, SoleAsker, Agreement,
         NEW k \in Callers, NEW facets, facets \subseteq Facets, NEW to \in BOOLEAN,
         NEW tells \in BOOLEAN, NEW sent, Sends(k, facets, sent),
         Sets(to, tells, sent),
         Begin(k, facets, to, tells, sent)
  PROVE  Quiet' /\ SoleAsker' /\ Agreement'
<1>0. CallsOnly(k, facets, to, tells)
  BY BeginCalls
<1>00. ClaimsOnly(facets, to, tells)
  BY BeginClaims
<1>1. effects' = effects \union sent
  BY DEF Begin
<1>2. Quiet'
  BY <1>0, <1>1 DEF Quiet, Sends, CallsOnly
<1>3. SoleAsker'
  <2> SUFFICES ASSUME NEW j \in Callers, NEW f \in Facets, Asks(j, f)',
                      NEW e \in effects', e.facet = f
               PROVE  e.by = j
    BY DEF SoleAsker
  <2>1. CASE j = k
    BY <1>0, <1>1, <2>1 DEF Sends, CallsOnly
  <2>2. CASE j # k
    BY <1>0, <1>1, <2>2 DEF SoleAsker, Sends, CallsOnly
  <2> QED
    BY <2>1, <2>2
<1>4. Agreement'
  <2> SUFFICES ASSUME NEW f \in Facets, NEW on \in BOOLEAN, Claim(f, on)',
                      NEW e \in effects', e.facet = f
               PROVE  e.do \in Lasting /\ (e.do = "removeProject" \/ e.to = on)
    BY DEF Agreement, Agreed
  <2>1. CASE f \notin facets /\ Claim(f, on)
    BY <1>1, <2>1 DEF Agreement, Agreed, Sends
  <2>2. CASE f \in facets /\ on = to /\ tells = TRUE /\ \A d \in effects : d.facet # f
    BY <1>1, <2>2 DEF Sends, Sets
  <2> QED
    BY <1>00, <2>1, <2>2 DEF ClaimsOnly
<1> QED
  BY <1>2, <1>3, <1>4

LEMMA BeginKeepsDues ==
  ASSUME TypeOK, ClientsDue, ProjectsDue,
         NEW k \in Callers, NEW facets, facets \subseteq Facets, NEW to \in BOOLEAN,
         NEW tells \in BOOLEAN, NEW sent, Begin(k, facets, to, tells, sent), Suffices(facets, to, tells)
  PROVE  ClientsDue' /\ ProjectsDue'
<1>0. ClaimsOnly(facets, to, tells)
  BY BeginClaims
<1>1. effects' = effects \union sent /\ UNCHANGED data
  BY DEF Begin
<1>2. \A do, kind, of, f : Sent(do, kind, of, f) => Sent(do, kind, of, f)'
  BY <1>1 DEF Sent
<1>3. ClientsDue'
  <2> SUFFICES ASSUME NEW c \in Clients, NEW on \in BOOLEAN, Claim(<<"client", c>>, on)'
               PROVE  ClientDue(c, on)'
    BY DEF ClientsDue
  <2>1. CASE <<"client", c>> \notin facets /\ Claim(<<"client", c>>, on)
    <3>1. ClientDue(c, on)
      BY <2>1 DEF ClientsDue
    <3> QED
      BY <1>1, <1>2, <3>1 DEF ClientDue, data
  <2>2. CASE <<"client", c>> \in facets /\ on = to /\ tells = TRUE
    BY <2>2 DEF Suffices
  <2> QED
    BY <2>1, <2>2, <1>0, FacetFacts DEF ClaimsOnly
<1>4. ProjectsDue'
  <2> SUFFICES ASSUME NEW p \in Projects, NEW on \in BOOLEAN, Claim(<<"project", p>>, on)'
               PROVE  ProjectDue(p, on)'
    BY DEF ProjectsDue
  <2>1. CASE <<"project", p>> \notin facets /\ Claim(<<"project", p>>, on)
    <3>1. ProjectDue(p, on)
      BY <2>1 DEF ProjectsDue
    <3> QED
      BY <1>1, <1>2, <3>1 DEF ProjectDue, data
  <2>2. CASE <<"project", p>> \in facets /\ on = to /\ tells = TRUE
    BY <2>2 DEF Suffices
  <2> QED
    BY <2>1, <2>2, <1>0, FacetFacts DEF ClaimsOnly
<1> QED
  BY <1>3, <1>4

LEMMA BeginKeepsFlagsInv ==
  ASSUME FlagsInv, NEW k \in Callers, NEW facets, facets \subseteq Facets, NEW to \in BOOLEAN,
         NEW tells \in BOOLEAN, NEW sent, Sends(k, facets, sent),
         Sets(to, tells, sent),
         Begin(k, facets, to, tells, sent), Suffices(facets, to, tells)
  PROVE  FlagsInv'
<1>1. TypeOK'
  BY BeginTypes DEF FlagsInv
<1>2. Quiet' /\ SoleAsker' /\ Agreement'
  BY BeginKeepsQuiet DEF FlagsInv
<1>3. ClientsDue' /\ ProjectsDue'
  BY BeginKeepsDues DEF FlagsInv
<1>4. EffectsShaped'
  BY DEF FlagsInv, EffectsShaped, Begin, Sends
<1> QED
  BY <1>1, <1>2, <1>3, <1>4 DEF FlagsInv

LEMMA ClientSetStatusKeepsFlagsInv ==
  ASSUME FlagsInv, NEW k \in Callers, NEW c \in Clients, NEW to \in BOOLEAN, ClientSetStatus(k, c, to)
  PROVE  FlagsInv'
<1> DEFINE f == <<"client", c>>
           sent == {Effect("client", None, {c}, to, f, k)}
                     \union {Effect(IF kind = "fabric" THEN "isProjectActive" ELSE "isClientActive",
                                    kind, {c}, to, f, k) : kind \in Collections}
<1>1. Begin(k, {f}, to, TRUE, sent)
  BY DEF ClientSetStatus
<1>2. f \in Facets /\ {f} \subseteq Facets
  BY FacetFacts
<1>3. Sends(k, {f}, sent)
  <2>1. Collections \subseteq Kinds
    BY SubsAssumption DEF Collections
  <2> SUFFICES ASSUME NEW e \in sent
               PROVE  e \in Effects /\ Shaped(e) /\ e.facet = f /\ e.by = k
    BY DEF Sends
  <2> QED
    BY <1>2, <2>1 DEF Effect, Effects, Shaped
<1>4. Sets(to, TRUE, sent)
  BY DEF Sets, Effect, Lasting
<1>5. effects' = effects \union sent
  BY <1>1 DEF Begin
<1>6. ClientDue(c, to)'
  <2>1. Sent("client", None, {c}, f)'
    <3>1. Effect("client", None, {c}, to, f, k) \in effects'
      BY <1>5
    <3> QED
      BY <3>1 DEF Sent, Effect
  <2>2. ASSUME NEW s \in Subs, KindOf[s] # "fabric"
        PROVE  Sent("isClientActive", KindOf[s], {c}, f)'
    <3>1. Effect("isClientActive", KindOf[s], {c}, to, f, k) \in effects'
      BY <1>5, <2>2 DEF Collections
    <3> QED
      BY <3>1 DEF Sent, Effect
  <2> QED
    BY <2>1, <2>2 DEF ClientDue
<1>7. Suffices({f}, to, TRUE)
  BY <1>6 DEF Suffices
<1> HIDE DEF sent, f
<1> QED
  BY <1>1, <1>2, <1>3, <1>4, <1>7, BeginKeepsFlagsInv

\* The calls that a project's status is sent with.
LEMMA ProjectFlagsSuffice ==
  ASSUME NEW k \in Callers, NEW p \in Projects, NEW to \in BOOLEAN,
         ProjectFlags(k, p, to) \subseteq effects',
         Effect("project", None, {p}, to, <<"project", p>>, k) \in effects'
  PROVE  ProjectDue(p, to)'
<1> DEFINE f == <<"project", p>>
<1>1. Sent("project", None, {p}, f)'
  BY DEF Sent, Effect
<1>2. ASSUME NEW s \in Subs
      PROVE  Sent("isProjectActive", KindOf[s], {p}, f)'
  <2>1. Effect("isProjectActive", KindOf[s], {p}, to, f, k) \in effects'
    BY DEF Collections, ProjectFlags
  <2> QED
    BY <2>1 DEF Sent, Effect
<1> QED
  BY <1>1, <1>2 DEF ProjectDue

LEMMA ProjectSends ==
  ASSUME NEW k \in Callers, NEW p \in Projects, NEW to \in BOOLEAN
  PROVE  \A e \in {Effect("project", None, {p}, to, <<"project", p>>, k)} \union ProjectFlags(k, p, to) :
           e \in Effects /\ Shaped(e) /\ e.facet = <<"project", p>> /\ e.by = k
             /\ e.do \in Lasting /\ e.to = to
<1>1. Collections \subseteq Kinds
  BY SubsAssumption DEF Collections
<1>2. <<"project", p>> \in Facets
  BY FacetFacts
<1> QED
  BY <1>1, <1>2 DEF ProjectFlags, Effect, Effects, Shaped, Lasting

LEMMA SetupsSends ==
  ASSUME NEW k \in Callers, NEW p \in Projects, NEW to \in BOOLEAN
  PROVE  \A e \in SetupsOfProject(k, p, to) :
           e \in Effects /\ Shaped(e) /\ e.facet = <<"setups", p>> /\ e.by = k
             /\ e.do \in Lasting /\ e.to = to
<1>1. <<"setups", p>> \in Facets
  BY FacetFacts
<1> QED
  BY <1>1 DEF SetupsOfProject, Effect, Effects, Shaped, Lasting

LEMMA ProjectSetStatusKeepsFlagsInv ==
  ASSUME FlagsInv, NEW k \in Callers, NEW p \in Projects, NEW to \in BOOLEAN,
         ProjectSetStatus(k, p, to) \/ ProjectSetNameAndStatus(k, p, to)
  PROVE  FlagsInv'
<1> DEFINE f == <<"project", p>>
           sent == {Effect("project", None, {p}, to, f, k)} \union ProjectFlags(k, p, to)
           all == sent \union SetupsOfProject(k, p, to)
<1>1. PICK facets, more :
        /\ Begin(k, facets, to, TRUE, more)
        /\ \/ facets = {f, <<"setups", p>>} /\ more = all
           \/ facets = {f} /\ more = sent
  BY DEF ProjectSetStatus, ProjectSetNameAndStatus
<1>0. f \in Facets /\ <<"setups", p>> \in Facets
  BY FacetFacts
<1>2. facets \subseteq Facets
  BY <1>0, <1>1
<1>3. \A e \in sent : e \in Effects /\ Shaped(e) /\ e.facet = f /\ e.by = k
                        /\ e.do \in Lasting /\ e.to = to
  BY ProjectSends
<1>4. \A e \in SetupsOfProject(k, p, to) :
        e \in Effects /\ Shaped(e) /\ e.facet = <<"setups", p>> /\ e.by = k
          /\ e.do \in Lasting /\ e.to = to
  BY SetupsSends
<1>5. effects' = effects \union more
  BY <1>1 DEF Begin
<1>6. ProjectDue(p, to)'
  BY <1>1, <1>5, ProjectFlagsSuffice
<1> HIDE DEF sent
<1>7. Sends(k, facets, more)
  BY <1>1, <1>3, <1>4 DEF Sends
<1>8. Sets(to, TRUE, more)
  BY <1>1, <1>3, <1>4 DEF Sets
<1>9. Suffices(facets, to, TRUE)
  BY <1>1, <1>6 DEF Suffices
<1> QED
  BY <1>1, <1>2, <1>7, <1>8, <1>9, BeginKeepsFlagsInv

LEMMA RemoveProjectKeepsFlagsInv ==
  ASSUME FlagsInv, NEW k \in Callers, NEW p \in Projects, RemoveProject(k, p)
  PROVE  FlagsInv'
<1> DEFINE f == <<"setups", p>>
           e == Effect("removeProject", None, {p}, TRUE, f, k)
           sent == {e} \union SetupsOfProject(k, p, FALSE)
<1>1. Begin(k, {f}, FALSE, TRUE, sent)
  BY DEF RemoveProject
<1>2. f \in Facets /\ {f} \subseteq Facets
  BY FacetFacts
<1>3. e \in Effects /\ Shaped(e) /\ e.facet = f /\ e.by = k /\ e.do = "removeProject"
  BY <1>2 DEF Effect, Effects, Shaped
<1>4. \A d \in SetupsOfProject(k, p, FALSE) :
        d \in Effects /\ Shaped(d) /\ d.facet = f /\ d.by = k /\ d.do \in Lasting /\ d.to = FALSE
  BY SetupsSends
<1> HIDE DEF e
<1>5. Sends(k, {f}, sent)
  BY <1>3, <1>4 DEF Sends
<1>6. Sets(FALSE, TRUE, sent)
  BY <1>3, <1>4 DEF Sets, Lasting
<1>7. Suffices({f}, FALSE, TRUE)
  BY DEF Suffices
<1> HIDE DEF sent, f
<1> QED
  BY <1>1, <1>2, <1>5, <1>6, <1>7, BeginKeepsFlagsInv

\* The operations of the setup service tell nothing about the project's setups.
OfSetups(k, p, sent) ==
  \A e \in sent : e \in Effects /\ Shaped(e) /\ e.facet = <<"setups", p>> /\ e.by = k

LEMMA OnSetupsKeepsFlagsInv ==
  ASSUME FlagsInv, NEW k \in Callers, NEW p \in Projects, NEW to \in BOOLEAN, NEW sent,
         OfSetups(k, p, sent), OnSetups(k, p, to, sent)
  PROVE  FlagsInv'
<1> DEFINE facets == {<<"setups", p>>}
<1>1. Begin(k, facets, to, FALSE, sent)
  BY DEF OnSetups
<1>2. facets \subseteq Facets
  BY FacetFacts
<1>3. Sends(k, facets, sent) /\ Sets(to, FALSE, sent) /\ Suffices(facets, to, FALSE)
  BY DEF Sends, Sets, Suffices, OfSetups
<1> HIDE DEF facets
<1> QED
  BY <1>1, <1>2, <1>3, BeginKeepsFlagsInv

LEMMA SetupCall ==
  ASSUME NEW k \in Callers, NEW p \in Projects, NEW to \in BOOLEAN,
         NEW do \in {"setup", "readSetup", "readToRemove", "listToRemove", "insertSetup"},
         NEW of, of \subseteq {p} \union Setups \union Conns
  PROVE  OfSetups(k, p, {Effect(do, None, of, to, <<"setups", p>>, k)})
<1> DEFINE e == Effect(do, None, of, to, <<"setups", p>>, k)
<1>1. <<"setups", p>> \in Facets
  BY FacetFacts
<1>2. e \in Effects /\ e.facet = <<"setups", p>> /\ e.by = k /\ e.do = do /\ e.of = of
  BY <1>1 DEF Effect, Effects
<1> HIDE DEF e
<1>3. Shaped(e)
  BY <1>2 DEF Shaped
<1> QED
  BY <1>2, <1>3 DEF e, OfSetups

\* A request of the setup service: about one project's setups.
LEMMA SetupRequests ==
  ASSUME FlagsInv, NEW k \in Callers,
         \/ \E u \in Setups, to \in BOOLEAN : SetupSetStatus(k, u, to)
         \/ \E p \in Projects : RemoveSetups(k, p)
         \/ \E u \in Setups : RemoveSetup(k, u)
         \/ \E u \in Setups, p \in Projects, n \in Conns \union {None} : CreateSetup(k, u, p, n)
  PROVE  \E p \in Projects, to \in BOOLEAN : \E sent : OfSetups(k, p, sent) /\ OnSetups(k, p, to, sent)
<1>1. \A u \in Setups : setup[u] # None => setup[u].project \in Projects
  BY DEF FlagsInv, TypeOK, SetupRows
<1>2. ASSUME NEW u \in Setups, NEW to \in BOOLEAN, SetupSetStatus(k, u, to)
      PROVE  \E p \in Projects : \E sent : OfSetups(k, p, sent) /\ OnSetups(k, p, to, sent)
  <2>1. PICK p \in Projects : p = setup[u].project
    BY <1>1, <1>2 DEF SetupSetStatus
  <2> DEFINE sent == {Effect(do, None, {u}, to, <<"setups", p>>, k) : do \in {"setup", "readSetup"}}
  <2>2. OnSetups(k, p, to, sent)
    BY <1>2, <2>1 DEF SetupSetStatus
  <2>3. /\ OfSetups(k, p, {Effect("setup", None, {u}, to, <<"setups", p>>, k)})
        /\ OfSetups(k, p, {Effect("readSetup", None, {u}, to, <<"setups", p>>, k)})
    BY SetupCall
  <2>4. OfSetups(k, p, sent)
    BY <2>3 DEF OfSetups
  <2> QED
    BY <2>2, <2>4
<1>3. ASSUME NEW p \in Projects, RemoveSetups(k, p)
      PROVE  \E sent : OfSetups(k, p, sent) /\ OnSetups(k, p, FALSE, sent)
  <2> DEFINE sent == {Effect("listToRemove", None, {p}, FALSE, <<"setups", p>>, k)}
  <2>1. OnSetups(k, p, FALSE, sent)
    BY <1>3 DEF RemoveSetups
  <2>2. OfSetups(k, p, sent)
    BY SetupCall
  <2> QED
    BY <2>1, <2>2
<1>4. ASSUME NEW u \in Setups, RemoveSetup(k, u)
      PROVE  \E p \in Projects : \E sent : OfSetups(k, p, sent) /\ OnSetups(k, p, FALSE, sent)
  <2>1. PICK p \in Projects : p = setup[u].project
    BY <1>1, <1>4 DEF RemoveSetup
  <2> DEFINE sent == {Effect("readToRemove", None, {u}, FALSE, <<"setups", p>>, k)}
  <2>2. OnSetups(k, p, FALSE, sent)
    BY <1>4, <2>1 DEF RemoveSetup
  <2>3. OfSetups(k, p, sent)
    BY SetupCall
  <2> QED
    BY <2>2, <2>3
<1>5. ASSUME NEW u \in Setups, NEW p \in Projects, NEW n \in Conns \union {None}, CreateSetup(k, u, p, n)
      PROVE  \E sent : OfSetups(k, p, sent) /\ OnSetups(k, p, TRUE, sent)
  <2>1. PICK of : of = {u, n} \ {None}
    OBVIOUS
  <2> DEFINE sent == {Effect("insertSetup", None, of, TRUE, <<"setups", p>>, k)}
  <2>2. OnSetups(k, p, TRUE, sent)
    BY <1>5, <2>1 DEF CreateSetup
  <2>3. of \subseteq Setups \union Conns
    BY <2>1
  <2>4. OfSetups(k, p, sent)
    BY <2>3, SetupCall
  <2> QED
    BY <2>2, <2>4
<1> QED
  BY <1>2, <1>3, <1>4, <1>5

LEMMA SetupRequestsKeepFlagsInv ==
  ASSUME FlagsInv, NEW k \in Callers,
         \/ \E u \in Setups, to \in BOOLEAN : SetupSetStatus(k, u, to)
         \/ \E p \in Projects : RemoveSetups(k, p)
         \/ \E u \in Setups : RemoveSetup(k, u)
         \/ \E u \in Setups, p \in Projects, n \in Conns \union {None} : CreateSetup(k, u, p, n)
  PROVE  FlagsInv'
<1>1. \E p \in Projects, to \in BOOLEAN : \E sent : OfSetups(k, p, sent) /\ OnSetups(k, p, to, sent)
  BY SetupRequests
<1> QED
  BY <1>1, OnSetupsKeepsFlagsInv

LEMMA AskKeepsFlagsInv ==
  ASSUME FlagsInv, NEW k \in Callers, Ask(k)
  PROVE  FlagsInv'
<1>1. ASSUME NEW c \in Clients, NEW to \in BOOLEAN, ClientSetStatus(k, c, to)
      PROVE  FlagsInv'
  BY <1>1, ClientSetStatusKeepsFlagsInv
<1>2. ASSUME NEW p \in Projects, NEW to \in BOOLEAN,
             ProjectSetStatus(k, p, to) \/ ProjectSetNameAndStatus(k, p, to)
      PROVE  FlagsInv'
  BY <1>2, ProjectSetStatusKeepsFlagsInv
<1>3. ASSUME NEW p \in Projects, RemoveProject(k, p)
      PROVE  FlagsInv'
  BY <1>3, RemoveProjectKeepsFlagsInv
<1> QED
  BY <1>1, <1>2, <1>3, SetupRequestsKeepFlagsInv DEF Ask

-----------------------------------------------------------------------------
(* Database calls land *)

\* Nobody asks or is told anything, and what is on its way was before.
Fewer == effects' \subseteq effects /\ UNCHANGED <<call, told>>

LEMMA SameClaims ==
  ASSUME UNCHANGED <<call, told>>
  PROVE  /\ \A k, f : Asks(k, f)' <=> Asks(k, f)
         /\ \A f, to : Claim(f, to)' <=> Claim(f, to)
BY DEF Asks, Claim

LEMMA FewerKeepQuiet ==
  ASSUME Quiet, SoleAsker, Agreement, Fewer
  PROVE  Quiet' /\ SoleAsker' /\ Agreement'
<1>1. Quiet'
  BY DEF Quiet, Fewer
<1>2. SoleAsker'
  BY DEF SoleAsker, Fewer, Asks
<1>3. Agreement'
  BY DEF Agreement, Agreed, Fewer, Claim, Asks
<1> QED
  BY <1>1, <1>2, <1>3

\* A call that is on its way for a claim has the value claimed.
LEMMA SetsTheClaim ==
  ASSUME Agreement, NEW f \in Facets, NEW to \in BOOLEAN, Claim(f, to),
         NEW e \in effects, e.facet = f, e.do # "removeProject"
  PROVE  e.to = to
BY DEF Agreement, Agreed

\* Only the call that lands is not on its way any more.
LEMMA SentOrLanded ==
  ASSUME NEW e, effects' = effects \ {e}, NEW do, NEW kind, NEW of, NEW f, Sent(do, kind, of, f)
  PROVE  \/ Sent(do, kind, of, f)'
         \/ e \in effects /\ e.do = do /\ e.kind = kind /\ e.of = of /\ e.facet = f
BY DEF Sent

LEMMA LandTypes ==
  ASSUME TypeOK, EffectsShaped, NEW e \in effects, Land(e)
  PROVE  /\ effects' \subseteq Effects /\ EffectsShaped' /\ Fewer /\ effects' = effects \ {e}
         /\ e \in Effects /\ Shaped(e)
         /\ call' \in [Callers -> Requests] /\ told' \in [Facets -> BOOLEAN \union {None}]
BY DEF Land, TypeOK, EffectsShaped, Fewer

LEMMA WriteClientKeepsFlagsInv ==
  ASSUME FlagsInv, NEW e \in effects, WriteClient(e)
  PROVE  FlagsInv'
<1>1. /\ effects' \subseteq Effects /\ EffectsShaped' /\ Fewer /\ effects' = effects \ {e}
      /\ e \in Effects /\ Shaped(e)
      /\ call' \in [Callers -> Requests] /\ told' \in [Facets -> BOOLEAN \union {None}]
  BY LandTypes DEF FlagsInv, WriteClient
<1>2. PICK c0 \in Clients : e.of = {c0} /\ e.facet = <<"client", c0>>
  BY <1>1 DEF WriteClient, Shaped
<1>3. /\ e.do = "client" /\ client' = [client EXCEPT ![c0] = e.to]
      /\ UNCHANGED <<project, sub, setup, conn, call, told>>
  BY <1>2 DEF WriteClient, Land, FlagsInv, TypeOK
<1>4. TypeOK'
  BY <1>1, <1>3 DEF FlagsInv, TypeOK, Effects
<1>5. Quiet' /\ SoleAsker' /\ Agreement'
  BY <1>1, FewerKeepQuiet DEF FlagsInv
<1>6. ClientsDue'
  <2> SUFFICES ASSUME NEW c \in Clients, NEW to \in BOOLEAN, Claim(<<"client", c>>, to)
               PROVE  ClientDue(c, to)'
    BY <1>3, SameClaims DEF ClientsDue
  <2>1. ClientDue(c, to)
    BY DEF FlagsInv, ClientsDue
  <2>2. ASSUME NEW s \in Subs, Sent("isClientActive", KindOf[s], {c}, <<"client", c>>)
        PROVE  Sent("isClientActive", KindOf[s], {c}, <<"client", c>>)'
    BY <1>1, <1>3, <2>2 DEF Sent
  <2>3. client'[c] = to \/ Sent("client", None, {c}, <<"client", c>>)'
    <3>1. CASE c = c0
      <4>1. e.to = to
        BY <1>2, <1>3, <3>1, SetsTheClaim, FacetFacts DEF FlagsInv
      <4> QED
        BY <1>3, <3>1, <4>1 DEF FlagsInv, TypeOK
    <3>2. CASE c # c0
      <4>1. client'[c] = client[c]
        BY <1>3, <3>2 DEF FlagsInv, TypeOK
      <4>2. e.of # {c}
        BY <1>2, <3>2
      <4> QED
        BY <1>1, <2>1, <4>1, <4>2 DEF Sent, ClientDue
    <3> QED
      BY <3>1, <3>2
  <2> QED
    BY <1>3, <2>1, <2>2, <2>3 DEF ClientDue
<1>7. ProjectsDue'
  <2> SUFFICES ASSUME NEW p \in Projects, NEW to \in BOOLEAN, Claim(<<"project", p>>, to)
               PROVE  ProjectDue(p, to)'
    BY <1>3, SameClaims DEF ProjectsDue
  <2>1. ProjectDue(p, to)
    BY DEF FlagsInv, ProjectsDue
  <2>2. \A do, kind, of, f : (do # "client" /\ Sent(do, kind, of, f)) => Sent(do, kind, of, f)'
    BY <1>1, <1>3 DEF Sent
  <2> QED
    BY <1>3, <2>1, <2>2 DEF ProjectDue
<1> QED
  BY <1>1, <1>4, <1>5, <1>6, <1>7 DEF FlagsInv

LEMMA WriteProjectKeepsFlagsInv ==
  ASSUME FlagsInv, NEW e \in effects, WriteProject(e)
  PROVE  FlagsInv'
<1>1. /\ effects' \subseteq Effects /\ EffectsShaped' /\ Fewer /\ effects' = effects \ {e}
      /\ e \in Effects /\ Shaped(e)
      /\ call' \in [Callers -> Requests] /\ told' \in [Facets -> BOOLEAN \union {None}]
  BY LandTypes DEF FlagsInv, WriteProject
<1>2. /\ e.do \in {"project", "removeProject"}
      /\ UNCHANGED <<client, sub, setup, conn, call, told>>
      /\ \A p \in Projects : project'[p] =
           IF p \notin e.of THEN project[p]
           ELSE IF e.do = "project" THEN [project[p] EXCEPT !.active = e.to]
           ELSE [project[p] EXCEPT !.removed = TRUE]
  BY DEF WriteProject, Land
<1>3. TypeOK'
  <2>1. project' \in [Projects -> [active : BOOLEAN, removed : BOOLEAN]]
    BY <1>1 DEF WriteProject, FlagsInv, TypeOK, Effects
  <2> QED
    BY <1>1, <1>2, <2>1 DEF FlagsInv, TypeOK
<1>4. Quiet' /\ SoleAsker' /\ Agreement'
  BY <1>1, FewerKeepQuiet DEF FlagsInv
<1>5. ClientsDue'
  <2> SUFFICES ASSUME NEW c \in Clients, NEW to \in BOOLEAN, Claim(<<"client", c>>, to)
               PROVE  ClientDue(c, to)'
    BY <1>2, SameClaims DEF ClientsDue
  <2>1. ClientDue(c, to)
    BY DEF FlagsInv, ClientsDue
  <2>2. \A do, kind, of, f :
          (do \notin {"project", "removeProject"} /\ Sent(do, kind, of, f)) => Sent(do, kind, of, f)'
    BY <1>1, <1>2 DEF Sent
  <2> QED
    BY <1>2, <2>1, <2>2 DEF ClientDue
<1>6. ProjectsDue'
  <2> SUFFICES ASSUME NEW p \in Projects, NEW to \in BOOLEAN, Claim(<<"project", p>>, to)
               PROVE  ProjectDue(p, to)'
    BY <1>2, SameClaims DEF ProjectsDue
  <2>1. ProjectDue(p, to)
    BY DEF FlagsInv, ProjectsDue
  <2>2. \A do, kind, of, f :
          (do \notin {"project", "removeProject"} /\ Sent(do, kind, of, f)) => Sent(do, kind, of, f)'
    BY <1>1, <1>2 DEF Sent
  <2>3. project'[p].active = to \/ Sent("project", None, {p}, <<"project", p>>)'
    <3>1. project[p] \in [active : BOOLEAN, removed : BOOLEAN]
      BY DEF FlagsInv, TypeOK
    <3>2. CASE e.do = "project" /\ e.of = {p} /\ e.facet = <<"project", p>>
      <4>1. e.to = to
        BY <3>2, SetsTheClaim, FacetFacts DEF FlagsInv
      <4> QED
        BY <1>2, <3>1, <3>2, <4>1
    <3>3. CASE ~(e.do = "project" /\ e.of = {p} /\ e.facet = <<"project", p>>)
      <4>1. e.do = "project" => p \notin e.of
        BY <1>1, <3>3 DEF Shaped
      <4>2. project'[p].active = project[p].active
        BY <1>2, <3>1, <4>1
      <4>3. Sent("project", None, {p}, <<"project", p>>)
              => Sent("project", None, {p}, <<"project", p>>)'
        BY <1>1, <3>3, SentOrLanded
      <4> QED
        BY <2>1, <4>2, <4>3 DEF ProjectDue
    <3> QED
      BY <3>2, <3>3
  <2> QED
    BY <1>2, <2>1, <2>2, <2>3 DEF ProjectDue
<1> QED
  BY <1>1, <1>3, <1>4, <1>5, <1>6 DEF FlagsInv

LEMMA WriteFlagsKeepsFlagsInv ==
  ASSUME FlagsInv, NEW e \in effects, WriteFlags(e)
  PROVE  FlagsInv'
<1>1. /\ effects' \subseteq Effects /\ EffectsShaped' /\ Fewer /\ effects' = effects \ {e}
      /\ e \in Effects /\ Shaped(e)
      /\ call' \in [Callers -> Requests] /\ told' \in [Facets -> BOOLEAN \union {None}]
  BY LandTypes DEF FlagsInv, WriteFlags
<1>2. /\ e.do \in {"isClientActive", "isProjectActive"}
      /\ UNCHANGED <<client, project, setup, conn, call, told>>
      /\ \A s \in Subs : sub'[s] =
           IF sub[s] = None \/ KindOf[s] # e.kind THEN sub[s]
           ELSE IF e.do = "isClientActive" /\ ClientOf[ProjectOf[s]] \in e.of
                THEN [sub[s] EXCEPT !.isClientActive = e.to]
           ELSE IF e.do = "isProjectActive" /\ ProjectOf[s] \in e.of
                THEN [sub[s] EXCEPT !.isProjectActive = e.to]
           ELSE sub[s]
  BY DEF WriteFlags, Land
<1>3. \A s \in Subs : sub[s] # None => sub[s] \in Flags
  BY DEF FlagsInv, TypeOK
<1>4. TypeOK'
  <2>1. e.to \in BOOLEAN
    BY <1>1 DEF Effects
  <2>2. sub' \in [Subs -> Flags \union {None}]
    <3>1. \A s \in Subs : sub'[s] \in Flags \union {None}
      BY <1>2, <1>3, <2>1 DEF Flags
    <3> QED
      BY <3>1 DEF WriteFlags
  <2> QED
    BY <1>1, <1>2, <2>2 DEF FlagsInv, TypeOK
<1>5. Quiet' /\ SoleAsker' /\ Agreement'
  BY <1>1, FewerKeepQuiet DEF FlagsInv
<1>6. \A do, kind, of, f :
        (do \notin {"isClientActive", "isProjectActive"} /\ Sent(do, kind, of, f))
          => Sent(do, kind, of, f)'
  BY <1>1, <1>2 DEF Sent
<1>7. ClientsDue'
  <2> SUFFICES ASSUME NEW c \in Clients, NEW to \in BOOLEAN, Claim(<<"client", c>>, to)
               PROVE  ClientDue(c, to)'
    BY <1>2, SameClaims DEF ClientsDue
  <2>1. ClientDue(c, to)
    BY DEF FlagsInv, ClientsDue
  <2>2. ASSUME NEW s \in Subs, sub'[s] # None, ClientOf[ProjectOf[s]] = c, KindOf[s] # "fabric"
        PROVE  sub'[s].isClientActive = to \/ Sent("isClientActive", KindOf[s], {c}, <<"client", c>>)'
    <3>1. sub[s] # None /\ sub[s] \in Flags
      BY <1>2, <1>3, <2>2
    <3>2. CASE /\ e.do = "isClientActive" /\ e.kind = KindOf[s]
               /\ e.of = {c} /\ e.facet = <<"client", c>>
      <4>1. e.to = to
        BY <3>2, SetsTheClaim, FacetFacts DEF FlagsInv
      <4>2. sub'[s] = [sub[s] EXCEPT !.isClientActive = e.to]
        BY <1>2, <2>2, <3>1, <3>2
      <4> QED
        BY <3>1, <4>1, <4>2 DEF Flags
    <3>3. CASE ~(/\ e.do = "isClientActive" /\ e.kind = KindOf[s]
                 /\ e.of = {c} /\ e.facet = <<"client", c>>)
      <4>1. (e.do = "isClientActive" /\ e.kind = KindOf[s]) => c \notin e.of
        BY <1>1, <3>3 DEF Shaped
      <4>2. sub'[s] = sub[s] \/ sub'[s] = [sub[s] EXCEPT !.isProjectActive = e.to]
        BY <1>2, <2>2, <4>1
      <4>3. sub'[s].isClientActive = sub[s].isClientActive
        BY <3>1, <4>2 DEF Flags
      <4>4. Sent("isClientActive", KindOf[s], {c}, <<"client", c>>)
              => Sent("isClientActive", KindOf[s], {c}, <<"client", c>>)'
        BY <1>1, <3>3, SentOrLanded
      <4> QED
        BY <2>1, <2>2, <3>1, <4>3, <4>4 DEF ClientDue
    <3> QED
      BY <3>2, <3>3
  <2> QED
    BY <1>2, <1>6, <2>1, <2>2 DEF ClientDue
<1>8. ProjectsDue'
  <2> SUFFICES ASSUME NEW p \in Projects, NEW to \in BOOLEAN, Claim(<<"project", p>>, to)
               PROVE  ProjectDue(p, to)'
    BY <1>2, SameClaims DEF ProjectsDue
  <2>1. ProjectDue(p, to)
    BY DEF FlagsInv, ProjectsDue
  <2>2. ASSUME NEW s \in Subs, sub'[s] # None, ProjectOf[s] = p
        PROVE  sub'[s].isProjectActive = to \/ Sent("isProjectActive", KindOf[s], {p}, <<"project", p>>)'
    <3>1. sub[s] # None /\ sub[s] \in Flags
      BY <1>2, <1>3, <2>2
    <3>2. CASE /\ e.do = "isProjectActive" /\ e.kind = KindOf[s]
               /\ e.of = {p} /\ e.facet = <<"project", p>>
      <4>1. e.to = to
        BY <3>2, SetsTheClaim, FacetFacts DEF FlagsInv
      <4>2. sub'[s] = [sub[s] EXCEPT !.isProjectActive = e.to]
        BY <1>2, <2>2, <3>1, <3>2
      <4> QED
        BY <3>1, <4>1, <4>2 DEF Flags
    <3>3. CASE ~(/\ e.do = "isProjectActive" /\ e.kind = KindOf[s]
                 /\ e.of = {p} /\ e.facet = <<"project", p>>)
      <4>1. (e.do = "isProjectActive" /\ e.kind = KindOf[s]) => p \notin e.of
        BY <1>1, <3>3, IdsAssumption DEF Shaped
      <4>2. sub'[s] = sub[s] \/ sub'[s] = [sub[s] EXCEPT !.isClientActive = e.to]
        BY <1>2, <2>2, <4>1
      <4>3. sub'[s].isProjectActive = sub[s].isProjectActive
        BY <3>1, <4>2 DEF Flags
      <4>4. Sent("isProjectActive", KindOf[s], {p}, <<"project", p>>)
              => Sent("isProjectActive", KindOf[s], {p}, <<"project", p>>)'
        BY <1>1, <3>3, SentOrLanded
      <4> QED
        BY <2>1, <2>2, <3>1, <4>3, <4>4 DEF ProjectDue
    <3> QED
      BY <3>2, <3>3
  <2> QED
    BY <1>2, <1>6, <2>1, <2>2 DEF ProjectDue
<1> QED
  BY <1>1, <1>4, <1>5, <1>7, <1>8 DEF FlagsInv

\* Steps that leave the statuses and flags, and the calls that set them, alone.
Flagging == {"client", "isClientActive", "project", "isProjectActive"}

FlagCallsStay ==
  /\ \A f \in Facets, to \in BOOLEAN : Claim(f, to)' => Claim(f, to)
  /\ \A f \in Facets, e \in effects :
       (e.facet = f /\ e.do \in Flagging /\ \E to \in BOOLEAN : Claim(f, to)') =>
         \E d \in effects' : d.do = e.do /\ d.kind = e.kind /\ d.of = e.of /\ d.facet = f

LEMMA FlagsStay ==
  ASSUME ClientsDue, ProjectsDue, FlagCallsStay, UNCHANGED <<client, project, sub>>
  PROVE  ClientsDue' /\ ProjectsDue'
<1>1. ASSUME NEW f \in Facets, NEW to \in BOOLEAN, Claim(f, to)', NEW do \in Flagging, NEW kind, NEW of,
             Sent(do, kind, of, f)
      PROVE  Sent(do, kind, of, f)'
  BY <1>1 DEF Sent, FlagCallsStay
<1>2. ClientsDue'
  <2> SUFFICES ASSUME NEW c \in Clients, NEW to \in BOOLEAN, Claim(<<"client", c>>, to)'
               PROVE  ClientDue(c, to)'
    BY DEF ClientsDue
  <2>1. ClientDue(c, to) /\ <<"client", c>> \in Facets
    BY FacetFacts DEF ClientsDue, FlagCallsStay
  <2>2. \A do \in Flagging : \A kind, of :
          Sent(do, kind, of, <<"client", c>>) => Sent(do, kind, of, <<"client", c>>)'
    BY <1>1, <2>1
  <2>3. "client" \in Flagging /\ "isClientActive" \in Flagging
    BY DEF Flagging
  <2> QED
    BY <2>1, <2>2, <2>3 DEF ClientDue
<1>3. ProjectsDue'
  <2> SUFFICES ASSUME NEW p \in Projects, NEW to \in BOOLEAN, Claim(<<"project", p>>, to)'
               PROVE  ProjectDue(p, to)'
    BY DEF ProjectsDue
  <2>1. ProjectDue(p, to) /\ <<"project", p>> \in Facets
    BY FacetFacts DEF ProjectsDue, FlagCallsStay
  <2>2. \A do \in Flagging : \A kind, of :
          Sent(do, kind, of, <<"project", p>>) => Sent(do, kind, of, <<"project", p>>)'
    BY <1>1, <2>1
  <2>3. "project" \in Flagging /\ "isProjectActive" \in Flagging
    BY DEF Flagging
  <2> QED
    BY <2>1, <2>2, <2>3 DEF ProjectDue
<1> QED
  BY <1>2, <1>3

LEMMA WriteConnsKeepsFlagsInv ==
  ASSUME FlagsInv, NEW e \in effects, WriteConns(e)
  PROVE  FlagsInv'
<1>1. /\ effects' \subseteq Effects /\ EffectsShaped' /\ Fewer /\ effects' = effects \ {e}
      /\ e \in Effects /\ Shaped(e)
      /\ call' \in [Callers -> Requests] /\ told' \in [Facets -> BOOLEAN \union {None}]
  BY LandTypes DEF FlagsInv, WriteConns
<1>2. e.do \notin Flagging /\ UNCHANGED <<client, project, sub, setup, call, told>>
  BY DEF WriteConns, Land, Flagging
<1>3. conn' \in [Conns -> {"enabled", "disabled", "gone"}]
  BY DEF WriteConns, Switch, FlagsInv, TypeOK
<1>4. TypeOK'
  BY <1>1, <1>2, <1>3 DEF FlagsInv, TypeOK
<1>5. FlagCallsStay
  BY <1>1, <1>2, SameClaims DEF FlagCallsStay
<1>6. ClientsDue' /\ ProjectsDue'
  BY <1>2, <1>5, FlagsStay DEF FlagsInv
<1>7. Quiet' /\ SoleAsker' /\ Agreement'
  BY <1>1, FewerKeepQuiet DEF FlagsInv
<1> QED
  BY <1>1, <1>4, <1>6, <1>7 DEF FlagsInv

\* The project that a call about setups is for.
LEMMA FacetProject ==
  ASSUME NEW e, Shaped(e), e.do \notin Flagging
  PROVE  \E p \in Projects : e.facet = <<"setups", p>> /\ e.facet[2] = p
                               /\ e.of \subseteq {p} \union Setups \union Conns
BY DEF Shaped, Flagging

LEMMA WriteSetupsKeepsFlagsInv ==
  ASSUME FlagsInv, NEW e \in effects, WriteSetups(e)
  PROVE  FlagsInv'
<1>1. /\ effects' \subseteq Effects /\ EffectsShaped' /\ Fewer /\ effects' = effects \ {e}
      /\ e \in Effects /\ Shaped(e)
      /\ call' \in [Callers -> Requests] /\ told' \in [Facets -> BOOLEAN \union {None}]
  BY LandTypes DEF FlagsInv, WriteSetups
<1>2. e.do \notin Flagging /\ UNCHANGED <<client, project, sub, conn, call, told>>
  BY DEF WriteSetups, Land, Flagging
<1>3. setup' \in [Setups -> SetupRows \union {None}]
  <2>1. e.facet[2] \in Projects /\ e.to \in BOOLEAN
    BY <1>1, <1>2, FacetProject DEF Effects
  <2>2. e.of \cap Conns # {} => (CHOOSE n \in e.of \cap Conns : TRUE) \in Conns
    OBVIOUS
  <2>3. ASSUME NEW u \in Setups
        PROVE  setup'[u] \in SetupRows \union {None}
    <3>1. setup[u] \in SetupRows \union {None}
      BY DEF FlagsInv, TypeOK
    <3>2. CASE e.do = "insertSetup" /\ u \in e.of
      <4>1. PICK n \in Conns \union {None} : setup'[u] = [project |-> e.facet[2], on |-> TRUE, conn |-> n]
        BY <2>2, <3>2 DEF WriteSetups
      <4> QED
        BY <2>1, <4>1 DEF SetupRows
    <3>3. CASE ~(e.do = "insertSetup" /\ u \in e.of)
      <4>1. \/ setup'[u] = setup[u] \/ setup'[u] = None
            \/ setup[u] # None /\ setup'[u] = [setup[u] EXCEPT !.on = e.to]
        BY <3>3 DEF WriteSetups, Touches
      <4> QED
        BY <2>1, <3>1, <4>1 DEF SetupRows
    <3> QED
      BY <3>2, <3>3
  <2> QED
    BY <2>3 DEF WriteSetups
<1>4. TypeOK'
  BY <1>1, <1>2, <1>3 DEF FlagsInv, TypeOK
<1>5. FlagCallsStay
  BY <1>1, <1>2, SameClaims DEF FlagCallsStay
<1>6. ClientsDue' /\ ProjectsDue'
  BY <1>2, <1>5, FlagsStay DEF FlagsInv
<1>7. Quiet' /\ SoleAsker' /\ Agreement'
  BY <1>1, FewerKeepQuiet DEF FlagsInv
<1> QED
  BY <1>1, <1>4, <1>6, <1>7 DEF FlagsInv

\* What follows a read: calls for the connections found and, when removing,
\* one for the setups.
LEMMA FollowUpsOK ==
  ASSUME TypeOK, NEW e \in effects, e \in Effects, Shaped(e), e.do \in Reads, NEW d \in FollowUps(e)
  PROVE  /\ d \in Effects /\ Shaped(d) /\ d.facet = e.facet /\ d.by = e.by /\ d.to = e.to
         /\ \/ d.do \in {"conns", "removeConns"} /\ d.of = {setup[u].conn : u \in Found(e)} \ {None}
            \/ d.do = "removeSetups" /\ d.of = e.of
         /\ e.do \in {"listSetups", "readSetup"} => d.do = "conns"
         /\ d.do = "conns" => e.do \in {"listSetups", "readSetup"}
<1> DEFINE held == {setup[u].conn : u \in Found(e)} \ {None}
<1>1. held \subseteq Conns
  BY DEF Found, Touches, TypeOK, SetupRows
<1>2. PICK do \in {"conns", "removeConns", "removeSetups"} :
        \E of :
          /\ d = [e EXCEPT !.do = do, !.of = of]
          /\ \/ do \in {"conns", "removeConns"} /\ of = held
             \/ do = "removeSetups" /\ of = e.of
          /\ e.do \in {"listSetups", "readSetup"} => do = "conns"
          /\ do = "conns" => e.do \in {"listSetups", "readSetup"}
  BY DEF FollowUps, Reads
<1> HIDE DEF held
<1>3. PICK of :
        /\ d = [e EXCEPT !.do = do, !.of = of]
        /\ \/ do \in {"conns", "removeConns"} /\ of = held
           \/ do = "removeSetups" /\ of = e.of
  BY <1>2
<1>4. e.do \notin Flagging
  BY DEF Reads, Flagging
<1>5. PICK p \in Projects : e.facet = <<"setups", p>> /\ e.of \subseteq {p} \union Setups \union Conns
  BY <1>4, FacetProject
<1>6. /\ d.do = do /\ d.of = of /\ d.facet = e.facet /\ d.by = e.by /\ d.to = e.to
      /\ d \in Effects
  BY <1>1, <1>2, <1>3 DEF Effects
<1>7. d.of \subseteq {p} \union Setups \union Conns
  BY <1>1, <1>2, <1>3, <1>5, <1>6
<1>8. Shaped(d)
  BY <1>1, <1>2, <1>3, <1>5, <1>6, <1>7 DEF Shaped
<1> QED
  BY <1>2, <1>3, <1>6, <1>8 DEF held

LEMMA ReadSetupsKeepsFlagsInv ==
  ASSUME FlagsInv, NEW e \in effects, ReadSetups(e)
  PROVE  FlagsInv'
<1>1. /\ e.do \in Reads /\ effects' = (effects \ {e}) \union FollowUps(e)
      /\ UNCHANGED <<client, project, sub, setup, conn, call, told>>
  BY DEF ReadSetups, data
<1>2. e \in Effects /\ Shaped(e)
  BY DEF FlagsInv, TypeOK, EffectsShaped
<1>3. \A d \in FollowUps(e) :
        /\ d \in Effects /\ Shaped(d) /\ d.facet = e.facet /\ d.by = e.by /\ d.to = e.to
        /\ e.do = "listSetups" => d.do = "conns"
  BY <1>1, <1>2, FollowUpsOK DEF FlagsInv
<1>4. TypeOK'
  BY <1>1, <1>3 DEF FlagsInv, TypeOK
<1>5. EffectsShaped'
  BY <1>1, <1>3 DEF FlagsInv, EffectsShaped
<1>6. Quiet' /\ SoleAsker'
  BY <1>1, <1>3 DEF FlagsInv, Quiet, SoleAsker, Asks
<1>7. Agreement'
  <2> SUFFICES ASSUME NEW f \in Facets, NEW to \in BOOLEAN, Claim(f, to),
                      NEW d \in effects', d.facet = f
               PROVE  d.do \in Lasting /\ (d.do = "removeProject" \/ d.to = to)
    BY <1>1, SameClaims DEF Agreement, Agreed
  <2>1. CASE d \in effects
    BY <2>1 DEF FlagsInv, Agreement, Agreed
  <2>2. CASE d \in FollowUps(e)
    <3>1. e.facet = f
      BY <1>3, <2>2
    <3>2. e.do = "listSetups" /\ e.to = to
      BY <1>1, <3>1 DEF FlagsInv, Agreement, Agreed, Lasting, Reads
    <3> QED
      BY <1>3, <2>2, <3>2 DEF Lasting
  <2> QED
    BY <1>1, <2>1, <2>2
<1>8. FlagCallsStay
  <2>1. e.do \notin Flagging
    BY <1>1 DEF Reads, Flagging
  <2> QED
    BY <1>1, <2>1, SameClaims DEF FlagCallsStay
<1>9. ClientsDue' /\ ProjectsDue'
  BY <1>1, <1>8, FlagsStay DEF FlagsInv
<1> QED
  BY <1>4, <1>5, <1>6, <1>7, <1>9 DEF FlagsInv

-----------------------------------------------------------------------------
(* Requests end *)

\* A refused request leaves no claim on the facet of the call that is lost.
LEMMA RefuseClaims ==
  ASSUME FlagsInv, NEW e \in effects, Refuse(e)
  PROVE  \A f \in Facets : /\ \A k \in Callers : Asks(k, f)' => Asks(k, f) /\ k # e.by
                           /\ \A to \in BOOLEAN : Claim(f, to)' => Claim(f, to) /\ e.facet # f
<1>1. told' = told /\ call' = [k \in Callers |-> IF k = e.by THEN Closed ELSE call[k]]
  BY DEF Refuse
<1>2. ASSUME NEW f \in Facets, NEW k \in Callers, Asks(k, f)'
      PROVE  Asks(k, f) /\ k # e.by /\ call'[k] = call[k]
  BY <1>1, <1>2 DEF Asks, Closed
<1>3. ASSUME NEW f \in Facets, NEW to \in BOOLEAN, Claim(f, to)'
      PROVE  Claim(f, to) /\ e.facet # f
  <2>1. CASE told'[f] = to
    BY <1>1, <2>1, NoneAssumption DEF Claim, FlagsInv, Quiet
  <2>2. CASE \E k \in Callers : Asks(k, f)' /\ call'[k].to = to
    BY <1>2, <2>2 DEF Claim, FlagsInv, SoleAsker
  <2> QED
    BY <1>3, <2>1, <2>2 DEF Claim
<1> QED
  BY <1>2, <1>3

LEMMA RefuseKeepsFlagsInv ==
  ASSUME FlagsInv, NEW e \in effects, Refuse(e)
  PROVE  FlagsInv'
<1>1. /\ effects' = {IF d.by = e.by THEN [d EXCEPT !.by = NoCaller] ELSE d : d \in effects \ {e}}
      /\ UNCHANGED <<client, project, sub, setup, conn, told>>
      /\ call' = [k \in Callers |-> IF k = e.by THEN Closed ELSE call[k]]
  BY DEF Refuse, data
<1>2. effects \subseteq Effects /\ \A d \in effects : Shaped(d)
  BY DEF FlagsInv, TypeOK, EffectsShaped
<1>3. \A c \in effects' : \E d \in effects \ {e} :
        /\ c \in Effects /\ c.do = d.do /\ c.kind = d.kind /\ c.of = d.of /\ c.to = d.to
        /\ c.facet = d.facet /\ (c.by = d.by \/ d.by = e.by)
  BY <1>1, <1>2 DEF Effects
<1>4. \A d \in effects \ {e} : \E c \in effects' :
        c.do = d.do /\ c.kind = d.kind /\ c.of = d.of /\ c.facet = d.facet
  <2> SUFFICES ASSUME NEW d \in effects \ {e}
               PROVE  \E c \in effects' :
                        c.do = d.do /\ c.kind = d.kind /\ c.of = d.of /\ c.facet = d.facet
    OBVIOUS
  <2> DEFINE c == IF d.by = e.by THEN [d EXCEPT !.by = NoCaller] ELSE d
  <2>1. c \in effects'
    BY <1>1
  <2>2. c.do = d.do /\ c.kind = d.kind /\ c.of = d.of /\ c.facet = d.facet
    BY <1>2 DEF Effects
  <2> QED
    BY <2>1, <2>2
<1>5. \A f \in Facets : /\ \A k \in Callers : Asks(k, f)' => Asks(k, f) /\ k # e.by
                        /\ \A to \in BOOLEAN : Claim(f, to)' => Claim(f, to) /\ e.facet # f
  BY RefuseClaims
<1>6. TypeOK'
  <2>1. call' \in [Callers -> Requests]
    BY <1>1 DEF FlagsInv, TypeOK, Requests, Closed
  <2> QED
    BY <1>1, <1>3, <2>1 DEF FlagsInv, TypeOK
<1>7. EffectsShaped'
  <2> SUFFICES ASSUME NEW c \in effects'
               PROVE  Shaped(c)
    BY DEF EffectsShaped
  <2>1. PICK d \in effects : c.do = d.do /\ c.of = d.of /\ c.facet = d.facet
    BY <1>3
  <2> QED
    BY <1>2, <2>1 DEF Shaped
<1>8. Quiet'
  BY <1>1, <1>3 DEF FlagsInv, Quiet
<1>9. SoleAsker'
  <2> SUFFICES ASSUME NEW k \in Callers, NEW f \in Facets, Asks(k, f)', NEW c \in effects', c.facet = f
               PROVE  c.by = k
    BY DEF SoleAsker
  <2>1. PICK d \in effects : c.facet = d.facet /\ (c.by = d.by \/ d.by = e.by)
    BY <1>3
  <2>2. d.by = k
    BY <1>5, <2>1 DEF FlagsInv, SoleAsker
  <2> QED
    BY <1>5, <2>1, <2>2
<1>10. Agreement'
  <2> SUFFICES ASSUME NEW f \in Facets, NEW to \in BOOLEAN, Claim(f, to)', NEW c \in effects', c.facet = f
               PROVE  c.do \in Lasting /\ (c.do = "removeProject" \/ c.to = to)
    BY DEF Agreement, Agreed
  <2>1. PICK d \in effects : c.do = d.do /\ c.to = d.to /\ c.facet = d.facet
    BY <1>3
  <2> QED
    BY <1>5, <2>1 DEF FlagsInv, Agreement, Agreed
<1>11. FlagCallsStay
  BY <1>4, <1>5 DEF FlagCallsStay
<1>12. ClientsDue' /\ ProjectsDue'
  BY <1>1, <1>11, FlagsStay DEF FlagsInv
<1> QED
  BY <1>6, <1>7, <1>8, <1>9, <1>10, <1>12 DEF FlagsInv

\* A request that nothing disturbed has no call on its way when it returns.
LEMMA ReturnClaims ==
  ASSUME FlagsInv, NEW k \in Callers, Return(k)
  PROVE  \A f \in Facets : /\ \A j \in Callers : Asks(j, f)' => Asks(j, f)
                           /\ \A to \in BOOLEAN : Claim(f, to)' => Claim(f, to)
                           /\ told'[f] # None => told'[f] = told[f] \/ Asks(k, f)
<1>1. /\ call' = [call EXCEPT ![k] = Closed] /\ call[k].open = TRUE
      /\ told' = [f \in Facets |->
           IF call[k].clean /\ f \in call[k].facets THEN call[k].to ELSE told[f]]
  BY DEF Return, FlagsInv, TypeOK, Requests
<1>2. call[k] \in Requests
  BY DEF FlagsInv, TypeOK
<1>3. ASSUME NEW f \in Facets, NEW j \in Callers, Asks(j, f)'
      PROVE  Asks(j, f) /\ call'[j] = call[j]
  BY <1>1, <1>3 DEF Asks, Closed, FlagsInv, TypeOK
<1>4. ASSUME NEW f \in Facets
      PROVE  told'[f] = told[f] \/ (Asks(k, f) /\ told'[f] = call[k].to)
  <2>1. CASE call[k].clean /\ f \in call[k].facets
    <3>1. call[k].clean = TRUE
      BY <1>2, <2>1 DEF Requests
    <3> QED
      BY <1>1, <2>1, <3>1 DEF Asks
  <2>2. CASE ~(call[k].clean /\ f \in call[k].facets)
    BY <1>1, <2>2
  <2> QED
    BY <2>1, <2>2
<1> QED
  BY <1>3, <1>4 DEF Claim

LEMMA ReturnKeepsFlagsInv ==
  ASSUME FlagsInv, NEW k \in Callers, Return(k)
  PROVE  FlagsInv'
<1>1. /\ UNCHANGED <<client, project, sub, setup, conn, effects>>
      /\ \A e \in effects : e.by # k
  BY DEF Return, data
<1>2. \A f \in Facets : /\ \A j \in Callers : Asks(j, f)' => Asks(j, f)
                        /\ \A to \in BOOLEAN : Claim(f, to)' => Claim(f, to)
                        /\ told'[f] # None => told'[f] = told[f] \/ Asks(k, f)
  BY ReturnClaims
<1>3. TypeOK'
  BY <1>1 DEF Return, FlagsInv, TypeOK, Requests, Closed
<1>4. Quiet'
  BY <1>1, <1>2 DEF FlagsInv, Quiet, SoleAsker
<1>5. SoleAsker' /\ Agreement' /\ EffectsShaped'
  BY <1>1, <1>2 DEF FlagsInv, SoleAsker, Agreement, Agreed, EffectsShaped
<1>6. FlagCallsStay
  BY <1>1, <1>2 DEF FlagCallsStay
<1>7. ClientsDue' /\ ProjectsDue'
  BY <1>1, <1>6, FlagsStay DEF FlagsInv
<1> QED
  BY <1>3, <1>4, <1>5, <1>7 DEF FlagsInv

-----------------------------------------------------------------------------
(* Subscriptions are created *)

LEMMA CreateClaims ==
  ASSUME TypeOK, NEW s \in Subs, CreateSubscription(s)
  PROVE  \A f \in Facets : /\ \A k \in Callers : Asks(k, f)' => Asks(k, f)
                           /\ \A to \in BOOLEAN : Claim(f, to)' => Claim(f, to) /\ f \notin About(s)
                           /\ told'[f] # None => told'[f] = told[f]
<1>1. /\ \A k \in Callers : call'[k] = [call[k] EXCEPT !.clean = @ /\ call[k].facets \cap About(s) = {}]
      /\ \A f \in Facets : told'[f] = IF f \in About(s) THEN None ELSE told[f]
  BY DEF CreateSubscription
<1>2. ASSUME NEW k \in Callers, NEW f \in Facets, Asks(k, f)'
      PROVE  Asks(k, f) /\ f \notin About(s) /\ call'[k].to = call[k].to
  <2>1. call[k] \in Requests
    BY DEF TypeOK
  <2>2. /\ call'[k].open = call[k].open /\ call'[k].facets = call[k].facets /\ call'[k].to = call[k].to
        /\ call'[k].clean = (call[k].clean /\ call[k].facets \cap About(s) = {})
    BY <1>1, <2>1 DEF Requests
  <2>3. call'[k].clean = TRUE /\ call'[k].open = TRUE /\ f \in call'[k].facets
    BY <1>2 DEF Asks
  <2>4. call[k].clean /\ call[k].facets \cap About(s) = {}
    BY <2>2, <2>3
  <2>5. call[k].clean = TRUE
    BY <2>1, <2>4 DEF Requests
  <2> QED
    BY <2>2, <2>3, <2>4, <2>5 DEF Asks
<1>3. ASSUME NEW f \in Facets, NEW to \in BOOLEAN, Claim(f, to)'
      PROVE  Claim(f, to) /\ f \notin About(s)
  <2>1. CASE told'[f] = to
    BY <1>1, <2>1, NoneAssumption DEF Claim
  <2>2. CASE \E k \in Callers : Asks(k, f)' /\ call'[k].to = to
    BY <1>2, <2>2 DEF Claim
  <2> QED
    BY <1>3, <2>1, <2>2 DEF Claim
<1> QED
  BY <1>1, <1>2, <1>3

LEMMA CreateSubscriptionKeepsFlagsInv ==
  ASSUME FlagsInv, NEW s \in Subs, CreateSubscription(s)
  PROVE  FlagsInv'
<1>1. /\ UNCHANGED <<client, project, setup, conn, effects>>
      /\ sub' = [sub EXCEPT ![s] = NewFlags(s)]
  BY DEF CreateSubscription
<1>2. \A f \in Facets : /\ \A k \in Callers : Asks(k, f)' => Asks(k, f)
                        /\ \A to \in BOOLEAN : Claim(f, to)' => Claim(f, to) /\ f \notin About(s)
                        /\ told'[f] # None => told'[f] = told[f]
  BY CreateClaims DEF FlagsInv
<1>3. TypeOK'
  <2>1. call' \in [Callers -> Requests]
    BY DEF CreateSubscription, FlagsInv, TypeOK, Requests
  <2>2. told' \in [Facets -> BOOLEAN \union {None}]
    BY DEF CreateSubscription, FlagsInv, TypeOK
  <2>3. sub' \in [Subs -> Flags \union {None}]
    BY <1>1 DEF FlagsInv, TypeOK, Flags, NewFlags
  <2> QED
    BY <1>1, <2>1, <2>2, <2>3 DEF FlagsInv, TypeOK
<1>4. Quiet' /\ SoleAsker' /\ Agreement' /\ EffectsShaped'
  BY <1>1, <1>2 DEF FlagsInv, Quiet, SoleAsker, Agreement, Agreed, EffectsShaped
<1>5. \A do, kind, of, f : Sent(do, kind, of, f) => Sent(do, kind, of, f)'
  BY <1>1 DEF Sent
<1>6. \A t \in Subs \ {s} : sub'[t] = sub[t]
  BY <1>1 DEF FlagsInv, TypeOK
<1>7. ClientsDue'
  <2> SUFFICES ASSUME NEW c \in Clients, NEW to \in BOOLEAN, Claim(<<"client", c>>, to)'
               PROVE  ClientDue(c, to)'
    BY DEF ClientsDue
  <2>1. Claim(<<"client", c>>, to) /\ <<"client", c>> \notin About(s)
    BY <1>2, FacetFacts
  <2>2. ClientDue(c, to) /\ ClientOf[ProjectOf[s]] # c
    BY <2>1 DEF FlagsInv, ClientsDue, About
  <2> QED
    BY <1>1, <1>5, <1>6, <2>2 DEF ClientDue
<1>8. ProjectsDue'
  <2> SUFFICES ASSUME NEW p \in Projects, NEW to \in BOOLEAN, Claim(<<"project", p>>, to)'
               PROVE  ProjectDue(p, to)'
    BY DEF ProjectsDue
  <2>1. Claim(<<"project", p>>, to) /\ <<"project", p>> \notin About(s)
    BY <1>2, FacetFacts
  <2>2. ProjectDue(p, to) /\ ProjectOf[s] # p
    BY <2>1 DEF FlagsInv, ProjectsDue, About
  <2> QED
    BY <1>1, <1>5, <1>6, <2>2 DEF ProjectDue
<1> QED
  BY <1>3, <1>4, <1>7, <1>8 DEF FlagsInv

-----------------------------------------------------------------------------
(* The first invariant holds *)

LEMMA InitFlagsInv == Init => FlagsInv
<1> SUFFICES ASSUME Init PROVE FlagsInv
  OBVIOUS
<1>1. TypeOK
  BY SetupsAssumption DEF Init, TypeOK, Closed, Requests, SetupRows
<1>2. \A f \in Facets, to \in BOOLEAN : ~Claim(f, to)
  BY NoneAssumption DEF Init, Claim, Asks, Closed
<1>3. EffectsShaped /\ Quiet /\ SoleAsker
  BY DEF Init, EffectsShaped, Quiet, SoleAsker
<1> QED
  BY <1>1, <1>2, <1>3, FacetFacts DEF FlagsInv, Agreement, ClientsDue, ProjectsDue

LEMMA NextKeepsFlagsInv == FlagsInv /\ [Next]_vars => FlagsInv'
<1> SUFFICES ASSUME FlagsInv, [Next]_vars
             PROVE  FlagsInv'
  OBVIOUS
<1>1. ASSUME NEW k \in Callers, Ask(k) \/ Return(k)
      PROVE  FlagsInv'
  BY <1>1, AskKeepsFlagsInv, ReturnKeepsFlagsInv
<1>2. ASSUME NEW s \in Subs, CreateSubscription(s)
      PROVE  FlagsInv'
  BY <1>2, CreateSubscriptionKeepsFlagsInv
<1>3. ASSUME NEW e \in effects, WriteClient(e) \/ WriteProject(e) \/ WriteFlags(e)
      PROVE  FlagsInv'
  BY <1>3, WriteClientKeepsFlagsInv, WriteProjectKeepsFlagsInv, WriteFlagsKeepsFlagsInv
<1>4. ASSUME NEW e \in effects, WriteSetups(e) \/ WriteConns(e)
      PROVE  FlagsInv'
  BY <1>4, WriteSetupsKeepsFlagsInv, WriteConnsKeepsFlagsInv
<1>5. ASSUME NEW e \in effects, ReadSetups(e) \/ Refuse(e)
      PROVE  FlagsInv'
  BY <1>5, ReadSetupsKeepsFlagsInv, RefuseKeepsFlagsInv
<1>6. CASE UNCHANGED vars
  <2>1. /\ UNCHANGED <<client, project, sub, setup, conn, call, effects, told>>
        /\ Fewer
    BY <1>6 DEF vars, Fewer
  <2>2. TypeOK' /\ EffectsShaped'
    BY <2>1 DEF FlagsInv, TypeOK, EffectsShaped
  <2>3. Quiet' /\ SoleAsker' /\ Agreement'
    BY <2>1, FewerKeepQuiet DEF FlagsInv
  <2>4. FlagCallsStay
    BY <2>1, SameClaims DEF FlagCallsStay
  <2>5. ClientsDue' /\ ProjectsDue'
    BY <2>1, <2>4, FlagsStay DEF FlagsInv
  <2> QED
    BY <2>2, <2>3, <2>5 DEF FlagsInv
<1> QED
  BY <1>1, <1>2, <1>3, <1>4, <1>5, <1>6 DEF Next

\* Whatever requests overlap, are refused halfway or leave calls behind, every
\* document, request and database call on its way keeps its type.
THEOREM TypeCorrect == Spec => []TypeOK
<1>1. FlagsInv => TypeOK
  BY DEF FlagsInv
<1> QED
  BY <1>1, InitFlagsInv, NextKeepsFlagsInv, PTL DEF Spec

\* What AnsweredTakesEffect says of the statuses of clients and projects.
FlagsTakeEffect ==
  \A f \in Facets : told[f] # None =>
    /\ f[1] = "client" => ClientShows(f[2], told[f])
    /\ f[1] = "project" => ProjectShows(f[2], told[f])

LEMMA FlagsInvShows == FlagsInv => FlagsTakeEffect
<1> SUFFICES ASSUME FlagsInv, NEW f \in Facets, told[f] # None
             PROVE  /\ f[1] = "client" => ClientShows(f[2], told[f])
                    /\ f[1] = "project" => ProjectShows(f[2], told[f])
  BY DEF FlagsTakeEffect
<1>1. told[f] \in BOOLEAN /\ Claim(f, told[f])
  BY DEF FlagsInv, TypeOK, Claim
<1>2. \A do, kind, of : ~Sent(do, kind, of, f)
  BY DEF FlagsInv, Quiet, Sent
<1>3. CASE f[1] = "client"
  <2>1. PICK c \in Clients : f = <<"client", c>>
    BY <1>3 DEF Facets
  <2>2. ClientDue(c, told[f])
    BY <1>1, <2>1 DEF FlagsInv, ClientsDue
  <2> QED
    BY <1>2, <2>1, <2>2 DEF ClientDue, ClientShows
<1>4. CASE f[1] = "project"
  <2>1. PICK p \in Projects : f = <<"project", p>>
    BY <1>4 DEF Facets
  <2>2. ProjectDue(p, told[f])
    BY <1>1, <2>1 DEF FlagsInv, ProjectsDue
  <2> QED
    BY <1>2, <2>1, <2>2 DEF ProjectDue, ProjectShows
<1> QED
  BY <1>3, <1>4

\* For any number of overlapping requests, and whatever is refused: a caller
\* who was told that the status of a client or a project is set finds it in
\* the document and in every copy of it in the subscriptions.
THEOREM FlagsFollow == Spec => []FlagsTakeEffect
  BY InitFlagsInv, NextKeepsFlagsInv, FlagsInvShows, PTL DEF Spec

-----------------------------------------------------------------------------
(* Setups and connections *)

\* Database calls only reach setups of the project that they were sent for,
\* and connections that setups of no other project hold.
OwnSetups(e) ==
  e.do # "insertSetup" =>
    \A u \in Setups : (u \in e.of /\ setup[u] # None) => setup[u].project = e.facet[2]
OwnConns(e) ==
  \A u \in Setups :
    (setup[u] # None /\ setup[u].conn \in e.of \cap Conns) => setup[u].project = e.facet[2]

Owned == \A e \in effects : e.do \notin Flagging => OwnSetups(e) /\ OwnConns(e)

SwitchSent(n, p) == \E e \in effects : e.do = "conns" /\ n \in e.of /\ e.facet = <<"setups", p>>

SetupDue(u, p, to) ==
  /\ setup[u].on = to \/ Sent("setups", None, {p}, <<"setups", p>>)
  /\ setup[u].conn # None =>
       \/ conn[setup[u].conn] \in {Switch(to), "gone"}
       \/ Sent("listSetups", None, {p}, <<"setups", p>>)
       \/ SwitchSent(setup[u].conn, p)

SetupsDue(p, to) ==
  \A u \in Setups : (setup[u] # None /\ setup[u].project = p) => SetupDue(u, p, to)

SetupsInv == \A p \in Projects, to \in BOOLEAN : Claim(<<"setups", p>>, to) => SetupsDue(p, to)

\* Steps that leave setups and connections alone, and the calls that change
\* them for somebody's claim.
Switching == {"setups", "listSetups", "conns"}

SetupCallsStay ==
  /\ \A f \in Facets, to \in BOOLEAN : Claim(f, to)' => Claim(f, to)
  /\ \A f \in Facets, e \in effects :
       (e.facet = f /\ e.do \in Switching /\ \E to \in BOOLEAN : Claim(f, to)') =>
         \E d \in effects' : d.do = e.do /\ d.kind = e.kind /\ d.of = e.of /\ d.facet = f

LEMMA SetupsStay ==
  ASSUME SetupsInv, SetupCallsStay, UNCHANGED <<setup, conn>>
  PROVE  SetupsInv'
<1> SUFFICES ASSUME NEW p \in Projects, NEW to \in BOOLEAN, Claim(<<"setups", p>>, to)',
                    NEW u \in Setups, setup[u] # None, setup[u].project = p
             PROVE  SetupDue(u, p, to)'
  BY DEF SetupsInv, SetupsDue
<1>1. <<"setups", p>> \in Facets
  BY FacetFacts
<1>2. SetupDue(u, p, to)
  BY <1>1 DEF SetupsInv, SetupsDue, SetupCallsStay
<1>3. "setups" \in Switching /\ "listSetups" \in Switching /\ "conns" \in Switching
  BY DEF Switching
<1>4. Sent("setups", None, {p}, <<"setups", p>>) => Sent("setups", None, {p}, <<"setups", p>>)'
  BY <1>1, <1>3 DEF Sent, SetupCallsStay
<1>5. Sent("listSetups", None, {p}, <<"setups", p>>) => Sent("listSetups", None, {p}, <<"setups", p>>)'
  BY <1>1, <1>3 DEF Sent, SetupCallsStay
<1>6. \A n : SwitchSent(n, p) => SwitchSent(n, p)'
  BY <1>1, <1>3 DEF SwitchSent, SetupCallsStay
<1> QED
  BY <1>2, <1>4, <1>5, <1>6 DEF SetupDue

\* A request sends both calls for the setups that its caller will be told of.
SetupsSuffice(k, facets, to, tells, sent) ==
  \A p \in Projects : (tells = TRUE /\ <<"setups", p>> \in facets) =>
    SetupsOfProject(k, p, to) \subseteq sent

LEMMA BeginKeepsSetupsInv ==
  ASSUME TypeOK, SetupsInv, NEW k \in Callers, NEW facets, facets \subseteq Facets, NEW to \in BOOLEAN,
         NEW tells \in BOOLEAN, NEW sent, Begin(k, facets, to, tells, sent),
         SetupsSuffice(k, facets, to, tells, sent)
  PROVE  SetupsInv'
<1>1. effects' = effects \union sent /\ UNCHANGED <<setup, conn>>
  BY DEF Begin, data
<1>2. ClaimsOnly(facets, to, tells)
  BY BeginClaims
<1> SUFFICES ASSUME NEW p \in Projects, NEW on \in BOOLEAN, Claim(<<"setups", p>>, on)',
                    NEW u \in Setups, setup[u] # None, setup[u].project = p
             PROVE  SetupDue(u, p, on)'
  BY <1>1 DEF SetupsInv, SetupsDue
<1> DEFINE f == <<"setups", p>>
<1>3. f \in Facets
  BY FacetFacts
<1>4. CASE Claim(f, on)
  <2>1. SetupDue(u, p, on)
    BY <1>4 DEF SetupsInv, SetupsDue
  <2>2. \A do, kind, of : Sent(do, kind, of, f) => Sent(do, kind, of, f)'
    BY <1>1 DEF Sent
  <2>3. \A n : SwitchSent(n, p) => SwitchSent(n, p)'
    BY <1>1 DEF SwitchSent
  <2> QED
    BY <1>1, <2>1, <2>2, <2>3 DEF SetupDue
<1>5. CASE f \in facets /\ on = to /\ tells = TRUE
  <2>1. SetupsOfProject(k, p, to) \subseteq effects'
    BY <1>1, <1>5 DEF SetupsSuffice
  <2>2. /\ Effect("setups", None, {p}, to, f, k) \in effects'
        /\ Effect("listSetups", None, {p}, to, f, k) \in effects'
    BY <2>1 DEF SetupsOfProject
  <2>3. Sent("setups", None, {p}, f)' /\ Sent("listSetups", None, {p}, f)'
    BY <2>2 DEF Sent, Effect
  <2> QED
    BY <2>3 DEF SetupDue
<1> QED
  BY <1>2, <1>3, <1>4, <1>5 DEF ClaimsOnly

LEMMA AskKeepsSetupsInv ==
  ASSUME FlagsInv, SetupsInv, NEW k \in Callers, Ask(k)
  PROVE  SetupsInv'
<1>0. TypeOK
  BY DEF FlagsInv
<1>1. ASSUME NEW c \in Clients, NEW to \in BOOLEAN, ClientSetStatus(k, c, to)
      PROVE  SetupsInv'
  <2>1. PICK sent : Begin(k, {<<"client", c>>}, to, TRUE, sent)
    BY <1>1 DEF ClientSetStatus
  <2>2. {<<"client", c>>} \subseteq Facets
    BY FacetFacts
  <2>3. SetupsSuffice(k, {<<"client", c>>}, to, TRUE, sent)
    BY DEF SetupsSuffice
  <2> QED
    BY <1>0, <2>1, <2>2, <2>3, BeginKeepsSetupsInv
<1>2. ASSUME NEW p \in Projects, NEW to \in BOOLEAN, ProjectSetStatus(k, p, to)
      PROVE  SetupsInv'
  <2>1. PICK sent : /\ Begin(k, {<<"project", p>>, <<"setups", p>>}, to, TRUE, sent)
                    /\ SetupsOfProject(k, p, to) \subseteq sent
    BY <1>2 DEF ProjectSetStatus
  <2>2. <<"project", p>> \in Facets /\ <<"setups", p>> \in Facets
    BY FacetFacts
  <2>3. {<<"project", p>>, <<"setups", p>>} \subseteq Facets
    BY <2>2
  <2>4. SetupsSuffice(k, {<<"project", p>>, <<"setups", p>>}, to, TRUE, sent)
    BY <2>1 DEF SetupsSuffice
  <2> QED
    BY <1>0, <2>1, <2>3, <2>4, BeginKeepsSetupsInv
<1>3. ASSUME NEW p \in Projects, NEW to \in BOOLEAN, ProjectSetNameAndStatus(k, p, to)
      PROVE  SetupsInv'
  <2>1. PICK sent : Begin(k, {<<"project", p>>}, to, TRUE, sent)
    BY <1>3 DEF ProjectSetNameAndStatus
  <2>2. {<<"project", p>>} \subseteq Facets
    BY FacetFacts
  <2>3. SetupsSuffice(k, {<<"project", p>>}, to, TRUE, sent)
    BY DEF SetupsSuffice
  <2> QED
    BY <1>0, <2>1, <2>2, <2>3, BeginKeepsSetupsInv
<1>4. ASSUME NEW p \in Projects, RemoveProject(k, p)
      PROVE  SetupsInv'
  <2>1. PICK sent : Begin(k, {<<"setups", p>>}, FALSE, TRUE, sent) /\ SetupsOfProject(k, p, FALSE) \subseteq sent
    BY <1>4 DEF RemoveProject
  <2>2. {<<"setups", p>>} \subseteq Facets
    BY FacetFacts
  <2>3. SetupsSuffice(k, {<<"setups", p>>}, FALSE, TRUE, sent)
    BY <2>1 DEF SetupsSuffice
  <2> QED
    BY <1>0, <2>1, <2>2, <2>3, BeginKeepsSetupsInv
<1>5. ASSUME NEW p \in Projects, NEW to \in BOOLEAN, NEW sent, OnSetups(k, p, to, sent)
      PROVE  SetupsInv'
  <2>1. Begin(k, {<<"setups", p>>}, to, FALSE, sent)
    BY <1>5 DEF OnSetups
  <2>2. {<<"setups", p>>} \subseteq Facets
    BY FacetFacts
  <2>3. SetupsSuffice(k, {<<"setups", p>>}, to, FALSE, sent)
    BY DEF SetupsSuffice
  <2> QED
    BY <1>0, <2>1, <2>2, <2>3, BeginKeepsSetupsInv
<1>6. CASE \/ \E u \in Setups, to \in BOOLEAN : SetupSetStatus(k, u, to)
           \/ \E p \in Projects : RemoveSetups(k, p)
           \/ \E u \in Setups : RemoveSetup(k, u)
           \/ \E u \in Setups, p \in Projects, n \in Conns \union {None} : CreateSetup(k, u, p, n)
  <2>1. \E p \in Projects, to \in BOOLEAN : \E sent : OfSetups(k, p, sent) /\ OnSetups(k, p, to, sent)
    BY <1>6, SetupRequests
  <2> QED
    BY <1>5, <2>1
<1> QED
  BY <1>1, <1>2, <1>3, <1>4, <1>6 DEF Ask

LEMMA WriteConnsKeepsSetupsInv ==
  ASSUME FlagsInv, SetupsInv, Owned, NEW e \in effects, WriteConns(e)
  PROVE  SetupsInv'
<1>1. /\ e \in Effects /\ Shaped(e) /\ effects' = effects \ {e} /\ UNCHANGED <<setup, call, told>>
      /\ e.do \in {"conns", "removeConns"} /\ e.do \notin Flagging
      /\ \A n \in Conns : conn'[n] = IF n \notin e.of \/ conn[n] = "gone" THEN conn[n]
                                     ELSE IF e.do = "conns" THEN Switch(e.to) ELSE "gone"
  BY LandTypes DEF FlagsInv, WriteConns, Land, Flagging
<1> SUFFICES ASSUME NEW p \in Projects, NEW to \in BOOLEAN, Claim(<<"setups", p>>, to),
                    NEW u \in Setups, setup[u] # None, setup[u].project = p
             PROVE  SetupDue(u, p, to)'
  BY <1>1, SameClaims DEF SetupsInv, SetupsDue
<1> DEFINE f == <<"setups", p>>
           n == setup[u].conn
<1>2. SetupDue(u, p, to) /\ f \in Facets /\ n \in Conns \union {None}
  BY FacetFacts DEF SetupsInv, SetupsDue, FlagsInv, TypeOK, SetupRows
<1>3. \A do, kind, of : (do \notin {"conns", "removeConns"} /\ Sent(do, kind, of, f)) => Sent(do, kind, of, f)'
  BY <1>1 DEF Sent
<1>4. PICK q \in Projects : e.facet = <<"setups", q>> /\ e.facet[2] = q
  BY <1>1, FacetProject
<1>5. CASE n # None /\ n \in e.of
  <2>1. q = p
    BY <1>1, <1>2, <1>4, <1>5 DEF Owned, OwnConns
  <2>2. e.do = "conns" /\ e.to = to
    BY <1>1, <1>2, <1>4, <2>1 DEF FlagsInv, Agreement, Agreed, Lasting
  <2>3. conn'[n] \in {Switch(to), "gone"}
    BY <1>1, <1>2, <1>5, <2>2
  <2> QED
    BY <1>1, <1>2, <1>3, <2>3 DEF SetupDue
<1>6. CASE n = None \/ n \notin e.of
  <2>1. n # None => conn'[n] = conn[n]
    BY <1>1, <1>2, <1>6
  <2>2. (n # None /\ SwitchSent(n, p)) => SwitchSent(n, p)'
    BY <1>1, <1>6 DEF SwitchSent
  <2> QED
    BY <1>1, <1>2, <1>3, <2>1, <2>2 DEF SetupDue
<1> QED
  BY <1>5, <1>6

LEMMA WriteSetupsKeepsSetupsInv ==
  ASSUME FlagsInv, SetupsInv, Owned, NEW e \in effects, WriteSetups(e)
  PROVE  SetupsInv'
<1>1. /\ e \in Effects /\ Shaped(e) /\ effects' = effects \ {e} /\ UNCHANGED <<conn, call, told>>
      /\ e.do \in {"setups", "setup", "removeSetups", "insertSetup"} /\ e.do \notin Flagging
  BY LandTypes DEF FlagsInv, WriteSetups, Land, Flagging
<1>2. PICK q \in Projects : /\ e.facet = <<"setups", q>> /\ e.facet[2] = q
                            /\ e.of \subseteq {q} \union Setups \union Conns
  BY <1>1, FacetProject
<1> SUFFICES ASSUME NEW p \in Projects, NEW to \in BOOLEAN, Claim(<<"setups", p>>, to),
                    NEW u \in Setups, setup'[u] # None, setup'[u].project = p
             PROVE  SetupDue(u, p, to)'
  BY <1>1, SameClaims DEF SetupsInv, SetupsDue
<1> DEFINE f == <<"setups", p>>
<1>3. f \in Facets /\ (setup[u] # None => setup[u] \in SetupRows)
  BY FacetFacts DEF FlagsInv, TypeOK
<1>4. q = p => e.do = "setups" /\ e.to = to
  BY <1>1, <1>2, <1>3 DEF FlagsInv, Agreement, Agreed, Lasting
<1>5. \A kind, of : Sent("listSetups", kind, of, f) => Sent("listSetups", kind, of, f)'
  BY <1>1 DEF Sent
<1>6. \A n : SwitchSent(n, p) => SwitchSent(n, p)'
  BY <1>1 DEF SwitchSent
<1>7. ~(e.do = "insertSetup" /\ u \in e.of)
  <2> SUFFICES ASSUME e.do = "insertSetup", u \in e.of
               PROVE  FALSE
    OBVIOUS
  <2>1. setup'[u].project = q
    BY <1>2 DEF WriteSetups
  <2> QED
    BY <1>4, <2>1
<1>8. /\ ~Touches(e, u) => setup'[u] = setup[u]
      /\ Touches(e, u) => e.do # "removeSetups" /\ setup'[u] = [setup[u] EXCEPT !.on = e.to]
      /\ setup[u] # None
  BY <1>7 DEF WriteSetups, Touches
<1>9. setup[u].project = p /\ setup'[u].conn = setup[u].conn
  BY <1>3, <1>8 DEF SetupRows
<1>10. SetupDue(u, p, to)
  BY <1>8, <1>9 DEF SetupsInv, SetupsDue
<1>11. setup'[u].on = to \/ Sent("setups", None, {p}, f)'
  <2>1. CASE Touches(e, u) /\ e.do # "insertSetup"
    <3>1. q = p
      <4>1. CASE u \in e.of
        BY <1>1, <1>2, <1>8, <1>9, <2>1, <4>1 DEF Owned, OwnSetups
      <4>2. CASE p \in e.of
        BY <1>2, <4>2, IdsAssumption
      <4> QED
        BY <1>9, <2>1, <4>1, <4>2 DEF Touches
    <3>2. setup'[u].on = e.to
      BY <1>3, <1>8, <2>1 DEF SetupRows
    <3> QED
      BY <1>4, <3>1, <3>2
  <2>2. CASE ~Touches(e, u)
    <3>1. ~(e.do = "setups" /\ e.of = {p})
      BY <1>8, <1>9, <2>2 DEF Touches
    <3>2. Sent("setups", None, {p}, f) => Sent("setups", None, {p}, f)'
      BY <1>1, <3>1, SentOrLanded
    <3> QED
      BY <1>8, <1>10, <2>2, <3>2 DEF SetupDue
  <2>3. CASE Touches(e, u) /\ e.do = "insertSetup"
    <3>1. q # p
      BY <1>4, <2>3
    <3>2. p \notin e.of
      BY <1>2, <3>1, IdsAssumption
    <3> QED
      BY <1>7, <1>9, <2>3, <3>2 DEF Touches
  <2> QED
    BY <2>1, <2>2, <2>3
<1> QED
  BY <1>1, <1>5, <1>6, <1>9, <1>10, <1>11 DEF SetupDue

\* The calls that follow a listing reach each connection that was held.
LEMMA ListedAreSent ==
  ASSUME NEW e, e.do = "listSetups", NEW u \in Found(e), setup[u].conn # None
  PROVE  \E d \in FollowUps(e) :
           d = [e EXCEPT !.do = "conns", !.of = {setup[v].conn : v \in Found(e)} \ {None}]
<1> DEFINE held == {setup[v].conn : v \in Found(e)} \ {None}
<1>1. held # {}
  OBVIOUS
<1> HIDE DEF held
<1>2. [e EXCEPT !.do = "conns", !.of = held] \in FollowUps(e)
  BY <1>1 DEF FollowUps, held
<1> QED
  BY <1>2 DEF held

LEMMA ReadSetupsKeepsSetupsInv ==
  ASSUME FlagsInv, SetupsInv, NEW e \in effects, ReadSetups(e)
  PROVE  SetupsInv'
<1>1. /\ e.do \in Reads /\ effects' = (effects \ {e}) \union FollowUps(e)
      /\ UNCHANGED <<setup, conn, call, told>> /\ e \in Effects
  BY DEF ReadSetups, data, FlagsInv, TypeOK
<1> SUFFICES ASSUME NEW p \in Projects, NEW to \in BOOLEAN, Claim(<<"setups", p>>, to),
                    NEW u \in Setups, setup[u] # None, setup[u].project = p
             PROVE  SetupDue(u, p, to)'
  BY <1>1, SameClaims DEF SetupsInv, SetupsDue
<1> DEFINE f == <<"setups", p>>
           n == setup[u].conn
<1>2. SetupDue(u, p, to)
  BY DEF SetupsInv, SetupsDue
<1>3. Sent("setups", None, {p}, f) => Sent("setups", None, {p}, f)'
  BY <1>1 DEF Sent, Reads
<1>4. \A m : SwitchSent(m, p) => SwitchSent(m, p)'
  BY <1>1 DEF SwitchSent, Reads
<1>5. (n # None /\ Sent("listSetups", None, {p}, f)) => Sent("listSetups", None, {p}, f)' \/ SwitchSent(n, p)'
  <2> SUFFICES ASSUME n # None, Sent("listSetups", None, {p}, f)
               PROVE  Sent("listSetups", None, {p}, f)' \/ SwitchSent(n, p)'
    OBVIOUS
  <2>1. PICK d \in effects : d.do = "listSetups" /\ d.kind = None /\ d.of = {p} /\ d.facet = f
    BY DEF Sent
  <2>2. CASE d # e
    BY <1>1, <2>1, <2>2 DEF Sent
  <2>3. CASE d = e
    <3>1. u \in Found(e)
      BY <2>1, <2>3 DEF Found, Touches
    <3> DEFINE held == {setup[v].conn : v \in Found(e)} \ {None}
    <3>2. [e EXCEPT !.do = "conns", !.of = held] \in FollowUps(e)
      BY <2>1, <2>3, <3>1, ListedAreSent
    <3>3. n \in held
      BY <3>1
    <3> HIDE DEF held
    <3> DEFINE c == [e EXCEPT !.do = "conns", !.of = held]
    <3>4. c \in effects'
      BY <1>1, <3>2
    <3>5. c.do = "conns" /\ c.of = held /\ c.facet = f
      BY <1>1, <2>1, <2>3 DEF Effects
    <3> HIDE DEF c
    <3>6. n \in c.of
      BY <3>3, <3>5
    <3> QED
      BY <1>1, <3>4, <3>5, <3>6 DEF SwitchSent
  <2> QED
    BY <2>2, <2>3
<1> QED
  BY <1>1, <1>2, <1>3, <1>4, <1>5 DEF SetupDue

LEMMA OthersKeepSetupsInv ==
  ASSUME FlagsInv, SetupsInv, NEW e \in effects, WriteClient(e) \/ WriteProject(e) \/ WriteFlags(e)
  PROVE  SetupsInv'
<1>1. effects' = effects \ {e} /\ UNCHANGED <<setup, conn, call, told>> /\ e.do \notin Switching
  BY DEF WriteClient, WriteProject, WriteFlags, Land, Switching
<1>2. SetupCallsStay
  BY <1>1, SameClaims DEF SetupCallsStay
<1> QED
  BY <1>1, <1>2, SetupsStay

LEMMA RefuseKeepsSetupsInv ==
  ASSUME FlagsInv, SetupsInv, NEW e \in effects, Refuse(e)
  PROVE  SetupsInv'
<1>1. /\ effects' = {IF d.by = e.by THEN [d EXCEPT !.by = NoCaller] ELSE d : d \in effects \ {e}}
      /\ UNCHANGED <<setup, conn>> /\ effects \subseteq Effects
  BY DEF Refuse, data, FlagsInv, TypeOK
<1>2. \A f \in Facets, to \in BOOLEAN : Claim(f, to)' => Claim(f, to) /\ e.facet # f
  BY RefuseClaims
<1>3. ASSUME NEW d \in effects \ {e}
      PROVE  \E c \in effects' : c.do = d.do /\ c.kind = d.kind /\ c.of = d.of /\ c.facet = d.facet
  <2> DEFINE c == IF d.by = e.by THEN [d EXCEPT !.by = NoCaller] ELSE d
  <2>1. c \in effects'
    BY <1>1
  <2>2. c.do = d.do /\ c.kind = d.kind /\ c.of = d.of /\ c.facet = d.facet
    BY <1>1 DEF Effects
  <2> QED
    BY <2>1, <2>2
<1>4. SetupCallsStay
  BY <1>2, <1>3 DEF SetupCallsStay
<1> QED
  BY <1>1, <1>4, SetupsStay

LEMMA NextKeepsSetupsInv == FlagsInv /\ Owned /\ SetupsInv /\ [Next]_vars => SetupsInv'
<1> SUFFICES ASSUME FlagsInv, Owned, SetupsInv, [Next]_vars
             PROVE  SetupsInv'
  OBVIOUS
<1>1. ASSUME NEW k \in Callers, Ask(k)
      PROVE  SetupsInv'
  BY <1>1, AskKeepsSetupsInv
<1>2. ASSUME NEW k \in Callers, Return(k)
      PROVE  SetupsInv'
  <2>1. UNCHANGED <<setup, conn, effects>>
    BY <1>2 DEF Return, data
  <2>2. \A f \in Facets, to \in BOOLEAN : Claim(f, to)' => Claim(f, to)
    BY <1>2, ReturnClaims
  <2>3. SetupCallsStay
    BY <2>1, <2>2 DEF SetupCallsStay
  <2> QED
    BY <2>1, <2>3, SetupsStay
<1>3. ASSUME NEW s \in Subs, CreateSubscription(s)
      PROVE  SetupsInv'
  <2>1. UNCHANGED <<setup, conn, effects>>
    BY <1>3 DEF CreateSubscription
  <2>2. \A f \in Facets, to \in BOOLEAN : Claim(f, to)' => Claim(f, to)
    BY <1>3, CreateClaims DEF FlagsInv
  <2>3. SetupCallsStay
    BY <2>1, <2>2 DEF SetupCallsStay
  <2> QED
    BY <2>1, <2>3, SetupsStay
<1>4. ASSUME NEW e \in effects, WriteClient(e) \/ WriteProject(e) \/ WriteFlags(e)
      PROVE  SetupsInv'
  BY <1>4, OthersKeepSetupsInv
<1>5. ASSUME NEW e \in effects, WriteSetups(e) \/ WriteConns(e)
      PROVE  SetupsInv'
  BY <1>5, WriteSetupsKeepsSetupsInv, WriteConnsKeepsSetupsInv
<1>6. ASSUME NEW e \in effects, ReadSetups(e) \/ Refuse(e)
      PROVE  SetupsInv'
  BY <1>6, ReadSetupsKeepsSetupsInv, RefuseKeepsSetupsInv
<1>7. CASE UNCHANGED vars
  <2>1. UNCHANGED <<setup, conn, call, told, effects>>
    BY <1>7 DEF vars
  <2>2. SetupCallsStay
    BY <2>1, SameClaims DEF SetupCallsStay
  <2> QED
    BY <2>1, <2>2, SetupsStay
<1> QED
  BY <1>1, <1>2, <1>3, <1>4, <1>5, <1>6, <1>7 DEF Next

LEMMA SetupsInvShows == FlagsInv /\ SetupsInv => AnsweredTakesEffect
<1> SUFFICES ASSUME FlagsInv, SetupsInv, NEW f \in Facets, told[f] # None
             PROVE  CASE f[1] = "client"  -> ClientShows(f[2], told[f])
                      [] f[1] = "project" -> ProjectShows(f[2], told[f])
                      [] f[1] = "setups"  -> SetupsShow(f[2], told[f])
  BY DEF AnsweredTakesEffect
<1>1. /\ f[1] = "client" => ClientShows(f[2], told[f])
      /\ f[1] = "project" => ProjectShows(f[2], told[f])
  BY FlagsInvShows DEF FlagsTakeEffect
<1>2. told[f] \in BOOLEAN /\ Claim(f, told[f])
  BY DEF FlagsInv, TypeOK, Claim
<1>3. f[1] = "setups" => SetupsShow(f[2], told[f])
  <2> SUFFICES ASSUME f[1] = "setups"
               PROVE  SetupsShow(f[2], told[f])
    OBVIOUS
  <2>1. PICK p \in Projects : f = <<"setups", p>>
    BY DEF Facets
  <2>2. (\A do, kind, of : ~Sent(do, kind, of, f)) /\ \A n : ~SwitchSent(n, p)
    BY <2>1 DEF FlagsInv, Quiet, Sent, SwitchSent
  <2>3. SetupsDue(p, told[f])
    BY <1>2, <2>1 DEF SetupsInv
  <2> QED
    BY <2>1, <2>2, <2>3 DEF SetupsDue, SetupDue, SetupsShow
<1>4. f[1] \in {"client", "project", "setups"}
  BY DEF Facets
<1> QED
  BY <1>1, <1>3, <1>4

LEMMA InitSetupsInv == Init => SetupsInv
<1> SUFFICES ASSUME Init PROVE SetupsInv
  OBVIOUS
<1>1. \A f \in Facets, to \in BOOLEAN : ~Claim(f, to)
  BY NoneAssumption DEF Init, Claim, Asks, Closed
<1> QED
  BY <1>1, FacetFacts DEF SetupsInv

\* What a caller is told is true for any requests, refusals and calls left
\* behind, as long as no call on its way concerns a setup or a connection that
\* has passed to another project in the meantime.
LEMMA OwnedAnswersAreTrue == Spec /\ []Owned => []AnsweredTakesEffect
<1>1. FlagsInv /\ Owned /\ SetupsInv /\ [Next]_vars => SetupsInv' /\ FlagsInv'
  BY NextKeepsFlagsInv, NextKeepsSetupsInv
<1> QED
  BY <1>1, InitFlagsInv, InitSetupsInv, SetupsInvShows, PTL DEF Spec

-----------------------------------------------------------------------------
(* When calls stay with their project *)

\* With a single project there is none to pass to.
LEMMA OneProjectOwns == (\A p, q \in Projects : p = q) /\ FlagsInv => Owned
<1> SUFFICES ASSUME \A p, q \in Projects : p = q, FlagsInv, NEW e \in effects, e.do \notin Flagging
             PROVE  OwnSetups(e) /\ OwnConns(e)
  BY DEF Owned
<1>1. e.facet[2] \in Projects
  BY FacetProject DEF FlagsInv, EffectsShaped
<1>2. \A u \in Setups : setup[u] # None => setup[u].project \in Projects
  BY DEF FlagsInv, TypeOK, SetupRows
<1> QED
  BY <1>1, <1>2 DEF OwnSetups, OwnConns

\* One request after another, and no call refused.
InTurn == CanFail = FALSE /\ \A j, k \in Callers : j = k

\* Then every call on its way is the open request's; the ones that read before
\* a removal or that insert are sent on their own, so that what is read is
\* there; and no two projects hold one connection.
Removals == {"removeSetups", "removeConns"}
Single == {"insertSetup", "readToRemove", "listToRemove"}
Needing == {"readSetup", "readToRemove"}

Attended == \A e \in effects : e.by \in Callers /\ call[e.by].open = TRUE
Phased ==
  \A d, e \in effects : /\ d.do \in Single => d = e
                        /\ d.do \in Removals => e.do \in Removals
Present == \A e \in effects : e.do \in Needing => Found(e) # {}
Apart ==
  \A u, v \in Setups :
    (setup[u] # None /\ setup[v] # None /\ setup[u].conn = setup[v].conn /\ setup[u].conn \in Conns)
      => setup[u].project = setup[v].project
Unheld ==
  \A e \in effects, u \in Setups :
    (e.do = "insertSetup" /\ setup[u] # None) => setup[u].conn \notin e.of \cap Conns

TurnInv == Attended /\ Phased /\ Present /\ Apart /\ Unheld /\ Owned

\* What a request may send at once.
Together(sent) ==
  /\ \A d, e \in sent : d.do \in Single => d = e
  /\ \A e \in sent :
       /\ e.do \notin Removals
       /\ e.do \in Needing => Found(e) # {}
       /\ e.do = "insertSetup" =>
            \A u \in Setups : setup[u] # None => setup[u].conn \notin e.of \cap Conns
       /\ e.do \notin Flagging => OwnSetups(e) /\ OwnConns(e)

LEMMA BeginKeepsTurnInv ==
  ASSUME InTurn, TypeOK, TurnInv, NEW k \in Callers, NEW facets, NEW to, NEW tells, NEW sent,
         Begin(k, facets, to, tells, sent), \A e \in sent : e.by = k, Together(sent)
  PROVE  TurnInv'
<1>1. effects = {}
  BY DEF InTurn, TurnInv, Attended, Begin
<1>2. effects' = sent /\ UNCHANGED setup /\ call'[k].open = TRUE
  BY <1>1 DEF Begin, data
<1>3. Attended'
  BY <1>2 DEF Attended
<1>4. Phased'
  BY <1>2 DEF Together, Phased
<1>5. Apart'
  BY <1>2 DEF Apart, TurnInv
<1>6. Present' /\ Unheld'
  BY <1>2 DEF Together, Present, Unheld, Found, Touches
<1>7. Owned'
  BY <1>2 DEF Together, Owned, OwnSetups, OwnConns
<1> QED
  BY <1>3, <1>4, <1>5, <1>6, <1>7 DEF TurnInv

\* Calls about statuses, and those that name a project, concern no setup or
\* connection by its id.
Plain(k, sent) ==
  \A e \in sent : /\ e.by = k
                  /\ \/ e.do \in Flagging
                     \/ /\ e.do \in {"setups", "listSetups", "removeProject"}
                        /\ \E p \in Projects : e.of = {p}

LEMMA PlainKeepsTurnInv ==
  ASSUME InTurn, TypeOK, TurnInv, NEW k \in Callers, NEW facets, NEW to, NEW tells, NEW sent,
         Begin(k, facets, to, tells, sent), Plain(k, sent)
  PROVE  TurnInv'
<1>1. Together(sent)
  BY IdsAssumption DEF Plain, Together, Flagging, Single, Removals, Needing, OwnSetups, OwnConns
<1>2. \A e \in sent : e.by = k
  BY DEF Plain
<1> QED
  BY <1>1, <1>2, BeginKeepsTurnInv

LEMMA AskKeepsTurnInv ==
  ASSUME InTurn, FlagsInv, TurnInv, NEW k \in Callers, Ask(k)
  PROVE  TurnInv'
<1>0. TypeOK /\ \A u \in Setups : setup[u] # None => setup[u].project \in Projects
  BY DEF FlagsInv, TypeOK, SetupRows
<1>1. ASSUME NEW c \in Clients, NEW to \in BOOLEAN, ClientSetStatus(k, c, to)
      PROVE  TurnInv'
  <2> DEFINE f == <<"client", c>>
             sent == {Effect("client", None, {c}, to, f, k)}
                       \union {Effect(IF kind = "fabric" THEN "isProjectActive" ELSE "isClientActive",
                                      kind, {c}, to, f, k) : kind \in Collections}
  <2>1. Begin(k, {f}, to, TRUE, sent)
    BY <1>1 DEF ClientSetStatus
  <2>2. Plain(k, sent)
    BY DEF Plain, Effect, Flagging
  <2> HIDE DEF sent
  <2> QED
    BY <1>0, <2>1, <2>2, PlainKeepsTurnInv
<1>2. ASSUME NEW p \in Projects, NEW to \in BOOLEAN, NEW e, e.by = k,
             e.do \in {"project", "removeProject"}, e.of = {p}
      PROVE  /\ Plain(k, {e} \union ProjectFlags(k, p, to))
             /\ Plain(k, {e} \union ProjectFlags(k, p, to) \union SetupsOfProject(k, p, to))
             /\ Plain(k, {e} \union SetupsOfProject(k, p, to))
  BY <1>2 DEF Plain, ProjectFlags, SetupsOfProject, Effect, Flagging
<1>3. ASSUME NEW p \in Projects, NEW to \in BOOLEAN,
             \/ ProjectSetStatus(k, p, to) \/ ProjectSetNameAndStatus(k, p, to) \/ RemoveProject(k, p)
      PROVE  TurnInv'
  <2> DEFINE e == Effect("project", None, {p}, to, <<"project", p>>, k)
             r == Effect("removeProject", None, {p}, TRUE, <<"setups", p>>, k)
  <2>1. /\ e.by = k /\ e.do = "project" /\ e.of = {p}
        /\ r.by = k /\ r.do = "removeProject" /\ r.of = {p}
    BY DEF Effect
  <2>2. ProjectSetStatus(k, p, to) =>
          Begin(k, {<<"project", p>>, <<"setups", p>>}, to, TRUE,
                {e} \union ProjectFlags(k, p, to) \union SetupsOfProject(k, p, to))
    BY DEF ProjectSetStatus
  <2>3. ProjectSetNameAndStatus(k, p, to) =>
          Begin(k, {<<"project", p>>}, to, TRUE, {e} \union ProjectFlags(k, p, to))
    BY DEF ProjectSetNameAndStatus
  <2>4. RemoveProject(k, p) =>
          Begin(k, {<<"setups", p>>}, FALSE, TRUE, {r} \union SetupsOfProject(k, p, FALSE))
    BY DEF RemoveProject
  <2> HIDE DEF e, r
  <2>5. CASE ProjectSetStatus(k, p, to)
    BY <1>0, <1>2, <2>1, <2>2, <2>5, PlainKeepsTurnInv
  <2>6. CASE ProjectSetNameAndStatus(k, p, to)
    BY <1>0, <1>2, <2>1, <2>3, <2>6, PlainKeepsTurnInv
  <2>7. CASE RemoveProject(k, p)
    BY <1>0, <1>2, <2>1, <2>4, <2>7, PlainKeepsTurnInv
  <2> QED
    BY <1>3, <2>5, <2>6, <2>7
<1>4. ASSUME NEW u \in Setups, NEW to \in BOOLEAN, SetupSetStatus(k, u, to)
      PROVE  TurnInv'
  <2>1. PICK p \in Projects : p = setup[u].project /\ setup[u] # None
    BY <1>0, <1>4 DEF SetupSetStatus
  <2> DEFINE sent == {Effect(do, None, {u}, to, <<"setups", p>>, k) : do \in {"setup", "readSetup"}}
  <2>2. Begin(k, {<<"setups", p>>}, to, FALSE, sent)
    BY <1>4, <2>1 DEF SetupSetStatus, OnSetups
  <2>3. \A e \in sent : /\ e.do \in {"setup", "readSetup"} /\ e.of = {u} /\ e.facet[2] = p /\ e.by = k
    BY DEF Effect
  <2> HIDE DEF sent
  <2>4. Together(sent)
    BY <2>1, <2>3, IdsAssumption
    DEF Together, Single, Removals, Flagging, OwnSetups, OwnConns, Found, Touches
  <2> QED
    BY <1>0, <2>2, <2>3, <2>4, BeginKeepsTurnInv
<1>5. ASSUME NEW p \in Projects, RemoveSetups(k, p)
      PROVE  TurnInv'
  <2> DEFINE e == Effect("listToRemove", None, {p}, FALSE, <<"setups", p>>, k)
  <2>1. Begin(k, {<<"setups", p>>}, FALSE, FALSE, {e})
    BY <1>5 DEF RemoveSetups, OnSetups
  <2>2. e.do = "listToRemove" /\ e.of = {p} /\ e.by = k
    BY DEF Effect
  <2> HIDE DEF e
  <2>3. Together({e})
    BY <2>2, IdsAssumption DEF Together, Removals, Needing, OwnSetups, OwnConns
  <2> QED
    BY <1>0, <2>1, <2>2, <2>3, BeginKeepsTurnInv
<1>6. ASSUME NEW u \in Setups, RemoveSetup(k, u)
      PROVE  TurnInv'
  <2>1. PICK p \in Projects : p = setup[u].project /\ setup[u] # None
    BY <1>0, <1>6 DEF RemoveSetup
  <2> DEFINE e == Effect("readToRemove", None, {u}, FALSE, <<"setups", p>>, k)
  <2>2. Begin(k, {<<"setups", p>>}, FALSE, FALSE, {e})
    BY <1>6, <2>1 DEF RemoveSetup, OnSetups
  <2>3. e.do = "readToRemove" /\ e.of = {u} /\ e.facet[2] = p /\ e.by = k
    BY DEF Effect
  <2> HIDE DEF e
  <2>4. Together({e})
    BY <2>1, <2>3, IdsAssumption DEF Together, Removals, OwnSetups, OwnConns, Found, Touches
  <2> QED
    BY <1>0, <2>2, <2>3, <2>4, BeginKeepsTurnInv
<1>7. ASSUME NEW u \in Setups, NEW p \in Projects, NEW n \in Conns \union {None}, CreateSetup(k, u, p, n)
      PROVE  TurnInv'
  <2> DEFINE e == Effect("insertSetup", None, {u, n} \ {None}, TRUE, <<"setups", p>>, k)
  <2>1. Begin(k, {<<"setups", p>>}, TRUE, FALSE, {e})
    BY <1>7 DEF CreateSetup, OnSetups
  <2>2. e.do = "insertSetup" /\ e.of \cap Conns \subseteq {n} /\ e.by = k
    BY IdsAssumption DEF Effect
  <2> HIDE DEF e
  <2>3. \A v \in Setups : setup[v] # None => setup[v].conn # n
    BY <1>7 DEF CreateSetup, HasSetup
  <2>4. Together({e})
    BY <2>2, <2>3 DEF Together, Removals, Needing, OwnSetups, OwnConns
  <2> QED
    BY <1>0, <2>1, <2>2, <2>4, BeginKeepsTurnInv
<1> QED
  BY <1>1, <1>3, <1>4, <1>5, <1>6, <1>7 DEF Ask

\* Steps after which no setup has another project or connection than before.
Kept ==
  \A u \in Setups : setup'[u] # None =>
    setup[u] # None /\ setup'[u].project = setup[u].project /\ setup'[u].conn = setup[u].conn

LEMMA KeptKeepsTurnInv ==
  ASSUME TurnInv, effects' \subseteq effects, UNCHANGED call, Kept, Present'
  PROVE  TurnInv'
<1>1. Attended'
  BY DEF TurnInv, Attended
<1>2. Phased'
  BY DEF TurnInv, Phased
<1>3. Apart'
  BY DEF TurnInv, Apart, Kept
<1>4. Unheld'
  BY DEF TurnInv, Unheld, Kept
<1>5. Owned'
  BY DEF TurnInv, Owned, OwnSetups, OwnConns, Kept
<1> QED
  BY <1>1, <1>2, <1>3, <1>4, <1>5 DEF TurnInv

LEMMA LandKeepsTurnInv ==
  ASSUME TurnInv, NEW e \in effects, WriteClient(e) \/ WriteProject(e) \/ WriteFlags(e) \/ WriteConns(e)
  PROVE  TurnInv'
<1>1. effects' \subseteq effects /\ UNCHANGED <<call, setup>>
  BY DEF WriteClient, WriteProject, WriteFlags, WriteConns, Land
<1>2. Kept
  BY <1>1 DEF Kept
<1>3. Present'
  BY <1>1 DEF TurnInv, Present, Found, Touches
<1> QED
  BY <1>1, <1>2, <1>3, KeptKeepsTurnInv

LEMMA WriteSetupsKeepsTurnInv ==
  ASSUME FlagsInv, TurnInv, NEW e \in effects, WriteSetups(e)
  PROVE  TurnInv'
<1>1. /\ effects' = effects \ {e} /\ UNCHANGED call
      /\ e.do \in {"setups", "setup", "removeSetups", "insertSetup"}
  BY DEF WriteSetups, Land
<1>2. \A u \in Setups : setup'[u] =
        IF e.do = "insertSetup" /\ u \in e.of
        THEN [project |-> e.facet[2], on |-> TRUE,
              conn |-> IF e.of \cap Conns = {} THEN None ELSE CHOOSE n \in e.of \cap Conns : TRUE]
        ELSE IF ~Touches(e, u) THEN setup[u]
        ELSE IF e.do = "removeSetups" THEN None
        ELSE [setup[u] EXCEPT !.on = e.to]
  BY DEF WriteSetups
<1>3. \A u \in Setups : setup[u] \in SetupRows \union {None}
  BY DEF FlagsInv, TypeOK
<1>4. ASSUME NEW u \in Setups, e.do # "removeSetups", e.do = "insertSetup" => u \notin e.of
      PROVE  /\ setup'[u] # None <=> setup[u] # None
             /\ setup'[u] # None => /\ setup'[u].project = setup[u].project
                                    /\ setup'[u].conn = setup[u].conn
  <2>1. CASE Touches(e, u)
    <3>1. setup[u] # None /\ setup[u] \in SetupRows
      BY <1>3, <2>1 DEF Touches
    <3>2. setup'[u] = [setup[u] EXCEPT !.on = e.to] /\ e.to \in BOOLEAN
      BY <1>2, <1>4, <2>1 DEF FlagsInv, TypeOK, Effects
    <3>3. setup'[u] \in SetupRows
      BY <3>1, <3>2 DEF SetupRows
    <3> QED
      BY <3>1, <3>2, <3>3, SetupsAssumption DEF SetupRows
  <2>2. CASE ~Touches(e, u)
    BY <1>2, <1>4, <2>2
  <2> QED
    BY <2>1, <2>2
<1>5. CASE e.do = "insertSetup"
  <2>1. effects' = {}
    BY <1>1, <1>5 DEF TurnInv, Phased, Single
  <2>2. Apart'
    <3> SUFFICES ASSUME NEW u \in Setups, NEW v \in Setups, setup'[u] # None, setup'[v] # None,
                        setup'[u].conn = setup'[v].conn, setup'[u].conn \in Conns
                 PROVE  setup'[u].project = setup'[v].project
      BY DEF Apart
    <3> DEFINE m == IF e.of \cap Conns = {} THEN None ELSE CHOOSE n \in e.of \cap Conns : TRUE
    <3> DEFINE row == [project |-> e.facet[2], on |-> TRUE, conn |-> m]
    <3>1. \A w \in Setups : w \in e.of => setup'[w] = row
      BY <1>2, <1>5, Zenon
    <3>2. m \in (e.of \cap Conns) \union {None}
      OBVIOUS
    <3> HIDE DEF m
    <3>3. row.conn = m /\ row.project = e.facet[2]
      OBVIOUS
    <3> HIDE DEF row
    <3>4. \A w \in Setups : w \in e.of => setup'[w].conn = m /\ setup'[w].project = e.facet[2]
      BY <3>1, <3>3
    <3>5. \A w \in Setups : setup[w] # None => setup[w].conn \notin e.of \cap Conns
      BY <1>5 DEF TurnInv, Unheld
    <3>6. None \notin Conns
      BY NoneAssumption
    <3>7. \A w \in {u, v} : w \in e.of \/ /\ setup[w] # None /\ setup[w].project = setup'[w].project
                                          /\ setup[w].conn = setup'[w].conn
      BY <1>4, <1>5
    <3> QED
      BY <3>4, <3>2, <3>5, <3>6, <3>7 DEF TurnInv, Apart
  <2> QED
    BY <1>1, <2>1, <2>2 DEF TurnInv, Attended, Phased, Present, Unheld, Owned
<1>6. CASE e.do = "removeSetups"
  <2>1. Kept
    BY <1>2, <1>6 DEF Kept
  <2>2. Present'
    BY <1>1, <1>6 DEF TurnInv, Phased, Present, Removals, Needing
  <2> QED
    BY <1>1, <2>1, <2>2, KeptKeepsTurnInv
<1>7. CASE e.do \in {"setups", "setup"}
  <2>1. \A u \in Setups : /\ setup'[u] # None <=> setup[u] # None
                          /\ setup'[u] # None => /\ setup'[u].project = setup[u].project
                                                 /\ setup'[u].conn = setup[u].conn
    BY <1>4, <1>7
  <2>2. Kept
    BY <2>1 DEF Kept
  <2>3. \A d : Found(d) \subseteq Found(d)'
    BY <2>1 DEF Found, Touches
  <2>4. Present'
    <3> SUFFICES ASSUME NEW d \in effects', d.do \in Needing
                 PROVE  Found(d)' # {}
      BY DEF Present
    <3>1. Found(d) # {}
      BY <1>1 DEF TurnInv, Present
    <3> QED
      BY <2>3, <3>1
  <2> QED
    BY <1>1, <2>2, <2>4, KeptKeepsTurnInv
<1> QED
  BY <1>1, <1>5, <1>6, <1>7

LEMMA ReadSetupsKeepsTurnInv ==
  ASSUME FlagsInv, TurnInv, NEW e \in effects, ReadSetups(e)
  PROVE  TurnInv'
<1>1. /\ e.do \in Reads /\ effects' = (effects \ {e}) \union FollowUps(e) /\ UNCHANGED <<setup, call>>
      /\ e \in Effects /\ Shaped(e) /\ e.do \notin Flagging /\ e.do # "insertSetup"
  BY DEF ReadSetups, data, FlagsInv, TypeOK, EffectsShaped, Reads, Flagging
<1>2. \A d \in FollowUps(e) :
        /\ d.facet = e.facet /\ d.by = e.by
        /\ \/ d.do \in {"conns", "removeConns"} /\ d.of = {setup[u].conn : u \in Found(e)} \ {None}
           \/ d.do = "removeSetups" /\ d.of = e.of
        /\ e.do \in {"listSetups", "readSetup"} => d.do = "conns"
        /\ d.do = "conns" => e.do \in {"listSetups", "readSetup"}
  BY <1>1, FollowUpsOK DEF FlagsInv
<1>3. \A d \in FollowUps(e) : d.do \notin Single \union Needing /\ d.do # "insertSetup"
  BY <1>2 DEF Single, Needing
<1>4. Attended'
  BY <1>1, <1>2 DEF TurnInv, Attended
<1>5. Phased'
  <2>1. CASE e.do \in {"readToRemove", "listToRemove"}
    <3>1. effects' = FollowUps(e)
      BY <1>1, <2>1 DEF TurnInv, Phased, Single
    <3>2. \A d \in FollowUps(e) : d.do \in Removals
      BY <1>2, <2>1 DEF Removals
    <3> QED
      BY <1>3, <3>1, <3>2 DEF Phased
  <2>2. CASE e.do \in {"listSetups", "readSetup"}
    <3>1. \A d \in effects : d.do \notin Single /\ d.do \notin Removals
      BY <2>2 DEF TurnInv, Phased, Single, Removals
    <3>2. \A d \in FollowUps(e) : d.do \notin Removals
      BY <1>2, <2>2 DEF Removals
    <3> QED
      BY <1>1, <1>3, <3>1, <3>2 DEF Phased
  <2> QED
    BY <1>1, <2>1, <2>2 DEF Reads
<1>6. Present'
  BY <1>1, <1>3 DEF TurnInv, Present, Found, Touches
<1>7. Apart'
  BY <1>1 DEF TurnInv, Apart
<1>8. Unheld'
  BY <1>1, <1>3 DEF TurnInv, Unheld
<1>9. ASSUME NEW d \in FollowUps(e)
      PROVE  OwnSetups(d) /\ OwnConns(d)
  <2>1. OwnSetups(e) /\ OwnConns(e)
    BY <1>1 DEF TurnInv, Owned
  <2>2. CASE d.do = "removeSetups"
    BY <1>1, <1>2, <2>1, <2>2 DEF OwnSetups, OwnConns
  <2>3. CASE d.do # "removeSetups"
    <3>1. d.of = {setup[u].conn : u \in Found(e)} \ {None} /\ d.facet = e.facet
      BY <1>2, <2>3
    <3>2. PICK p \in Projects : e.facet = <<"setups", p>> /\ e.facet[2] = p
                                /\ e.of \subseteq {p} \union Setups \union Conns
      BY <1>1, FacetProject
    <3>3. \A v \in Found(e) : setup[v] # None /\ setup[v].project = p
      <4> SUFFICES ASSUME NEW v \in Setups, Touches(e, v)
                   PROVE  setup[v] # None /\ setup[v].project = p
        BY DEF Found
      <4>1. setup[v] # None /\ setup[v].project \in Projects
        BY DEF FlagsInv, TypeOK, SetupRows, Touches
      <4> QED
        BY <1>1, <2>1, <3>2, <4>1, IdsAssumption DEF Touches, OwnSetups
    <3>4. d.of \subseteq Conns
      BY <3>1, <3>3 DEF FlagsInv, TypeOK, SetupRows, Found
    <3>5. OwnSetups(d)
      BY <3>4, IdsAssumption DEF OwnSetups
    <3>6. OwnConns(d)
      <4> SUFFICES ASSUME NEW u \in Setups, setup[u] # None, setup[u].conn \in d.of \cap Conns
                   PROVE  setup[u].project = p
        BY <3>1, <3>2 DEF OwnConns
      <4>1. PICK v \in Found(e) : setup[v].conn = setup[u].conn
        BY <3>1
      <4> QED
        BY <3>3, <4>1 DEF TurnInv, Apart, Found
    <3> QED
      BY <3>5, <3>6
  <2> QED
    BY <2>2, <2>3
<1>10. ASSUME NEW d \in effects, d.do \notin Flagging
       PROVE  OwnSetups(d)' /\ OwnConns(d)'
  BY <1>1, <1>10 DEF TurnInv, Owned, OwnSetups, OwnConns
<1>11. ASSUME NEW d \in FollowUps(e)
       PROVE  OwnSetups(d)' /\ OwnConns(d)'
  BY <1>1, <1>9 DEF OwnSetups, OwnConns
<1>12. Owned'
  BY <1>1, <1>10, <1>11 DEF Owned
<1> QED
  BY <1>4, <1>5, <1>6, <1>7, <1>8, <1>12 DEF TurnInv

\* A request returns when its last call has landed, and none is refused.
LEMMA RestKeepsTurnInv ==
  ASSUME InTurn, FlagsInv, TurnInv,
         \/ \E k \in Callers : Return(k)
         \/ \E s \in Subs : CreateSubscription(s)
         \/ \E e \in effects : Refuse(e)
         \/ UNCHANGED vars
  PROVE  TurnInv'
<1>1. ~ \E e \in effects : Refuse(e)
  BY DEF InTurn, Refuse, TurnInv, Present, Needing
<1>2. UNCHANGED <<setup, effects>>
  BY <1>1 DEF Return, CreateSubscription, vars, data
<1>3. Attended'
  <2>1. ASSUME NEW k \in Callers, Return(k)
        PROVE  effects = {}
    BY <2>1 DEF InTurn, TurnInv, Attended, Return
  <2>2. ASSUME NEW s \in Subs, CreateSubscription(s)
        PROVE  \A k \in Callers : call'[k].open = call[k].open
    BY <2>2 DEF CreateSubscription, FlagsInv, TypeOK, Requests
  <2>3. effects = {} \/ UNCHANGED call \/ \A k \in Callers : call'[k].open = call[k].open
    BY <1>1, <2>1, <2>2 DEF vars
  <2> QED
    BY <1>2, <2>3 DEF TurnInv, Attended
<1>4. Phased' /\ Apart' /\ Unheld'
  BY <1>2 DEF TurnInv, Phased, Apart, Unheld
<1>5. Present' /\ Owned'
  BY <1>2 DEF TurnInv, Present, Found, Touches, Owned, OwnSetups, OwnConns
<1> QED
  BY <1>3, <1>4, <1>5 DEF TurnInv

LEMMA NextKeepsTurnInv == InTurn /\ FlagsInv /\ TurnInv /\ [Next]_vars => TurnInv'
<1> SUFFICES ASSUME InTurn, FlagsInv, TurnInv, [Next]_vars PROVE TurnInv'
  OBVIOUS
<1>1. ASSUME NEW k \in Callers, Ask(k)
      PROVE  TurnInv'
  BY <1>1, AskKeepsTurnInv
<1>2. ASSUME NEW e \in effects,
             \/ WriteClient(e) \/ WriteProject(e) \/ WriteFlags(e) \/ WriteSetups(e) \/ WriteConns(e)
             \/ ReadSetups(e)
      PROVE  TurnInv'
  BY <1>2, LandKeepsTurnInv, WriteSetupsKeepsTurnInv, ReadSetupsKeepsTurnInv
<1> QED
  BY <1>1, <1>2, RestKeepsTurnInv DEF Next

LEMMA InitTurnInv == Init => TurnInv
<1> SUFFICES ASSUME Init PROVE TurnInv
  OBVIOUS
<1>1. effects = {} /\ setup = InitialSetups
  BY DEF Init
<1>2. Apart
  BY <1>1, NoneAssumption, SetupsAssumption DEF Apart
<1> QED
  BY <1>1, <1>2 DEF TurnInv, Attended, Phased, Present, Unheld, Owned

-----------------------------------------------------------------------------
(* What holds when calls stay with their project *)

\* One project, or one request after another and none refused.  Otherwise a
\* call can arrive after its setup, or the connection it switches, has passed
\* to another project.
Orderly == InTurn \/ \A p, q \in Projects : p = q

LEMMA CallsStayOwned ==
  ASSUME Orderly
  PROVE  Spec => []Owned
<1>1. CASE \A p, q \in Projects : p = q
  <2>1. FlagsInv => Owned
    BY <1>1, OneProjectOwns
  <2> QED
    BY <2>1, InitFlagsInv, NextKeepsFlagsInv, PTL DEF Spec
<1>2. CASE InTurn
  <2>1. FlagsInv /\ TurnInv /\ [Next]_vars => TurnInv'
    BY <1>2, NextKeepsTurnInv
  <2>2. TurnInv => Owned
    BY DEF TurnInv
  <2> QED
    BY <2>1, <2>2, InitFlagsInv, NextKeepsFlagsInv, InitTurnInv, PTL DEF Spec
<1> QED
  BY <1>1, <1>2 DEF Orderly

\* Whoever was told that a status is set finds it on every document that it
\* concerns, whatever earlier requests were refused halfway
\* (client.service.ts setStatus, project.service.ts setStatus,
\* project.blockchain.setup.service.ts setStatusByProjectId).
THEOREM AnswersAreTrue ==
  ASSUME Orderly
  PROVE  Spec => []AnsweredTakesEffect
<1>1. Spec => []Owned
  BY CallsStayOwned
<1> QED
  BY <1>1, OwnedAnswersAreTrue, PTL

\* A private connection is switched or removed only for the project whose
\* setup holds it (project.blockchain.setup.service.ts setStatusByProjectId,
\* setStatus, removeById, removeByProjectId).
THEOREM ConnectionsAreOwned ==
  ASSUME Orderly
  PROVE  Spec => ConnectionsFollowTheirOwner
<1> DEFINE Follows ==
      \A n \in Conns : conn'[n] # conn[n] =>
        \E e \in effects \ effects' :
          \A u \in Setups : (setup[u] # None /\ setup[u].conn = n) => setup[u].project = e.facet[2]
<1>1. FlagsInv /\ Owned /\ [Next]_vars => [Follows]_vars
  <2> SUFFICES ASSUME FlagsInv, Owned, Next, NEW n \in Conns, conn'[n] # conn[n]
               PROVE  \E e \in effects \ effects' :
                        \A u \in Setups : (setup[u] # None /\ setup[u].conn = n)
                                            => setup[u].project = e.facet[2]
    OBVIOUS
  <2>1. PICK e \in effects : WriteConns(e)
    <3>1. ASSUME NEW k, NEW facets, NEW to, NEW tells, NEW sent, Begin(k, facets, to, tells, sent)
          PROVE  FALSE
      BY <3>1 DEF Begin, data
    <3>2. ~ \E k \in Callers : Ask(k)
      BY <3>1 DEF Ask, ClientSetStatus, ProjectSetStatus, ProjectSetNameAndStatus, SetupSetStatus,
                  RemoveProject, RemoveSetups, RemoveSetup, CreateSetup, OnSetups
    <3>3. ~ \E k \in Callers : Return(k)
      BY DEF Return, data
    <3>4. ~ \E s \in Subs : CreateSubscription(s)
      BY DEF CreateSubscription
    <3> QED
      BY <3>2, <3>3, <3>4 DEF Next, WriteClient, WriteProject, WriteFlags, WriteSetups, ReadSetups,
                              Refuse, data
  <2>2. e \notin effects' /\ n \in e.of /\ e.do \notin Flagging
    BY <2>1 DEF WriteConns, Land, Flagging
  <2>3. OwnConns(e)
    BY <2>2 DEF Owned
  <2> QED
    BY <2>2, <2>3 DEF OwnConns
<1>2. Spec => []Owned
  BY CallsStayOwned
<1> QED
  BY <1>1, <1>2, InitFlagsInv, NextKeepsFlagsInv, PTL DEF Spec, ConnectionsFollowTheirOwner
=============================================================================
