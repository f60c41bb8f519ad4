------------------------ MODULE ManagedTransportProofs ------------------------
(***************************************************************************)
(* Proofs about ManagedTransport for any finite set of connections, any    *)
(* calls and whatever the nodes answer.                                    *)
(***************************************************************************)
EXTENDS ManagedTransport, FiniteSetTheorems, WellFoundedInduction, TLAPS

-----------------------------------------------------------------------------
(* Lists and positions *)

\* The provers cannot instantiate the library's induction rules, but a set of
\* naturals has a least element because < is well-founded.
LEMMA LeastPosition ==
  ASSUME NEW S \in SUBSET Nat, S # {}
  PROVE  Min(S) \in S
<1>1. PICK m \in S : \A n \in S : ~(<<n, m>> \in OpToRel(<, Nat))
  BY NatLessThanWellFounded, WFMin
<1>2. \A n \in S : ~(n < m)
  BY <1>1 DEF OpToRel
<1>3. \A n \in S : m <= n
  BY <1>2
<1> QED
  BY <1>3 DEF Min

\* An ordering of a finite set holds each of its elements once.
LEMMA OrderingsCover ==
  ASSUME NEW S, IsFiniteSet(S), NEW new \in SetToSeqs(S)
  PROVE  new \in Seq(S) /\ IsInjective(new) /\ ToSet(new) = S
<1> DEFINE D == 1 .. Cardinality(S)
<1>1. Cardinality(S) \in Nat
  BY FS_CardinalityType
<1>2. new \in [D -> S] /\ \A i, j \in D : i # j => new[i] # new[j]
  BY DEF SetToSeqs
<1>3. new \in Injection(D, S)
  BY <1>2 DEF Injection, IsInjective
<1>4. IsFiniteSet(D) /\ Cardinality(D) = Cardinality(S)
  BY <1>1, FS_Interval
<1>5. new \in Surjection(D, S)
  BY <1>3, <1>4, FS_Injection
<1>6. \A s \in S : \E i \in D : new[i] = s
  BY <1>5 DEF Surjection
<1>7. new \in Seq(S)
  BY <1>1, <1>2
<1>8. IsInjective(new)
  BY <1>2 DEF IsInjective
<1>9. ToSet(new) = S
  BY <1>2, <1>6 DEF ToSet
<1> QED
  BY <1>7, <1>8, <1>9

\* What a search has found and is not loaded yet is appended.
LEMMA Appended ==
  ASSUME NEW services \in Seq(Connections), IsInjective(services),
         NEW found \in SUBSET Connections, NEW rest, rest = found \ ToSet(services),
         NEW new \in SetToSeqs(rest)
  PROVE  /\ services \o new \in Seq(Connections)
         /\ IsInjective(services \o new)
         /\ Len(services \o new) >= Len(services)
         /\ \A i \in DOMAIN services : (services \o new)[i] = services[i]
         /\ ToSet(services \o new) = ToSet(services) \union found
<1> DEFINE all == services \o new
<1>1. IsFiniteSet(rest)
  BY ConnectionsAssumption, FS_Subset
<1>2. new \in Seq(rest) /\ IsInjective(new) /\ ToSet(new) = rest
  BY <1>1, OrderingsCover
<1>3. new \in Seq(Connections)
  BY <1>2
<1>4. /\ all \in Seq(Connections) /\ Len(all) = Len(services) + Len(new)
      /\ \A i \in 1 .. Len(services) : all[i] = services[i]
      /\ \A i \in Len(services) + 1 .. Len(all) : all[i] = new[i - Len(services)]
  BY <1>3
<1>5. \A i \in DOMAIN new : new[i] \in found /\ new[i] \notin ToSet(services)
  BY <1>2
<1>6. ToSet(all) = ToSet(services) \union found
  <2>1. ASSUME NEW i \in DOMAIN all
        PROVE  all[i] \in ToSet(services) \union found
    BY <1>3, <1>4, <1>5 DEF ToSet
  <2>2. ASSUME NEW c \in ToSet(services)
        PROVE  c \in ToSet(all)
    BY <1>4 DEF ToSet
  <2>3. ASSUME NEW c \in ToSet(new)
        PROVE  c \in ToSet(all)
    <3>1. PICK j \in DOMAIN new : new[j] = c
      BY DEF ToSet
    <3>2. all[Len(services) + j] = c /\ Len(services) + j \in DOMAIN all
      BY <1>3, <1>4, <3>1
    <3> QED
      BY <3>2 DEF ToSet
  <2> QED
    BY <1>2, <2>1, <2>2, <2>3 DEF ToSet
<1>7. IsInjective(all)
  <2> SUFFICES ASSUME NEW i \in DOMAIN all, NEW j \in DOMAIN all, all[i] = all[j]
               PROVE  i = j
    BY DEF IsInjective
  <2>1. CASE i \in DOMAIN services /\ j \in DOMAIN services
    BY <1>4, <2>1 DEF IsInjective
  <2>2. CASE i \notin DOMAIN services /\ j \notin DOMAIN services
    BY <1>2, <1>3, <1>4, <2>2 DEF IsInjective
  <2>3. CASE i \in DOMAIN services /\ j \notin DOMAIN services
    BY <1>3, <1>4, <1>5, <2>3 DEF ToSet
  <2>4. CASE i \notin DOMAIN services /\ j \in DOMAIN services
    BY <1>3, <1>4, <1>5, <2>4 DEF ToSet
  <2> QED
    BY <2>1, <2>2, <2>3, <2>4
<1> QED
  BY <1>3, <1>4, <1>6, <1>7

-----------------------------------------------------------------------------
(* The invariant *)

\* The records of calls, with positions in P.
CallsAt(P) ==
  [phase : {"idle", "search", "resolve", "find", "height", "check", "mark"},
   want : Wanted \union {None}, got : Connections \union {None, Rejected},
   now : Time, since : Time, found : SUBSET Connections,
   at : P, asked : Connections \union {None}, again : BOOLEAN, height : Heights \union {None}]

Positions == 0 .. Len(loaded)
LoadedPublics == {loaded[i] : i \in Publics(loaded)}

\* What a search that looks for documents up to time t should have loaded.
Missing(t) ==
  {c \in Connections \ exempt :
     doc[c] # None /\ doc[c].status = "enabled" /\ doc[c].at <= t} \ ToSet(loaded)

\* What a call knows stays true for as long as it is used: its position and
\* the node it asks are of a public service, nothing older than the search
\* before its own is missing, and what is missing its query has found.
RecordOK(x) ==
  /\ x.asked \in LoadedPublics \union {None}
  /\ x.got \in Connections \ Public => x.want = x.got
  /\ x.phase = "find" => x.at \in Publics(loaded)
  /\ x.phase = "height" => x.asked # None
  /\ x.phase = "check" => x.at # 0
  /\ x.phase = "search" => x.since <= lastRead /\ x.now <= clock /\ Missing(x.since) = {}
  /\ x.phase = "resolve" => x.now <= lastRead /\ Missing(x.now) \subseteq x.found

CallOK(k) == \A x \in {call[k]} : RecordOK(x)

IInv ==
  /\ TypeOK
  /\ searchedAt <= lastRead /\ lastRead <= clock
  /\ Missing(searchedAt) = {}
  /\ reference \in LoadedPublics \union {None}
  /\ \A k \in Calls : CallOK(k)

\* Lists of positions ("0 .." included, for a call that has none).
LEMMA PositionFacts ==
  ASSUME NEW services \in Seq(Connections)
  PROVE  /\ 0 \in 0 .. Len(services) /\ DOMAIN services \subseteq 0 .. Len(services)
         /\ Publics(services) \subseteq DOMAIN services
         /\ \A i \in Publics(services) : services[i] \in Public \cap Connections
BY DEF Publics

LEMMA TypedCalls == TypeOK <=> TypeOK /\ call \in [Calls -> CallsAt(Positions)]
BY DEF TypeOK, CallRecords, CallsAt, Positions

LEMMA CallTypes ==
  ASSUME NEW P, NEW x \in CallsAt(P), NEW Q, P \subseteq Q
  PROVE  x \in CallsAt(Q)
BY DEF CallsAt

LEMMA CallChanges ==
  ASSUME NEW P, call \in [Calls -> CallsAt(P)], NEW k \in Calls, NEW x \in CallsAt(P),
         call' = [call EXCEPT ![k] = x]
  PROVE  /\ call' \in [Calls -> CallsAt(P)]
         /\ call'[k] = x
         /\ \A j \in Calls \ {k} : call'[j] = call[j]
OBVIOUS

-----------------------------------------------------------------------------
(* The records that calls become *)

LEMMA IdleTypes ==
  ASSUME NEW P, 0 \in P
  PROVE  Idle \in CallsAt(P)
<1>1. 0 \in Time
  BY TimeAssumption DEF Time
<1> QED
  BY <1>1 DEF Idle, CallsAt

LEMMA AnswerRecord ==
  ASSUME NEW P, 0 \in P, NEW want \in Wanted \union {None},
         NEW got \in Connections \union {None, Rejected}
  PROVE  LET x == [Idle EXCEPT !.want = want, !.got = got] IN
         /\ x \in CallsAt(P)
         /\ x.phase = "idle" /\ x.asked = None /\ x.want = want /\ x.got = got
BY IdleTypes DEF Idle, CallsAt

-----------------------------------------------------------------------------
(* What steps leave to the calls *)

\* The list only grows at its end.
Extends(services, more) ==
  /\ more \in Seq(Connections)
  /\ Len(more) >= Len(services)
  /\ \A i \in DOMAIN services : more[i] = services[i]

LEMMA PublicsStay ==
  ASSUME TypeOK, Extends(loaded, loaded')
  PROVE  /\ Publics(loaded) \subseteq Publics(loaded')
         /\ LoadedPublics \subseteq LoadedPublics'
         /\ Positions \subseteq Positions'
<1>1. loaded \in Seq(Connections)
  BY DEF TypeOK
<1>2. Publics(loaded) \subseteq Publics(loaded')
  BY <1>1 DEF Extends, Publics
<1>3. LoadedPublics \subseteq LoadedPublics'
  <2> SUFFICES ASSUME NEW i \in Publics(loaded)
               PROVE  loaded[i] \in LoadedPublics'
    BY DEF LoadedPublics
  <2>1. i \in Publics(loaded') /\ loaded'[i] = loaded[i]
    BY <1>1, <1>2 DEF Extends, Publics
  <2> QED
    BY <2>1 DEF LoadedPublics
<1> QED
  BY <1>1, <1>2, <1>3 DEF Positions, Extends

LEMMA RecordStays ==
  ASSUME TypeOK, Extends(loaded, loaded'),
         clock' \in Time, clock' >= clock, lastRead' \in Time, lastRead' >= lastRead,
         \A t \in Time : t <= lastRead => Missing(t)' \subseteq Missing(t),
         NEW P, NEW x \in CallsAt(P), RecordOK(x)
  PROVE  RecordOK(x)'
<1>1. x.now \in Time /\ x.since \in Time
  BY DEF CallsAt
<1>2. clock \in Nat /\ lastRead \in Nat /\ clock' \in Nat /\ lastRead' \in Nat
      /\ x.now \in Nat /\ x.since \in Nat
  BY <1>1, TimeAssumption DEF TypeOK, Time
<1>3. x.phase = "search" => x.since <= lastRead' /\ x.now <= clock' /\ Missing(x.since)' = {}
  <2> SUFFICES ASSUME x.phase = "search"
               PROVE  x.since <= lastRead' /\ x.now <= clock' /\ Missing(x.since)' = {}
    OBVIOUS
  <2>1. x.since <= lastRead /\ x.now <= clock /\ Missing(x.since) = {}
    BY DEF RecordOK
  <2>2. Missing(x.since)' \subseteq Missing(x.since)
    BY <1>1, <2>1
  <2> QED
    BY <1>2, <2>1, <2>2
<1>4. x.phase = "resolve" => x.now <= lastRead' /\ Missing(x.now)' \subseteq x.found
  <2> SUFFICES ASSUME x.phase = "resolve"
               PROVE  x.now <= lastRead' /\ Missing(x.now)' \subseteq x.found
    OBVIOUS
  <2>1. x.now <= lastRead /\ Missing(x.now) \subseteq x.found
    BY DEF RecordOK
  <2>2. Missing(x.now)' \subseteq Missing(x.now)
    BY <1>1, <2>1
  <2> QED
    BY <1>2, <2>1, <2>2
<1>5. /\ x.asked \in LoadedPublics' \union {None}
      /\ x.phase = "find" => x.at \in Publics(loaded')
  BY PublicsStay DEF RecordOK
<1> QED
  BY <1>3, <1>4, <1>5 DEF RecordOK

\* A step of the world: the calls and the service's fields stay.
LEMMA WorldKeepsIInv ==
  ASSUME IInv, UNCHANGED <<fields, call, lastRead>>,
         clock' \in Time, clock' >= clock,
         doc' \in [Connections -> Docs \union {None}], settled' \in BOOLEAN,
         exempt' \subseteq Connections,
         \A t \in Time : t <= lastRead => Missing(t)' \subseteq Missing(t)
  PROVE  IInv'
<1>1. TypeOK'
  BY DEF IInv, TypeOK, CallRecords, fields
<1>2. Extends(loaded, loaded') /\ LoadedPublics' = LoadedPublics
  BY DEF IInv, TypeOK, Extends, fields, LoadedPublics, Publics
<1>3. lastRead' \in Time /\ lastRead' >= lastRead /\ lastRead' <= clock'
  BY TimeAssumption DEF IInv, TypeOK, Time
<1>4. call \in [Calls -> CallsAt(Positions)]
  BY TypedCalls DEF IInv
<1>5. \A k \in Calls : CallOK(k)'
  BY <1>2, <1>3, <1>4, RecordStays DEF IInv, CallOK
<1>6. Missing(searchedAt)' = {}
  BY DEF IInv, TypeOK, fields
<1> QED
  BY <1>1, <1>2, <1>3, <1>5, <1>6 DEF IInv, fields

\* A step of one call that leaves documents and lists as they are.
LEMMA CallKeepsIInv ==
  ASSUME IInv, NEW k \in Calls, NEW x \in CallsAt(Positions), call' = [call EXCEPT ![k] = x],
         UNCHANGED <<world, loaded, searchedAt>>,
         active' \in [Types -> BOOLEAN], checked' \in BOOLEAN,
         reference' \in LoadedPublics \union {None},
         lastRead' \in Time, lastRead' >= lastRead, lastRead' <= clock,
         RecordOK(x)'
  PROVE  IInv'
<1>1. call \in [Calls -> CallsAt(Positions)]
  BY TypedCalls DEF IInv
<1>2. /\ call' \in [Calls -> CallsAt(Positions)] /\ call'[k] = x
      /\ \A j \in Calls \ {k} : call'[j] = call[j]
  BY <1>1, CallChanges
<1>3. Positions' = Positions /\ LoadedPublics' = LoadedPublics /\ Extends(loaded, loaded')
  BY DEF Positions, LoadedPublics, Publics, Extends, IInv, TypeOK
<1>4. TypeOK'
  <2>1. call' \in [Calls -> CallRecords']
    BY <1>2 DEF CallRecords, CallsAt, Positions
  <2>2. reference' \in Connections \union {None}
    BY PositionFacts DEF LoadedPublics, IInv, TypeOK
  <2> QED
    BY <2>1, <2>2 DEF IInv, TypeOK, world
<1>5. Missing(searchedAt)' = {} /\ \A t \in Time : t <= lastRead => Missing(t)' \subseteq Missing(t)
  BY DEF IInv, Missing, world
<1>6. clock' \in Time /\ clock' >= clock /\ clock' = clock
  BY TimeAssumption DEF IInv, TypeOK, world, Time
<1>7. \A j \in Calls : CallOK(j)'
  <2>1. ASSUME NEW j \in Calls \ {k}
        PROVE  CallOK(j)'
    BY <1>1, <1>2, <1>3, <1>5, <1>6, RecordStays DEF IInv, CallOK
  <2>2. CallOK(k)'
    BY <1>2 DEF CallOK
  <2> QED
    BY <2>1, <2>2
<1>8. searchedAt' <= lastRead'
  BY TimeAssumption DEF IInv, TypeOK, Time
<1> QED
  BY <1>3, <1>4, <1>5, <1>6, <1>7, <1>8 DEF IInv

\* The same, when the latest search is not changed either.
LEMMA QuietCallKeepsIInv ==
  ASSUME IInv, NEW k \in Calls, NEW x \in CallsAt(Positions), call' = [call EXCEPT ![k] = x],
         UNCHANGED <<environment, loaded, searchedAt>>,
         active' \in [Types -> BOOLEAN], checked' \in BOOLEAN,
         reference' \in LoadedPublics \union {None},
         RecordOK(x)
  PROVE  IInv'
<1>1. lastRead' \in Time /\ lastRead' >= lastRead /\ lastRead' <= clock
  BY TimeAssumption DEF IInv, TypeOK, environment, Time
<1>2. Extends(loaded, loaded') /\ \A t \in Time : t <= lastRead => Missing(t)' \subseteq Missing(t)
  BY DEF IInv, TypeOK, Extends, Missing, environment, world
<1>3. clock' \in Time /\ clock' >= clock
  BY TimeAssumption DEF IInv, TypeOK, environment, world, Time
<1>4. RecordOK(x)'
  BY <1>1, <1>2, <1>3, RecordStays DEF IInv
<1> QED
  BY <1>1, <1>4, CallKeepsIInv DEF environment

\* An answer is an error, a public connection or the private one asked for.
LEMMA AnswerKeepsIInv ==
  ASSUME IInv, NEW k \in Calls, NEW got \in Connections \union {Rejected}, Answer(k, got),
         got \in Connections \ Public => call[k].want = got,
         UNCHANGED <<environment, loaded, searchedAt, reference>>,
         active' \in [Types -> BOOLEAN], checked' \in BOOLEAN
  PROVE  IInv'
<1> DEFINE x == [Idle EXCEPT !.want = call[k].want, !.got = got]
<1>1. call[k] \in CallsAt(Positions) /\ 0 \in Positions
  BY TypedCalls, PositionFacts DEF IInv, TypeOK, Positions
<1>2. call[k].want \in Wanted \union {None}
  BY <1>1 DEF CallsAt
<1>3. /\ x \in CallsAt(Positions)
      /\ x.phase = "idle" /\ x.asked = None /\ x.want = call[k].want /\ x.got = got
  BY <1>1, <1>2, AnswerRecord
<1>4. call' = [call EXCEPT ![k] = x]
  BY DEF Answer
<1> HIDE DEF x
<1>5. RecordOK(x)
  BY <1>3 DEF RecordOK
<1>6. reference' \in LoadedPublics \union {None}
  BY DEF IInv
<1> QED
  BY <1>3, <1>4, <1>5, <1>6, QuietCallKeepsIInv

-----------------------------------------------------------------------------
(* The search for a reference *)

\* What a call is after it was given a list to look for a reference in.
Looking(x, services) ==
  /\ x.phase \in {"idle", "find", "height"}
  /\ x.got \notin Connections
  /\ x.phase = "find" => x.at \in Publics(services)
  /\ x.asked \in {services[i] : i \in Publics(services)} \union {None}
  /\ x.phase = "height" => x.asked # None

LEMMA FindLeads ==
  ASSUME IInv, NEW k \in Calls, NEW services \in Seq(Connections), NEW again \in BOOLEAN,
         Find(k, again, services)
  PROVE  \E x \in CallsAt(0 .. Len(services)) :
           call' = [call EXCEPT ![k] = x] /\ Looking(x, services)
<1>1. call[k] \in CallsAt(Positions)
  BY TypedCalls DEF IInv
<1>2. call[k].want \in Wanted \union {None} /\ 0 \in 0 .. Len(services)
  BY <1>1, PositionFacts DEF CallsAt
<1>3. CASE Publics(services) = {}
  <2> DEFINE x == [Idle EXCEPT !.want = call[k].want, !.got = Rejected]
  <2>1. /\ x \in CallsAt(0 .. Len(services))
        /\ x.phase = "idle" /\ x.asked = None /\ x.got = Rejected
    BY <1>2, AnswerRecord
  <2>2. call' = [call EXCEPT ![k] = x]
    BY <1>3 DEF Find, Answer
  <2> QED
    BY <2>1, <2>2, NoneAssumption DEF Looking
<1>4. CASE Publics(services) # {}
  <2> DEFINE at == Min(Publics(services))
             x == [Idle EXCEPT !.phase = "find", !.want = call[k].want, !.at = at, !.again = again]
  <2>1. Publics(services) \subseteq Nat
    BY PositionFacts
  <2>2. at \in Publics(services)
    BY <1>4, <2>1, LeastPosition
  <2>3. at \in 0 .. Len(services)
    BY <2>2, PositionFacts
  <2>4. call' = [call EXCEPT ![k] = x]
    BY <1>4 DEF Find
  <2> HIDE DEF at
  <2>5. /\ x \in CallsAt(0 .. Len(services))
        /\ x.phase = "find" /\ x.asked = None /\ x.got = None /\ x.at = at
    BY <1>2, <2>3, IdleTypes DEF Idle, CallsAt
  <2> QED
    BY <2>2, <2>4, <2>5, NoneAssumption DEF Looking
<1> QED
  BY <1>3, <1>4

LEMMA AskLeads ==
  ASSUME IInv, NEW k \in Calls, NEW services \in Seq(Connections), NEW again \in BOOLEAN,
         NEW i \in Publics(services), AskReference(k, services[i], again)
  PROVE  \E x \in CallsAt(0 .. Len(services)) :
           call' = [call EXCEPT ![k] = x] /\ Looking(x, services)
<1> DEFINE x == [Idle EXCEPT !.phase = "height", !.want = call[k].want, !.asked = services[i],
                             !.again = again]
<1>1. call[k] \in CallsAt(Positions)
  BY TypedCalls DEF IInv
<1>2. call[k].want \in Wanted \union {None} /\ 0 \in 0 .. Len(services)
  BY <1>1, PositionFacts DEF CallsAt
<1>3. services[i] \in Connections
  BY PositionFacts
<1>4. /\ x \in CallsAt(0 .. Len(services))
      /\ x.phase = "height" /\ x.asked = services[i] /\ x.got = None
  BY <1>2, <1>3, IdleTypes DEF Idle, CallsAt
<1>5. call' = [call EXCEPT ![k] = x]
  BY DEF AskReference
<1> HIDE DEF x
<1> QED
  BY <1>3, <1>4, <1>5, NoneAssumption DEF Looking

LEMMA ReferenceLeads ==
  ASSUME IInv, NEW k \in Calls, NEW services \in Seq(Connections), Extends(loaded, services),
         Reference(k, services)
  PROVE  \E x \in CallsAt(0 .. Len(services)) :
           call' = [call EXCEPT ![k] = x] /\ Looking(x, services)
<1>1. CASE reference = None
  BY <1>1, FindLeads DEF Reference
<1>2. CASE reference # None
  <2>1. PICK i \in Publics(loaded) : reference = loaded[i]
    BY <1>2 DEF IInv, LoadedPublics
  <2>2. i \in Publics(services) /\ services[i] = reference
    BY <2>1 DEF Extends, Publics, IInv, TypeOK
  <2>3. AskReference(k, services[i], FALSE)
    BY <1>2, <2>2 DEF Reference
  <2> QED
    BY <2>2, <2>3, AskLeads
<1> QED
  BY <1>1, <1>2

LEMMA LookingIsOK ==
  ASSUME NEW x, Looking(x, loaded)
  PROVE  RecordOK(x)
BY DEF Looking, RecordOK, LoadedPublics

LEMMA LookingKeepsIInv ==
  ASSUME IInv, NEW k \in Calls,
         \E x \in CallsAt(0 .. Len(loaded)) : call' = [call EXCEPT ![k] = x] /\ Looking(x, loaded),
         UNCHANGED <<environment, loaded, searchedAt, active, checked>>,
         reference' \in LoadedPublics \union {None}
  PROVE  IInv'
<1>1. PICK x \in CallsAt(Positions) : call' = [call EXCEPT ![k] = x] /\ Looking(x, loaded)
  BY DEF Positions
<1>2. active' \in [Types -> BOOLEAN] /\ checked' \in BOOLEAN
  BY DEF IInv, TypeOK
<1> QED
  BY <1>1, <1>2, LookingIsOK, QuietCallKeepsIInv

-----------------------------------------------------------------------------
(* The steps *)

LEMMA InitIInv == Init => IInv
<1> SUFFICES ASSUME Init PROVE IInv
  OBVIOUS
<1>1. /\ loaded \in Seq(Connections) /\ IsInjective(loaded) /\ loaded = Initial
      /\ 0 \in Positions /\ 0 \in Time /\ 1 \in Time
  BY InitialAssumption, PositionFacts, TimeAssumption DEF Init, Positions, Time
<1>2. call \in [Calls -> CallsAt(Positions)]
  BY <1>1, IdleTypes DEF Init
<1>3. reference \in LoadedPublics \union {None}
  BY <1>1 DEF Init, LoadedPublics
<1>4. reference \in Connections \union {None}
  BY <1>1, <1>3, PositionFacts DEF LoadedPublics
<1>5. doc \in [Connections -> Docs \union {None}]
  <2>1. [at |-> 0, status |-> "enabled"] \in Docs
    BY <1>1 DEF Docs
  <2> QED
    BY <2>1 DEF Init
<1>6. TypeOK
  BY <1>1, <1>2, <1>4, <1>5 DEF Init, TypeOK, CallRecords, CallsAt, Positions
<1>7. \A t : Missing(t) = {}
  <2> SUFFICES ASSUME NEW c \in Connections, doc[c] # None
               PROVE  c \in ToSet(loaded)
    BY DEF Missing
  <2> QED
    BY <1>1 DEF Init
<1>8. \A k \in Calls : CallOK(k)
  <2>1. /\ Idle.phase = "idle" /\ Idle.asked = None /\ Idle.got \notin Connections
    BY NoneAssumption DEF Idle
  <2>2. RecordOK(Idle)
    BY <2>1 DEF RecordOK
  <2> QED
    BY <2>2 DEF Init, CallOK
<1> QED
  BY <1>1, <1>3, <1>6, <1>7, <1>8 DEF Init, IInv

LEMMA TimePassesKeepsIInv ==
  ASSUME IInv, Tick \/ Settle
  PROVE  IInv'
<1>1. clock' \in Time /\ clock' >= clock
  BY TimeAssumption DEF Tick, Settle, IInv, TypeOK, Time
<1>2. /\ UNCHANGED <<doc, exempt, fields, call, lastRead>> /\ settled' \in BOOLEAN
      /\ doc \in [Connections -> Docs \union {None}] /\ exempt \subseteq Connections
  BY DEF Tick, Settle, IInv, TypeOK
<1>3. \A t \in Time : t <= lastRead => Missing(t)' \subseteq Missing(t)
  BY <1>2 DEF Missing, fields
<1> QED
  BY <1>1, <1>2, <1>3, WorldKeepsIInv

LEMMA StampKeepsIInv ==
  ASSUME IInv, NEW c \in Connections, Stamp(c)
  PROVE  IInv'
<1> DEFINE d == [at |-> clock, status |-> "stamped"]
<1>1. d \in Docs /\ d.status = "stamped"
  BY DEF IInv, TypeOK, Docs
<1> HIDE DEF d
<1>2. doc' = [doc EXCEPT ![c] = d] /\ UNCHANGED <<clock, settled, exempt, lastRead, fields, call>>
  BY DEF Stamp, d
<1>3. doc' \in [Connections -> Docs \union {None}]
  BY <1>1, <1>2 DEF IInv, TypeOK
<1>4. \A t \in Time : t <= lastRead => Missing(t)' \subseteq Missing(t)
  BY <1>1, <1>2 DEF Missing, fields, IInv, TypeOK
<1>5. clock' \in Time /\ clock' >= clock
  BY <1>2, TimeAssumption DEF IInv, TypeOK, Time
<1> QED
  BY <1>2, <1>3, <1>4, <1>5, WorldKeepsIInv DEF IInv, TypeOK

\* A document that comes into being after a search was answered is newer than
\* the search, or exempt.
LEMMA InsertKeepsIInv ==
  ASSUME IInv, NEW c \in Connections, Insert(c)
  PROVE  IInv'
<1> DEFINE d == [doc[c] EXCEPT !.status = "enabled"]
<1>1. doc[c] \in Docs
  BY DEF Insert, IInv, TypeOK
<1>2. d \in Docs /\ d.at = doc[c].at
  BY <1>1 DEF Docs
<1> HIDE DEF d
<1>3. /\ doc' = [doc EXCEPT ![c] = d]
      /\ exempt' = IF lastRead >= doc[c].at THEN exempt \union {c} ELSE exempt
      /\ UNCHANGED <<clock, settled, lastRead, fields, call>>
  BY DEF Insert, d
<1>4. doc' \in [Connections -> Docs \union {None}] /\ exempt' \subseteq Connections
  BY <1>2, <1>3 DEF IInv, TypeOK
<1>5. ASSUME NEW t \in Time, t <= lastRead
      PROVE  Missing(t)' \subseteq Missing(t)
  <2>1. t \in Nat /\ lastRead \in Nat /\ doc[c].at \in Nat
    BY <1>1, TimeAssumption DEF IInv, TypeOK, Docs, Time
  <2>2. c \notin Missing(t)'
    BY <1>2, <1>3, <1>5, <2>1 DEF Missing, IInv, TypeOK
  <2>3. \A b \in Connections \ {c} : doc'[b] = doc[b]
    BY <1>3 DEF IInv, TypeOK
  <2>4. exempt \subseteq exempt'
    BY <1>3
  <2>5. loaded' = loaded
    BY <1>3 DEF fields
  <2> QED
    BY <2>2, <2>3, <2>4, <2>5 DEF Missing
<1>6. clock' \in Time /\ clock' >= clock
  BY <1>3, TimeAssumption DEF IInv, TypeOK, Time
<1> QED
  BY <1>3, <1>4, <1>5, <1>6, WorldKeepsIInv DEF IInv, TypeOK

LEMMA SetStatusKeepsIInv ==
  ASSUME IInv, NEW c \in Connections, NEW status \in {"enabled", "disabled"}, SetStatus(c, status)
  PROVE  IInv'
<1> DEFINE d == [doc[c] EXCEPT !.status = status]
<1>1. doc[c] \in Docs
  BY DEF SetStatus, IInv, TypeOK
<1>2. d \in Docs
  BY <1>1 DEF Docs
<1> HIDE DEF d
<1>3. /\ doc' = [doc EXCEPT ![c] = d] /\ exempt' = exempt \union {c}
      /\ UNCHANGED <<clock, settled, lastRead, fields, call>>
  BY DEF SetStatus, d
<1>4. doc' \in [Connections -> Docs \union {None}] /\ exempt' \subseteq Connections
  BY <1>2, <1>3 DEF IInv, TypeOK
<1>5. \A t \in Time : t <= lastRead => Missing(t)' \subseteq Missing(t)
  BY <1>3 DEF Missing, fields, IInv, TypeOK
<1>6. clock' \in Time /\ clock' >= clock
  BY <1>3, TimeAssumption DEF IInv, TypeOK, Time
<1> QED
  BY <1>3, <1>4, <1>5, <1>6, WorldKeepsIInv DEF IInv, TypeOK

LEMMA EnterKeepsIInv ==
  ASSUME IInv, NEW k \in Calls, NEW want \in Wanted, Enter(k, want)
  PROVE  IInv'
<1> DEFINE x == [Idle EXCEPT !.phase = "search", !.want = want, !.now = clock, !.since = searchedAt]
<1>1. 0 \in Positions /\ clock \in Time /\ searchedAt \in Time /\ want \in Wanted \union {None}
  BY PositionFacts DEF IInv, TypeOK, Positions
<1>2. /\ x \in CallsAt(Positions)
      /\ x.phase = "search" /\ x.asked = None /\ x.got = None /\ x.now = clock
      /\ x.since = searchedAt
  BY <1>1, IdleTypes DEF Idle, CallsAt
<1>3. call' = [call EXCEPT ![k] = x] /\ UNCHANGED <<environment, fields>>
  BY DEF Enter
<1> HIDE DEF x
<1>4. RecordOK(x)
  <2>1. clock <= clock
    BY <1>1, TimeAssumption DEF Time
  <2>2. \A t : t = searchedAt => Missing(t) = {}
    BY DEF IInv
  <2> QED
    BY <1>2, <2>1, <2>2, NoneAssumption DEF IInv, RecordOK
<1>5. /\ UNCHANGED <<environment, loaded, searchedAt>>
      /\ active' \in [Types -> BOOLEAN] /\ checked' \in BOOLEAN
      /\ reference' \in LoadedPublics \union {None}
  BY <1>3 DEF fields, IInv, TypeOK
<1> QED
  BY <1>2, <1>3, <1>4, <1>5, QuietCallKeepsIInv

\* What the query does not find was loaded before, or is newer than the query's
\* own stamp.
LEMMA ReadKeepsIInv ==
  ASSUME IInv, NEW k \in Calls, Read(k)
  PROVE  IInv'
<1> DEFINE found == {c \in Connections :
                       doc[c] # None /\ doc[c].status = "enabled" /\ doc[c].at > call[k].since}
<1>1. call[k] \in CallsAt(Positions) /\ call[k].phase = "search" /\ found \in SUBSET Connections
  BY TypedCalls DEF IInv, Read
<1>2. PICK x \in CallsAt(Positions) :
        /\ call' = [call EXCEPT ![k] = x]
        /\ x.phase = "resolve" /\ x.found = found /\ x.want = call[k].want /\ x.got = call[k].got
        /\ x.asked = call[k].asked /\ x.now = call[k].now
  <2> DEFINE x == [call[k] EXCEPT !.phase = "resolve", !.found = found]
  <2>1. call' = [call EXCEPT ![k] = x]
    BY DEF Read
  <2> HIDE DEF found
  <2>2. /\ x \in CallsAt(Positions)
        /\ x.phase = "resolve" /\ x.found = found /\ x.want = call[k].want /\ x.got = call[k].got
        /\ x.asked = call[k].asked /\ x.now = call[k].now
    BY <1>1 DEF CallsAt
  <2> QED
    BY <2>1, <2>2
<1>3. /\ UNCHANGED <<world, fields>>
      /\ lastRead' = IF call[k].now > lastRead THEN call[k].now ELSE lastRead
  BY DEF Read
<1>4. /\ call[k].since <= lastRead /\ call[k].now <= clock /\ Missing(call[k].since) = {}
      /\ x.asked \in LoadedPublics \union {None}
      /\ x.got \in Connections \ Public => x.want = x.got
  <2>1. \A y \in {call[k]} : RecordOK(y)
    BY DEF IInv, CallOK
  <2> QED
    BY <1>1, <1>2, <2>1 DEF RecordOK
<1>5. call[k].now \in Time /\ call[k].since \in Time
  BY <1>1 DEF CallsAt
<1>6. /\ lastRead' \in Time /\ lastRead' >= lastRead /\ lastRead' <= clock
      /\ x.now <= lastRead'
  BY <1>2, <1>3, <1>4, <1>5, TimeAssumption DEF IInv, TypeOK, Time
<1>7. ASSUME NEW c \in Missing(x.now)
      PROVE  c \in found
  <2>1. c \in Connections /\ doc[c] # None /\ doc[c].status = "enabled" /\ c \notin ToSet(loaded)
    BY DEF Missing
  <2>2. doc[c].at \in Time
    BY <2>1 DEF IInv, TypeOK, Docs
  <2>3. ~(doc[c].at <= call[k].since)
    BY <1>4, <1>7, <2>1 DEF Missing
  <2> QED
    BY <1>5, <2>1, <2>2, <2>3, TimeAssumption DEF Time
<1>8. Missing(x.now)' \subseteq x.found
  BY <1>2, <1>3, <1>7 DEF Missing, world, fields
<1>9. LoadedPublics' = LoadedPublics
  BY <1>3 DEF LoadedPublics, Publics, fields
<1>10. RecordOK(x)'
  BY <1>2, <1>4, <1>6, <1>8, <1>9 DEF RecordOK
<1>11. /\ UNCHANGED <<world, loaded, searchedAt>>
       /\ active' \in [Types -> BOOLEAN] /\ checked' \in BOOLEAN
       /\ reference' \in LoadedPublics \union {None}
  BY <1>3 DEF fields, IInv, TypeOK
<1> QED
  BY <1>2, <1>6, <1>10, <1>11, CallKeepsIInv

\* After a load nothing is missing that is not newer than its stamp.
LEMMA LoadKeepsIInv ==
  ASSUME IInv, NEW k \in Calls, Load(k)
  PROVE  IInv'
<1>1. PICK new \in SetToSeqs(call[k].found \ ToSet(loaded)) :
        loaded' = loaded \o new /\ Reference(k, loaded \o new)
  BY DEF Load
<1>2. /\ call[k].phase = "resolve" /\ searchedAt' = call[k].now
      /\ UNCHANGED <<environment, active, checked, reference>>
  BY DEF Load
<1>3. call \in [Calls -> CallsAt(Positions)]
  BY TypedCalls DEF IInv
<1>4. call[k].found \in SUBSET Connections /\ call[k].now \in Time
  BY <1>3 DEF CallsAt
<1>5. call[k].now <= lastRead /\ Missing(call[k].now) \subseteq call[k].found
  <2>1. \A y \in {call[k]} : RecordOK(y)
    BY DEF IInv, CallOK
  <2> QED
    BY <1>2, <2>1 DEF RecordOK
<1>6. loaded \in Seq(Connections) /\ IsInjective(loaded)
  BY DEF IInv, TypeOK
<1>7. /\ Extends(loaded, loaded') /\ IsInjective(loaded')
      /\ ToSet(loaded') = ToSet(loaded) \union call[k].found
  <2>1. PICK found \in SUBSET Connections : found = call[k].found
    BY <1>4
  <2>2. PICK rest : rest = found \ ToSet(loaded)
    OBVIOUS
  <2>3. new \in SetToSeqs(rest)
    BY <2>1, <2>2
  <2>4. /\ loaded \o new \in Seq(Connections)
        /\ IsInjective(loaded \o new)
        /\ Len(loaded \o new) >= Len(loaded)
        /\ \A i \in DOMAIN loaded : (loaded \o new)[i] = loaded[i]
        /\ ToSet(loaded \o new) = ToSet(loaded) \union found
    BY <1>6, <2>2, <2>3, Appended, ZenonT(30)
  <2> QED
    BY <1>1, <2>1, <2>4 DEF Extends
<1>8. PICK x \in CallsAt(0 .. Len(loaded')) : call' = [call EXCEPT ![k] = x] /\ Looking(x, loaded')
  BY <1>1, <1>7, ReferenceLeads DEF Extends
<1>9. Positions \subseteq Positions' /\ LoadedPublics \subseteq LoadedPublics'
  BY <1>7, PublicsStay DEF IInv
<1>10. /\ call' \in [Calls -> CallsAt(Positions')] /\ call'[k] = x
       /\ \A j \in Calls \ {k} : call'[j] = call[j]
  <2>1. call \in [Calls -> CallsAt(Positions')]
    BY <1>3, <1>9, CallTypes
  <2>2. x \in CallsAt(Positions')
    BY <1>8 DEF Positions
  <2> QED
    BY <1>8, <2>1, <2>2, CallChanges
<1>11. TypeOK'
  <2>1. call' \in [Calls -> CallRecords']
    BY <1>10 DEF CallRecords, CallsAt, Positions
  <2>2. loaded' \in Seq(Connections) /\ searchedAt' \in Time
    BY <1>2, <1>4, <1>7 DEF Extends
  <2> QED
    BY <1>2, <1>7, <2>1, <2>2 DEF IInv, TypeOK, environment, world
<1>12. \A t \in Time : t <= lastRead => Missing(t)' \subseteq Missing(t)
  BY <1>2, <1>7 DEF Missing, environment, world
<1>13. Missing(searchedAt)' = {}
  <2>1. ASSUME NEW c \in Missing(searchedAt)'
        PROVE  FALSE
    <3>1. c \in Missing(call[k].now)
      BY <1>2, <1>7, <2>1 DEF Missing, environment, world
    <3>2. c \in ToSet(loaded')
      BY <1>5, <1>7, <3>1
    <3> QED
      BY <2>1, <3>2 DEF Missing
  <2> QED
    BY <2>1
<1>14. /\ clock' \in Time /\ clock' >= clock /\ lastRead' \in Time /\ lastRead' >= lastRead
       /\ searchedAt' <= lastRead' /\ lastRead' <= clock'
  BY <1>2, <1>5, TimeAssumption DEF IInv, TypeOK, environment, world, Time
<1>15. \A j \in Calls : CallOK(j)'
  <2>1. ASSUME NEW j \in Calls \ {k}
        PROVE  CallOK(j)'
    BY <1>3, <1>7, <1>10, <1>12, <1>14, RecordStays DEF IInv, CallOK
  <2>2. RecordOK(x)'
    BY <1>8 DEF Looking, RecordOK, LoadedPublics
  <2> QED
    BY <1>10, <2>1, <2>2 DEF CallOK
<1>16. reference' \in LoadedPublics' \union {None}
  BY <1>2, <1>9 DEF IInv
<1> QED
  BY <1>11, <1>13, <1>14, <1>15, <1>16 DEF IInv

LEMMA SearchFailsKeepsIInv ==
  ASSUME IInv, NEW k \in Calls, SearchFails(k)
  PROVE  IInv'
<1>1. loaded \in Seq(Connections) /\ Extends(loaded, loaded)
  BY DEF IInv, TypeOK, Extends
<1>2. \E x \in CallsAt(0 .. Len(loaded)) : call' = [call EXCEPT ![k] = x] /\ Looking(x, loaded)
  BY <1>1, ReferenceLeads DEF SearchFails
<1>3. reference' \in LoadedPublics \union {None}
  BY DEF IInv, SearchFails, fields
<1> QED
  BY <1>2, <1>3, LookingKeepsIInv DEF SearchFails, fields

LEMMA FindNextKeepsIInv ==
  ASSUME IInv, NEW k \in Calls, FindNext(k)
  PROVE  IInv'
<1> DEFINE c == loaded[call[k].at]
           later == {i \in Publics(loaded) : i > call[k].at}
<1>1. /\ call[k].phase = "find"
      /\ UNCHANGED <<environment, loaded, searchedAt, active, checked>>
  BY DEF FindNext
<1>2. call[k] \in CallsAt(Positions) /\ loaded \in Seq(Connections)
  BY TypedCalls DEF IInv, TypeOK
<1>3. /\ call[k].at \in Publics(loaded)
      /\ call[k].asked \in LoadedPublics \union {None}
      /\ call[k].got \in Connections \ Public => call[k].want = call[k].got
  <2>1. \A y \in {call[k]} : RecordOK(y)
    BY DEF IInv, CallOK
  <2> QED
    BY <1>1, <2>1 DEF RecordOK
<1>4. CASE reference' = c /\ AskReference(k, c, call[k].again)
  <2>1. call[k].again \in BOOLEAN
    BY <1>2 DEF CallsAt
  <2>2. \E x \in CallsAt(0 .. Len(loaded)) : call' = [call EXCEPT ![k] = x] /\ Looking(x, loaded)
    BY <1>2, <1>3, <1>4, <2>1, AskLeads
  <2>3. reference' \in LoadedPublics
    BY <1>3, <1>4 DEF LoadedPublics
  <2> QED
    BY <1>1, <2>2, <2>3, LookingKeepsIInv
<1>5. CASE later = {} /\ Answer(k, Rejected) /\ UNCHANGED reference
  <2>1. active' \in [Types -> BOOLEAN] /\ checked' \in BOOLEAN
    BY <1>1 DEF IInv, TypeOK
  <2> QED
    BY <1>1, <1>5, <2>1, AnswerKeepsIInv, NoneAssumption
<1>6. CASE later # {} /\ call' = [call EXCEPT ![k].at = Min(later)] /\ UNCHANGED reference
  <2> DEFINE at == Min(later)
  <2>1. later \subseteq Nat
    BY <1>2, PositionFacts
  <2>2. at \in later
    BY <1>6, <2>1, LeastPosition
  <2>3. at \in Publics(loaded) /\ at \in Positions
    BY <1>2, <2>2, PositionFacts DEF Positions
  <2> HIDE DEF at
  <2>4. PICK x \in CallsAt(Positions) :
          /\ call' = [call EXCEPT ![k] = x]
          /\ x.at = at /\ x.phase = "find" /\ x.want = call[k].want /\ x.got = call[k].got
          /\ x.asked = call[k].asked
    <3> DEFINE x == [call[k] EXCEPT !.at = at]
    <3>1. call' = [call EXCEPT ![k] = x]
      BY <1>6 DEF at
    <3>2. /\ x \in CallsAt(Positions)
          /\ x.at = at /\ x.phase = "find" /\ x.want = call[k].want /\ x.got = call[k].got
          /\ x.asked = call[k].asked
      BY <1>1, <1>2, <2>3 DEF CallsAt
    <3> QED
      BY <3>1, <3>2
  <2>5. RecordOK(x)
    BY <1>3, <2>3, <2>4 DEF RecordOK
  <2>6. /\ active' \in [Types -> BOOLEAN] /\ checked' \in BOOLEAN
        /\ reference' \in LoadedPublics \union {None}
    BY <1>1, <1>6 DEF IInv, TypeOK
  <2> QED
    BY <1>1, <2>4, <2>5, <2>6, QuietCallKeepsIInv
<1> QED
  BY <1>4, <1>5, <1>6 DEF FindNext

\* A call that has a reference to ask has a list that is not empty.
LEMMA HeightDueKeepsIInv ==
  ASSUME IInv, NEW k \in Calls, HeightDue(k)
  PROVE  IInv'
<1>1. PICK height \in Heights :
        call' = [call EXCEPT ![k] =
          [Idle EXCEPT !.phase = "check", !.want = call[k].want, !.at = 1, !.height = height]]
  BY DEF HeightDue
<1>2. call[k].phase = "height" /\ UNCHANGED <<environment, fields>>
  BY DEF HeightDue
<1>3. call[k] \in CallsAt(Positions) /\ loaded \in Seq(Connections)
  BY TypedCalls DEF IInv, TypeOK
<1>4. call[k].asked \in LoadedPublics
  <2>1. \A y \in {call[k]} : RecordOK(y)
    BY DEF IInv, CallOK
  <2> QED
    BY <1>2, <2>1 DEF RecordOK
<1>5. 0 \in Positions /\ 1 \in Positions
  <2>1. \E i \in DOMAIN loaded : TRUE
    BY <1>4 DEF LoadedPublics, Publics
  <2> QED
    BY <1>3, <2>1 DEF Positions
<1> DEFINE x == [Idle EXCEPT !.phase = "check", !.want = call[k].want, !.at = 1, !.height = height]
<1>6. call[k].want \in Wanted \union {None}
  BY <1>3 DEF CallsAt
<1>7. /\ x \in CallsAt(Positions)
      /\ x.phase = "check" /\ x.asked = None /\ x.got = None /\ x.at = 1 /\ x.height = height
  BY <1>5, <1>6, IdleTypes DEF Idle, CallsAt
<1>8. call' = [call EXCEPT ![k] = x]
  BY <1>1
<1> HIDE DEF x
<1>9. RecordOK(x)
  BY <1>7, NoneAssumption DEF RecordOK
<1>10. /\ UNCHANGED <<environment, loaded, searchedAt>>
       /\ active' \in [Types -> BOOLEAN] /\ checked' \in BOOLEAN
       /\ reference' \in LoadedPublics \union {None}
  BY <1>2 DEF fields, IInv, TypeOK
<1> QED
  BY <1>7, <1>8, <1>9, <1>10, QuietCallKeepsIInv

\* What is taken is public, or was asked for by name.
LEMMA TakeKeepsIInv ==
  ASSUME IInv, NEW k \in Calls, Take(k),
         UNCHANGED <<environment, loaded, searchedAt, active, reference>>, checked' \in BOOLEAN
  PROVE  IInv'
<1> DEFINE usable == Usable(call[k].want)
<1>1. loaded \in Seq(Connections) /\ active' \in [Types -> BOOLEAN]
  BY DEF IInv, TypeOK
<1>2. CASE usable = {}
  <2>1. Answer(k, Rejected)
    BY <1>2 DEF Take
  <2> QED
    BY <1>1, <2>1, AnswerKeepsIInv, NoneAssumption
<1>3. CASE usable # {}
  <2> DEFINE i == Min(usable)
  <2>1. usable \subseteq Nat
    BY <1>1 DEF Usable
  <2>2. i \in usable
    BY <1>3, <2>1, LeastPosition
  <2>3. Answer(k, loaded[i])
    BY <1>3 DEF Take
  <2> HIDE DEF i
  <2>4. i \in DOMAIN loaded /\ (call[k].want = None => loaded[i] \in Public)
        /\ (call[k].want # None => loaded[i] = call[k].want)
    BY <2>2 DEF Usable, Publics
  <2>5. loaded[i] \in Connections
    BY <1>1, <2>4
  <2> QED
    BY <1>1, <2>3, <2>4, <2>5, AnswerKeepsIInv
<1> QED
  BY <1>2, <1>3

LEMMA HeightNotDueKeepsIInv ==
  ASSUME IInv, NEW k \in Calls, HeightNotDue(k)
  PROVE  IInv'
<1>1. UNCHANGED <<environment, loaded, searchedAt, active, reference>> /\ checked' \in BOOLEAN
  BY DEF HeightNotDue, fields, IInv, TypeOK
<1> QED
  BY <1>1, TakeKeepsIInv DEF HeightNotDue

LEMMA HeightThrowsKeepsIInv ==
  ASSUME IInv, NEW k \in Calls, HeightThrows(k)
  PROVE  IInv'
<1>1. /\ UNCHANGED <<environment, loaded, searchedAt, active, checked, reference>>
      /\ checked' \in BOOLEAN /\ reference' \in LoadedPublics \union {None}
      /\ loaded \in Seq(Connections) /\ active' \in [Types -> BOOLEAN]
  BY DEF HeightThrows, fields, IInv, TypeOK
<1>2. CASE Answer(k, Rejected)
  BY <1>1, <1>2, AnswerKeepsIInv, NoneAssumption
<1>3. CASE Find(k, TRUE, loaded)
  BY <1>1, <1>3, FindLeads, LookingKeepsIInv
<1> QED
  BY <1>2, <1>3 DEF HeightThrows

LEMMA RejectionKeepsIInv ==
  ASSUME IInv, NEW k \in Calls, HeightIsNull(k) \/ MarkFails(k)
  PROVE  IInv'
<1>1. Answer(k, Rejected) /\ UNCHANGED <<environment, fields>>
  BY DEF HeightIsNull, MarkFails
<1>2. /\ UNCHANGED <<environment, loaded, searchedAt, reference>>
      /\ active' \in [Types -> BOOLEAN] /\ checked' \in BOOLEAN
  BY <1>1 DEF fields, IInv, TypeOK
<1> QED
  BY <1>1, <1>2, AnswerKeepsIInv, NoneAssumption

LEMMA MarkKeepsIInv ==
  ASSUME IInv, NEW k \in Calls, Mark(k)
  PROVE  IInv'
<1>1. UNCHANGED <<environment, loaded, searchedAt, active, reference>> /\ checked' \in BOOLEAN
  BY DEF Mark
<1> QED
  BY <1>1, TakeKeepsIInv DEF Mark

\* The node that is judged is one of the list.
LEMMA MarkedTypes ==
  ASSUME IInv, NEW k \in Calls, call[k].phase = "check", NEW b \in BOOLEAN,
         active' = [active EXCEPT ![TypeOf[loaded[call[k].at]]] = b]
  PROVE  call[k].at \in DOMAIN loaded /\ active' \in [Types -> BOOLEAN]
<1>1. call[k] \in CallsAt(Positions) /\ loaded \in Seq(Connections)
  BY TypedCalls DEF IInv, TypeOK
<1>2. call[k].at # 0
  <2>1. \A y \in {call[k]} : RecordOK(y)
    BY DEF IInv, CallOK
  <2> QED
    BY <2>1 DEF RecordOK
<1>3. call[k].at \in DOMAIN loaded
  BY <1>1, <1>2 DEF CallsAt, Positions
<1>4. TypeOf[loaded[call[k].at]] \in Types
  BY <1>1, <1>3 DEF Types
<1>5. active \in [Types -> BOOLEAN]
  BY DEF IInv, TypeOK
<1> QED
  BY <1>3, <1>4, <1>5

\* A node that throws leaves its mark and an error.
LEMMA CheckThrowsKeepsIInv ==
  ASSUME IInv, NEW k \in Calls, CheckThrows(k)
  PROVE  IInv'
<1>1. active' \in [Types -> BOOLEAN]
  BY MarkedTypes DEF CheckThrows
<1>2. /\ Answer(k, Rejected) /\ checked' \in BOOLEAN
      /\ UNCHANGED <<environment, loaded, searchedAt, reference>>
  BY DEF CheckThrows, IInv, TypeOK
<1> QED
  BY <1>1, <1>2, AnswerKeepsIInv, NoneAssumption

LEMMA CheckKeepsIInv ==
  ASSUME IInv, NEW k \in Calls, Check(k)
  PROVE  IInv'
<1>1. PICK ahead \in BOOLEAN : Judge(k, ahead)
  BY DEF Check
<1>2. call[k].phase = "check" /\ UNCHANGED <<environment, loaded, searchedAt, checked, reference>>
  BY DEF Check
<1>3. call[k] \in CallsAt(Positions) /\ loaded \in Seq(Connections)
  BY TypedCalls DEF IInv, TypeOK
<1>4. /\ call[k].asked \in LoadedPublics \union {None}
      /\ call[k].got \in Connections \ Public => call[k].want = call[k].got
  <2>1. \A y \in {call[k]} : RecordOK(y)
    BY DEF IInv, CallOK
  <2> QED
    BY <1>2, <2>1 DEF RecordOK
<1>5. /\ call[k].at \in DOMAIN loaded
      /\ active' \in [Types -> BOOLEAN]
  <2>1. PICK b \in BOOLEAN : active' = [active EXCEPT ![TypeOf[loaded[call[k].at]]] = b]
    BY <1>1 DEF Judge
  <2> QED
    BY <1>2, <2>1, MarkedTypes
<1>6. checked' \in BOOLEAN /\ reference' \in LoadedPublics \union {None}
  BY <1>2 DEF IInv, TypeOK
<1>7. CASE call[k].at < Len(loaded) /\ call' = [call EXCEPT ![k].at = @ + 1]
  <2> DEFINE x == [call[k] EXCEPT !.at = call[k].at + 1]
  <2>1. call' = [call EXCEPT ![k] = x]
    BY <1>7
  <2>2. call[k].at + 1 \in Positions /\ call[k].at + 1 # 0
    BY <1>3, <1>5, <1>7 DEF Positions
  <2>3. /\ x \in CallsAt(Positions)
        /\ x.phase = "check" /\ x.at = call[k].at + 1 /\ x.want = call[k].want
        /\ x.got = call[k].got /\ x.asked = call[k].asked
    BY <1>2, <1>3, <2>2 DEF CallsAt
  <2> HIDE DEF x
  <2>4. RecordOK(x)
    BY <1>4, <2>2, <2>3 DEF RecordOK
  <2> QED
    BY <1>2, <1>5, <1>6, <2>1, <2>3, <2>4, QuietCallKeepsIInv
<1>8. CASE call' = [call EXCEPT ![k] = [Idle EXCEPT !.phase = "mark", !.want = call[k].want]]
  <2> DEFINE x == [Idle EXCEPT !.phase = "mark", !.want = call[k].want]
  <2>1. call[k].want \in Wanted \union {None} /\ 0 \in Positions
    BY <1>3, PositionFacts DEF CallsAt, Positions
  <2>2. /\ x \in CallsAt(Positions)
        /\ x.phase = "mark" /\ x.asked = None /\ x.got = None
    BY <2>1, IdleTypes DEF Idle, CallsAt
  <2> HIDE DEF x
  <2>3. call' = [call EXCEPT ![k] = x]
    BY <1>8 DEF x
  <2>4. RecordOK(x)
    BY <2>2, NoneAssumption DEF RecordOK
  <2> QED
    BY <1>2, <1>5, <1>6, <2>2, <2>3, <2>4, QuietCallKeepsIInv
<1> QED
  BY <1>1, <1>7, <1>8 DEF Judge

LEMMA NextKeepsIInv == IInv /\ [Next]_vars => IInv'
<1> SUFFICES ASSUME IInv, [Next]_vars
             PROVE  IInv'
  OBVIOUS
<1>1. CASE Tick \/ Settle
  BY <1>1, TimePassesKeepsIInv
<1>2. ASSUME NEW c \in Connections, Stamp(c) \/ Insert(c)
      PROVE  IInv'
  BY <1>2, StampKeepsIInv, InsertKeepsIInv
<1>3. ASSUME NEW c \in Connections, NEW status \in {"enabled", "disabled"}, SetStatus(c, status)
      PROVE  IInv'
  BY <1>3, SetStatusKeepsIInv
<1>4. ASSUME NEW k \in Calls, NEW want \in Wanted, Enter(k, want)
      PROVE  IInv'
  BY <1>4, EnterKeepsIInv
<1>5. ASSUME NEW k \in Calls, Step(k)
      PROVE  IInv'
  <2>1. CASE Read(k)
    BY <2>1, ReadKeepsIInv
  <2>2. CASE Load(k)
    BY <2>2, LoadKeepsIInv
  <2>3. CASE SearchFails(k)
    BY <2>3, SearchFailsKeepsIInv
  <2>4. CASE FindNext(k)
    BY <2>4, FindNextKeepsIInv
  <2>5. CASE HeightDue(k)
    BY <2>5, HeightDueKeepsIInv
  <2>6. CASE HeightNotDue(k)
    BY <2>6, HeightNotDueKeepsIInv
  <2>7. CASE HeightThrows(k)
    BY <2>7, HeightThrowsKeepsIInv
  <2>8. CASE HeightIsNull(k) \/ MarkFails(k)
    BY <2>8, RejectionKeepsIInv
  <2>9. CASE Check(k)
    BY <2>9, CheckKeepsIInv
  <2>10. CASE Mark(k)
    BY <2>10, MarkKeepsIInv
  <2>11. CASE CheckThrows(k)
    BY <2>11, CheckThrowsKeepsIInv
  <2> QED
    BY <1>5, <2>1, <2>2, <2>3, <2>4, <2>5, <2>6, <2>7, <2>8, <2>9, <2>10, <2>11 DEF Step
<1>6. CASE UNCHANGED vars
  <2>1. TypeOK'
    BY <1>6 DEF IInv, TypeOK, CallRecords, vars
  <2>2. \A j \in Calls : CallOK(j)'
    BY <1>6 DEF IInv, CallOK, RecordOK, Missing, LoadedPublics, Publics, vars
  <2>3. Missing(searchedAt)' = {} /\ reference' \in LoadedPublics' \union {None}
    BY <1>6 DEF IInv, Missing, LoadedPublics, Publics, vars
  <2> QED
    BY <1>6, <2>1, <2>2, <2>3 DEF IInv, vars
<1> QED
  BY <1>1, <1>2, <1>3, <1>4, <1>5, <1>6 DEF Next

-----------------------------------------------------------------------------
(* The theorems *)

\* Whatever calls overlap, every field of the service and every call in
\* progress stays well-typed: no check or choice is made of a position that
\* the list does not have, and no answer other than a height is compared
\* (managed.blockchain.transport.service.ts:171-292).
THEOREM TypeCorrect == Spec => []TypeOK
<1>1. IInv => TypeOK
  BY DEF IInv
<1> QED
  BY <1>1, InitIInv, NextKeepsIInv, PTL DEF Spec

\* A private connection serves only calls that name it, and is never the
\* reference, for any connections, lists and interleaving of calls
\* (lines 228-238 and 267-292).
THEOREM PrivateIsPrivate == Spec => []PrivateServesItsOwner
<1>1. IInv => PrivateServesItsOwner
  <2> SUFFICES ASSUME IInv
               PROVE  PrivateServesItsOwner
    OBVIOUS
  <2>1. LoadedPublics \subseteq Public
    BY DEF LoadedPublics, Publics
  <2>2. ASSUME NEW k \in Calls
        PROVE  /\ call[k].asked \in Public \union {None}
               /\ call[k].got \in Connections \ Public => call[k].want = call[k].got
    <3>1. \A y \in {call[k]} : RecordOK(y)
      BY DEF IInv, CallOK
    <3> QED
      BY <2>1, <3>1 DEF RecordOK
  <2> QED
    BY <2>1, <2>2 DEF IInv, PrivateServesItsOwner
<1> QED
  BY <1>1, InitIInv, NextKeepsIInv, PTL DEF Spec

\* Overlapping, failing and late searches never leave a connection behind that
\* the next search would not look for (line 248).
THEOREM NoConnectionIsLost == Spec => []EnabledConnectionIsLoaded
<1>1. IInv => EnabledConnectionIsLoaded
  <2> SUFFICES ASSUME IInv, NEW c \in Connections \ exempt,
                      doc[c] # None, doc[c].status = "enabled", c \notin ToSet(loaded)
               PROVE  doc[c].at > searchedAt
    BY DEF EnabledConnectionIsLoaded
  <2>1. ~(doc[c].at <= searchedAt)
    BY DEF IInv, Missing
  <2>2. doc[c].at \in Nat /\ searchedAt \in Nat
    BY TimeAssumption DEF IInv, TypeOK, Docs, Time
  <2> QED
    BY <2>1, <2>2
<1> QED
  BY <1>1, InitIInv, NextKeepsIInv, PTL DEF Spec
=============================================================================
