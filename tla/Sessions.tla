------------------------------ MODULE Sessions ------------------------------
(***************************************************************************)
(* Sessions of users and keys of their clients and projects                *)
(* (fluence.lib.services: session.service.ts, session.dao.ts).             *)
(*                                                                         *)
(* There is one collection for the three types.  Every change and every    *)
(* query that is asked for active sessions only names a type; a call that  *)
(* names a session by another type than its own finds nothing.             *)
(***************************************************************************)
EXTENDS Integers

CONSTANTS
  Ids,                  \* sessions that can be created
  Clients, Projects,    \* the ids a caller may name
  Known,                \* those of them that exist
  None,
  MaxTime               \* bound on the clock

Time == 0 .. MaxTime
Types == {"UserSession", "UserApiKey", "ProjectApiKey"}

VARIABLES
  clock,
  session,     \* the documents, or None
  out          \* history: sessions that were disabled by their type

vars == <<clock, session, out>>

Session ==
  [type : Types, clientId : Clients, projectId : Projects \union {None},
   expiredAt : Time \union {None}, loggedOutAt : Time \union {None}]

\* What is assumed of the constants: no date and no document is None.
ConstantsFit == MaxTime \in Nat /\ None \notin Time /\ None \notin Session

TypeOK ==
  /\ clock \in Time
  /\ session \in [Ids -> Session \union {None}]
  /\ out \subseteq Ids

Init == clock = 0 /\ session = [s \in Ids |-> None] /\ out = {}

Tick == clock < MaxTime /\ clock' = clock + 1 /\ UNCHANGED <<session, out>>

-----------------------------------------------------------------------------
Create(s, type, c, p, expiredAt) ==
  /\ session[s] = None
  /\ {c, p} \ {None} \subseteq Known
  /\ session' = [session EXCEPT ![s] = [type |-> type, clientId |-> c, projectId |-> p,
                                        expiredAt |-> expiredAt, loggedOutAt |-> None]]
  /\ UNCHANGED <<clock, out>>

\* A client or project that does not exist is refused.
CreateUserSession(s, c, expiredAt) == Create(s, "UserSession", c, None, expiredAt)
CreateUserApiKey(s, c) == Create(s, "UserApiKey", c, None, None)
CreateProjectApiKey(s, c, p) == Create(s, "ProjectApiKey", c, p, None)

HasType(s, type) == session[s] # None /\ session[s].type = type

\* Faulty variant: a longer session is logged in again.
SetExpiredAtAfresh(s, expiredAt) ==
  /\ HasType(s, "UserSession")
  /\ session' = [session EXCEPT ![s].expiredAt = expiredAt, ![s].loggedOutAt = None]
  /\ UNCHANGED <<clock, out>>

\* Only the sessions of users expire; the date may be in the past.
SetExpiredAt(s, expiredAt) ==
  /\ HasType(s, "UserSession")
  /\ session' = [session EXCEPT ![s].expiredAt = expiredAt]
  /\ UNCHANGED <<clock, out>>

\* disableUserSession, disableUserApiKey, disableProjectApiKey: for a session
\* of another type nothing is updated.
DisableSession(s, type) ==
  /\ HasType(s, type)
  /\ session' = [session EXCEPT ![s].loggedOutAt = clock]
  /\ out' = out \union {s}
  /\ UNCHANGED clock

\* The filters of the queries that are asked for active sessions only.
IsActive(s, type) ==
  /\ HasType(s, type)
  /\ session[s].loggedOutAt = None
  /\ type = "UserSession" => session[s].expiredAt > clock

ByIdAndTypeActiveOnly(s, type) == IF IsActive(s, type) THEN session[s] ELSE None

ByUserInfo(c, p) ==
  {s \in Ids : session[s] # None /\ session[s].clientId = c /\ session[s].projectId = p}

ByTypeAndUserInfoActiveOnly(type, c, p) == {s \in ByUserInfo(c, p) : IsActive(s, type)}

Next ==
  \/ Tick
  \/ \E s \in Ids :
       \/ \E c \in Clients :
            \/ \E at \in Time : CreateUserSession(s, c, at)
            \/ CreateUserApiKey(s, c)
            \/ \E p \in Projects : CreateProjectApiKey(s, c, p)
       \/ \E at \in Time : SetExpiredAt(s, at)
       \/ \E type \in Types : DisableSession(s, type)

-----------------------------------------------------------------------------
\* The two ways to look for an active session agree, and both follow what was
\* done to it: a session, once disabled, is never found again, whatever
\* expiry it is given later; an expired one can be found again until then;
\* a key does not expire; nothing is found under a type that is not its own.
ActiveSessionsAgree ==
  \A s \in {t \in Ids : session[t] # None}, type \in Types :
    LET found == ByIdAndTypeActiveOnly(s, type) # None
        listed == s \in ByTypeAndUserInfoActiveOnly(type, session[s].clientId, session[s].projectId)
    IN  /\ found <=> listed
        /\ found <=> /\ type = session[s].type /\ s \notin out
                     /\ session[s].expiredAt # None => session[s].expiredAt > clock
=============================================================================
