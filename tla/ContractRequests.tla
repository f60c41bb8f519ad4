-------------------------- MODULE ContractRequests --------------------------
(***************************************************************************)
(* Contracts and the requests to make them public (fluence.lib.services:   *)
(* contract.service.ts, contract.public.request.service.ts and their DAOs).*)
(*                                                                         *)
(* A request is stored and then, if asked for, its contract is marked as a *)
(* fabric; a resolution is stored, the request is read again, and then the *)
(* contract is marked as public.  Between these steps other calls run, a   *)
(* step may fail, and nothing ever takes a mark back.                      *)
(***************************************************************************)
EXTENDS Naturals

CONSTANTS
  Contracts, Requests,   \* documents that can be created
  Calls,                 \* calls in progress at once
  None

Statuses == {"APPROVE", "DISAPPROVE"}

VARIABLES
  contract,    \* the contracts, or None
  request,     \* the requests, or None
  call,        \* the calls in progress
  once,        \* history: requests a resolution to approve was stored for
  stuck        \* history: contracts whose call failed between its steps

vars == <<contract, request, call, once, stuck>>

ContractScheme == [isFabric : BOOLEAN, isPublic : BOOLEAN]
ContractPublicRequest ==
  [contractId : Contracts, asFabric : BOOLEAN, adminResolutionStatus : Statuses \union {None}]

\* What is assumed of the constants: no id, document or resolution is None.
ConstantsFit ==
  /\ None \notin Contracts \union Requests \union Statuses
  /\ None \notin ContractScheme /\ None \notin ContractPublicRequest

Idle == [pc |-> "idle", request |-> None, contract |-> None]
Progress == [pc : {"idle", "insert", "insert fabric", "fabric", "read", "public"},
             request : Requests \union {None}, contract : Contracts \union {None}]

TypeOK ==
  /\ contract \in [Contracts -> ContractScheme \union {None}]
  /\ request \in [Requests -> ContractPublicRequest \union {None}]
  /\ call \in [Calls -> Progress]
  /\ once \subseteq Requests /\ stuck \subseteq Contracts

Init ==
  /\ contract = [c \in Contracts |-> None]
  /\ request = [r \in Requests |-> None]
  /\ call = [k \in Calls |-> Idle]
  /\ once = {} /\ stuck = {}

-----------------------------------------------------------------------------
CreateContract(c) ==
  /\ contract[c] = None
  /\ contract' = [contract EXCEPT ![c] = [isFabric |-> FALSE, isPublic |-> FALSE]]
  /\ UNCHANGED <<request, call, once, stuck>>

Continue(k, pc, r, c) == call' = [call EXCEPT ![k] = [pc |-> pc, request |-> r, contract |-> c]]
Return(k) == call' = [call EXCEPT ![k] = Idle]

\* createPublicContractRequest, for a contract that exists
AskPublic(k, c, isFabric) ==
  /\ call[k].pc = "idle" /\ contract[c] # None
  /\ Continue(k, IF isFabric THEN "insert fabric" ELSE "insert", None, c)
  /\ UNCHANGED <<contract, request, once, stuck>>

InsertRequest(k, r) ==
  LET asFabric == call[k].pc = "insert fabric" IN
  /\ call[k].pc \in {"insert", "insert fabric"} /\ request[r] = None
  /\ request' = [request EXCEPT ![r] =
       [contractId |-> call[k].contract, asFabric |-> asFabric, adminResolutionStatus |-> None]]
  /\ IF asFabric THEN Continue(k, "fabric", r, call[k].contract) ELSE Return(k)
  /\ UNCHANGED <<contract, once, stuck>>

MarkAsFabric(k) ==
  /\ call[k].pc = "fabric"
  /\ contract' = [contract EXCEPT ![call[k].contract].isFabric = TRUE]
  /\ Return(k)
  /\ UNCHANGED <<request, once, stuck>>

\* Faulty variant: the request is not looked at again, every resolution ends
\* with the mark.
SetResolutionAlways(k, r, status) ==
  /\ call[k].pc = "idle" /\ request[r] # None
  /\ request' = [request EXCEPT ![r].adminResolutionStatus = status]
  /\ once' = IF status = "APPROVE" THEN once \union {r} ELSE once
  /\ Continue(k, "read", r, None)
  /\ UNCHANGED <<contract, stuck>>

\* setResolution: any resolution, as often as an admin likes
SetResolution(k, r, status) ==
  /\ call[k].pc = "idle" /\ request[r] # None
  /\ request' = [request EXCEPT ![r].adminResolutionStatus = status]
  /\ IF status = "APPROVE"
     THEN once' = once \union {r} /\ Continue(k, "read", r, None)
     ELSE UNCHANGED <<once, call>>
  /\ UNCHANGED <<contract, stuck>>

ReadRequest(k) ==
  /\ call[k].pc = "read"
  /\ Continue(k, "public", call[k].request, request[call[k].request].contractId)
  /\ UNCHANGED <<contract, request, once, stuck>>

MarkAsPublic(k) ==
  /\ call[k].pc = "public"
  /\ contract' = [contract EXCEPT ![call[k].contract].isPublic = TRUE]
  /\ Return(k)
  /\ UNCHANGED <<request, once, stuck>>

\* The database refuses, or the process ends: nothing finishes the call later.
Fails(k) ==
  /\ call[k].pc # "idle"
  /\ stuck' = CASE call[k].pc \in {"fabric", "public"} -> stuck \union {call[k].contract}
                [] call[k].pc = "read" -> stuck \union {request[call[k].request].contractId}
                [] OTHER -> stuck
  /\ Return(k)
  /\ UNCHANGED <<contract, request, once>>

\* listUnresolvedRequests, listByStatus
Unresolved == {r \in Requests : request[r] # None /\ request[r].adminResolutionStatus = None}
WithStatus(status) == {r \in Requests : request[r] # None /\ request[r].adminResolutionStatus = status}

Next ==
  \/ \E c \in Contracts : CreateContract(c)
  \/ \E k \in Calls :
       \/ \E c \in Contracts, isFabric \in BOOLEAN : AskPublic(k, c, isFabric)
       \/ \E r \in Requests : InsertRequest(k, r) \/ \E s \in Statuses : SetResolution(k, r, s)
       \/ MarkAsFabric(k) \/ ReadRequest(k) \/ MarkAsPublic(k) \/ Fails(k)

-----------------------------------------------------------------------------
Working(c) ==
  \E k \in Calls : \/ call[k].contract = c
                   \/ call[k].request # None /\ request[call[k].request].contractId = c

\* A contract is public only if a request for it was approved at some time --
\* even if that request has been rejected since, for no mark is taken back --
\* and a fabric only if some request said so; and once no call for it is in
\* progress and none has failed half-way, the approved requests and the
\* marks agree; a request that was ever resolved is not listed as unresolved.
MarksFollowRequests ==
  /\ \A c \in {d \in Contracts : contract[d] # None} :
       LET mine == {r \in Requests : request[r] # None /\ request[r].contractId = c} IN
       /\ contract[c].isPublic => mine \cap once # {}
       /\ contract[c].isFabric => \E r \in mine : request[r].asFabric
       /\ ~Working(c) /\ c \notin stuck =>
            /\ mine \cap WithStatus("APPROVE") # {} => contract[c].isPublic
            /\ (\E r \in mine : request[r].asFabric) => contract[c].isFabric
  /\ once \cap Unresolved = {}
=============================================================================
