---------------------------- MODULE NodeRequests ----------------------------
(***************************************************************************)
(* A request that reads from a blockchain's node or broadcasts to it       *)
(* (fluence.ms.abstract.blockchain: abstract.blockchain.controller.ts;     *)
(* fluence.lib.services: blockchain.service.ts and                         *)
(* blockchain.registry.service.ts; the transport providers of the          *)
(* bitcoin, litecoin and ethereum libraries).                              *)
(*                                                                         *)
(* A provider turns what its node answers into a value, null or an         *)
(* exception, each library in its own way, and the controller turns that   *)
(* into a status.  Which node is asked is ManagedTransport's subject: here *)
(* a call for a connection reaches it or is rejected.  One transaction is  *)
(* followed; a request is answered in several steps, between which         *)
(* connections are removed or become private, blocks are mined, and a      *)
(* broadcast nobody awaits may still take place.                           *)
(***************************************************************************)
EXTENDS Naturals

CONSTANTS Conns, Projects,   \* transport connections, projects
          None

VARIABLES
  kind,        \* the provider of each connection; chosen once
  setup,       \* the project each connection is private to, or None
  docs,        \* the connections whose documents are stored
  registry,    \* the connections of whose network a service is registered
  chain,       \* the transaction: "unknown" to the nodes, in the "pool", "mined"
  pending,     \* a broadcast that was not awaited is still under way
  req          \* the request in progress and what became of it

vars == <<kind, setup, docs, registry, chain, pending, req>>
world == <<kind, setup, docs, registry>>

Core == {"bitcoin core", "litecoin core"}
Bitcoin == {"bitcoin core", "blockchain.info"}
Providers == Core \union Bitcoin \union {"ethers"}

Reads == {"height", "hash", "transaction", "balance", "confirmed balance"}

\* The transaction as it is sent, and the hash nodes and blocks know it by.
Texts == {"raw", "hash"}

\* Ids of connections, of projects and of nothing are different, and none is
\* the name of an operation or such a text.
ASSUME IdsDiffer ==
  /\ Conns \cap Projects = {} /\ None \notin Conns \union Projects
  /\ None \notin Reads \union {"submit", "send"} \union Texts

Answers == {"value", "string", "null", "throws"}

Idle == [pc |-> "idle", op |-> None, project |-> None, conn |-> None, named |-> None,
         result |-> "none", code |-> 0, counted |-> "no", awaited |-> None]

Codes == {0, 200, 400, 404, 500}

Requests ==
  [pc : {"idle", "check", "load", "call", "lookup", "subscribe", "done"},
   op : Reads \union {"submit", "send", None},
   project : Projects \union {None}, conn : Conns \union {None},
   named : Conns \union Projects \union {None},
   result : {"none", "value", "null", "throws"}, code : Codes,
   counted : {"no", "sent", "failed"}, awaited : Texts \union {None}]

TypeOK ==
  /\ kind \in [Conns -> Providers]
  /\ setup \in [Conns -> Projects \union {None}]
  /\ docs \subseteq Conns /\ registry \subseteq Conns
  /\ chain \in {"unknown", "pool", "mined"} /\ pending \in BOOLEAN
  /\ req \in Requests

Init ==
  /\ kind \in [Conns -> Providers]
  /\ setup = [n \in Conns |-> None]
  /\ docs = Conns /\ registry = {}
  /\ chain = "unknown" /\ pending = FALSE
  /\ req = Idle

-----------------------------------------------------------------------------
(* Outside the request *)

SetPrivate(n, p) ==
  /\ setup' = [setup EXCEPT ![n] = p]
  /\ UNCHANGED <<kind, docs, registry, chain, pending, req>>

Remove(n) ==
  /\ docs' = docs \ {n}
  /\ UNCHANGED <<kind, setup, registry, chain, pending, req>>

\* BlockchainRegistryService.register: nothing is ever taken out again.
Register(n) ==
  /\ registry' = registry \union {n}
  /\ UNCHANGED <<kind, setup, docs, chain, pending, req>>

Mine ==
  /\ chain = "pool" /\ chain' = "mined"
  /\ UNCHANGED <<world, pending, req>>

Accept(c) == IF c = "unknown" THEN "pool" ELSE c

\* The broadcast of an ethers provider comes to its end.
Settle ==
  /\ pending /\ pending' = FALSE
  /\ chain' \in {chain, Accept(chain)}
  /\ UNCHANGED <<world, req>>

-----------------------------------------------------------------------------
(* The providers: what becomes of the answers to their requests *)

\* One document is asked for, by a client that may answer with an error text.
OneRead(error, answer) == IF answer = "value" THEN "value" ELSE error

\* A client of the node's own interface.  Blocks by height and transactions
\* take two requests; a transaction outside of a block has no block hash to ask for.
CoreRead(error, op, first, second, mined) ==
  CASE op = "height" -> IF first \in {"throws", "null"} THEN "throws" ELSE OneRead(error, second)
    [] op = "hash" -> OneRead(error, first)
    [] op = "transaction" ->
         IF first \in {"throws", "string"} THEN error
         ELSE IF first = "value" /\ mined /\ second = "value" THEN "value" ELSE "throws"
    [] OTHER -> IF first = "throws" THEN error ELSE "value"

BcBitcoin(op, first, second, mined) == CoreRead("null", op, first, second, mined)
BcLitecoin(op, first, second, mined) == CoreRead("throws", op, first, second, mined)

\* blockchain.info: every request is caught.
BiBitcoin(op, first) ==
  IF op \in {"balance", "confirmed balance"} /\ first # "throws" THEN "value"
  ELSE OneRead("null", first)

\* ethers: nothing is caught, and a document that is not there fails the
\* conversion.
EthersConvert(answer) == OneRead("throws", answer)

\* A block reads its transactions too; confirmations are refused.
Ethers(op, first, second) ==
  CASE op = "confirmed balance" -> "throws"
    [] op \in {"height", "hash"} /\ EthersConvert(second) = "throws" -> "throws"
    [] OTHER -> EthersConvert(first)

Provide(k, op, first, second, mined) ==
  CASE k = "bitcoin core"    -> BcBitcoin(op, first, second, mined)
    [] k = "litecoin core"   -> BcLitecoin(op, first, second, mined)
    [] k = "blockchain.info" -> BiBitcoin(op, first)
    [] k = "ethers"          -> Ethers(op, first, second)

\* The first and the second answer to the requests of one read.  A node that
\* does not know the transaction cannot answer with it.
NodeAnswers(op) ==
  {a \in Answers \X Answers : op = "transaction" /\ chain = "unknown" => a[1] # "value"}

Lookups(k) == {Provide(k, "transaction", a[1], a[2], chain = "mined") : a \in NodeAnswers("transaction")}

-----------------------------------------------------------------------------
(* AbstractBlockchainController *)

Go(pc) == req' = [req EXCEPT !.pc = pc]
Status(code) == req' = [req EXCEPT !.pc = "done", !.code = code]

Ask(op, p, n) ==
  /\ req.pc = "idle"
  /\ req' = [Idle EXCEPT !.pc = "check", !.op = op, !.project = p, !.conn = n]
  /\ UNCHANGED <<world, chain, pending>>

\* isTransportConnectionIdValid
Check ==
  /\ req.pc = "check"
  /\ \/ IF setup[req.conn] \notin {None, req.project} THEN Status(404) ELSE Go("load")
     \/ Status(500)
  /\ UNCHANGED <<world, chain, pending>>

\* The document is read, and the service of its network is looked up.
Registered(n) == n \in registry

\* What is asked for may be invalid, or neither a number nor a hash.
Refusals(op) ==
  (IF op \in Reads \ {"transaction"} THEN {400} ELSE {})
    \union (IF op = "hash" THEN {404} ELSE {})

\* Faulty variant: the two identifiers are passed in their declared order.
LoadInOrder ==
  /\ req.pc = "load"
  /\ \/ IF req.conn \notin docs THEN Status(500)
        ELSE IF ~Registered(req.conn) THEN Status(400)
        ELSE req' = [req EXCEPT !.pc = "call", !.named = req.conn]
     \/ \E code \in Refusals(req.op) \union {500} : Status(code)
  /\ UNCHANGED <<world, chain, pending>>

\* sendRawTransaction is given the project's id where it takes the connection's.
Load ==
  /\ req.pc = "load"
  /\ \/ IF req.conn \notin docs THEN Status(500)
        ELSE IF ~Registered(req.conn) THEN Status(400)
        ELSE req' = [req EXCEPT !.pc = "call",
                                !.named = IF req.op = "submit" THEN req.project ELSE req.conn]
     \/ \E code \in Refusals(req.op) \union {500} : Status(code)
  /\ UNCHANGED <<world, chain, pending>>

\* What the caller gets for what the service answers; sending is counted, and
\* the subscription that was created waits for a text.
Answer(result, awaited) ==
  req' = [req EXCEPT !.pc = "done", !.result = result, !.awaited = awaited,
            !.code = CASE result = "value" -> 200 [] result = "null" -> 404 [] result = "throws" -> 500,
            !.counted = IF req.op # "submit" THEN "no"
                        ELSE IF result = "throws" THEN "failed" ELSE "sent"]

\* getBlockByHashOrNumber, getTransactionByHash, getAddressBalance
Read ==
  /\ req.pc = "call" /\ req.op \in Reads
  /\ \/ \E a \in NodeAnswers(req.op) :
          Answer(Provide(kind[req.named], req.op, a[1], a[2], chain = "mined"), None)
     \/ Answer("throws", None)
  /\ UNCHANGED <<world, chain, pending>>

-----------------------------------------------------------------------------
(* BlockchainService.sendRawTransaction *)

\* Another microservice calls the service itself.
Send(p, n) ==
  /\ req.pc = "idle"
  /\ req' = [Idle EXCEPT !.pc = "call", !.op = "send", !.project = p, !.conn = n, !.named = n]
  /\ UNCHANGED <<world, chain, pending>>

\* Faulty variant: an error of the broadcast goes unnoticed.
BroadcastUnnoticed ==
  /\ req.pc = "call" /\ req.op \in {"submit", "send"} /\ req.named \in Conns
  /\ chain' \in {chain, Accept(chain)} /\ Answer("value", None)
  /\ UNCHANGED <<world, pending>>

\* No connection has the id of a project, without a project there is no id to
\* read, and a connection may not be usable.
NoTransport ==
  /\ req.pc = "call" /\ req.op \in {"submit", "send"}
  /\ Answer("throws", None)
  /\ UNCHANGED <<world, chain, pending>>

Returned(result) == req' = [req EXCEPT !.pc = "subscribe", !.result = result]

\* The providers hand the transaction to the node.  An error -- the node may
\* have taken it -- is null for bitcoin; ethers does not wait for the answer.
Broadcast ==
  /\ req.pc = "call" /\ req.op \in {"submit", "send"} /\ req.named \in Conns
  /\ IF kind[req.named] = "ethers"
     THEN pending' = TRUE /\ Go("lookup") /\ UNCHANGED chain
     ELSE /\ UNCHANGED pending
          /\ \/ chain' = Accept(chain) /\ Go("lookup")
             \/ /\ chain' \in {chain, Accept(chain)}
                /\ IF kind[req.named] \in Bitcoin THEN Returned("null") ELSE Answer("throws", None)
  /\ UNCHANGED world

\* The transaction is read back by its hash.  blockchain.info is asked for a
\* text that is no hash; ethers is given a promise: it waits, or throws.
LookUp ==
  /\ req.pc = "lookup"
  /\ \E result \in CASE kind[req.named] = "blockchain.info" -> {"null", "throws"}
                     [] kind[req.named] = "ethers" /\ pending -> {"throws"}
                     [] OTHER -> Lookups(kind[req.named]) :
       IF result = "throws" THEN Answer("throws", None) ELSE Returned(result)
  /\ UNCHANGED <<world, chain, pending>>

\* With a project, and if it and its client are Active, a hash subscription
\* is created -- whether or not there is a transaction -- before the answer.
\* It is given the raw transaction where createSubscription takes the hash.
Subscribe ==
  /\ req.pc = "subscribe"
  /\ \/ Answer(req.result, None)
     \/ req.project # None /\ Answer(req.result, "raw")
     \/ req.project # None /\ \E awaited \in {"raw", None} : Answer("throws", awaited)
  /\ UNCHANGED <<world, chain, pending>>

Forget == req.pc = "done" /\ req' = Idle /\ UNCHANGED <<world, chain, pending>>

Next ==
  \/ \E n \in Conns :
       \/ \E p \in Projects \union {None} : SetPrivate(n, p) \/ Send(p, n)
       \/ Remove(n) \/ Register(n)
       \/ \E op \in Reads \union {"submit"}, p \in Projects \union {None} : Ask(op, p, n)
  \/ Mine \/ Settle
  \/ Check \/ Load \/ Read \/ NoTransport \/ Broadcast \/ LookUp \/ Subscribe \/ Forget

Spec == Init /\ [][Next]_vars

-----------------------------------------------------------------------------
\* What the handlers look subscriptions up by: the hashes of the transactions
\* in a block (listBySubscribedHashes).
Announced == IF chain = "mined" THEN {"hash"} ELSE {}

\* A caller that is given the transaction it sent can rely on it: some node
\* has it, whatever came between the broadcast and the reading back.  What it
\* was told otherwise says nothing, save that only bitcoin libraries answer
\* null.  Nobody can rely on being told of its confirmations: with no provider
\* does the subscription wait for what a block may announce, as it was
\* created with the raw transaction (blockchain.service.ts:124).
SendReportsAreTrue ==
  req.pc = "done" /\ req.op = "send" =>
    /\ req.code = 200 => chain # "unknown"
    /\ req.code = 404 => kind[req.conn] \in Bitcoin
    /\ req.awaited \notin Announced

\* A raw transaction that is submitted over HTTP is never broadcast and never
\* counted as sent: the controller passes the project's id as the connection's
\* (abstract.blockchain.controller.ts:170, blockchain.service.ts:105-109).
SubmissionsAreNeverSent ==
  req.op = "submit" =>
    /\ req.pc \notin {"lookup", "subscribe"} /\ req.counted # "sent"
    /\ req.pc = "done" => req.code \in {400, 404, 500}
=============================================================================
