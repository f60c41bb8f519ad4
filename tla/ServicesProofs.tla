--------------------------- MODULE ServicesProofs ---------------------------
(***************************************************************************)
(* Proofs about Services for any values of its constants: of NodeRequests, *)
(* Sessions, BatchCalls, CallMetrics and ContractRequests here; what is    *)
(* proved of HttpRequests, ScheduledTransactions and                       *)
(* ConnectionSubscriptions in modules of their own is carried over at the  *)
(* end.                                                                    *)
(***************************************************************************)
EXTENDS Services, FiniteSetTheorems, SequenceTheorems, TLAPS

-----------------------------------------------------------------------------
(* NodeRequests: that no project has the id of a connection is assumed     *)
(* there, since ids are ObjectIDs of two collections.                      *)

-----------------------------------------------------------------------------
(* The providers *)

\* Only a bitcoin library answers null for a transaction, and no library
\* answers with a transaction its node has not returned.
LEMMA ProvideTransaction ==
  ASSUME NEW k \in Providers, NEW first \in Answers, NEW second \in Answers,
         NEW mined \in BOOLEAN
  PROVE  LET result == Provide(k, "transaction", first, second, mined) IN
         /\ result \in {"value", "null", "throws"}
         /\ result = "value" => first = "value"
         /\ result = "null" => k \in Bitcoin
BY DEF Providers, Core, Bitcoin, Answers, Provide, BcBitcoin, BcLitecoin, BiBitcoin,
       Ethers, CoreRead, OneRead, EthersConvert

\* A look-up finds only what some node has.
LEMMA LookupsAreTrue ==
  ASSUME NEW k \in Providers, NEW result \in Lookups(k)
  PROVE  /\ result \in {"value", "null", "throws"}
         /\ result = "value" => chain # "unknown"
         /\ result = "null" => k \in Bitcoin
<1>1. PICK a \in NodeAnswers("transaction") :
        result = Provide(k, "transaction", a[1], a[2], chain = "mined")
  BY DEF Lookups
<1>2. a[1] \in Answers /\ a[2] \in Answers /\ (chain = "unknown" => a[1] # "value")
  BY DEF NodeAnswers
<1> QED
  BY <1>1, <1>2, ProvideTransaction

\* A broadcast never makes a transaction unknown again.
LEMMA AcceptIsMonotone ==
  ASSUME chain \in {"unknown", "pool", "mined"}
  PROVE  Accept(chain) \in {"pool", "mined"}
BY DEF Accept

-----------------------------------------------------------------------------
(* The types of a read's answers *)

LEMMA ProvideTypes ==
  ASSUME NEW k \in Providers, NEW op \in Reads, NEW first \in Answers,
         NEW second \in Answers, NEW mined \in BOOLEAN
  PROVE  Provide(k, op, first, second, mined) \in {"value", "null", "throws"}
BY DEF Providers, Core, Bitcoin, Answers, Reads, Provide, BcBitcoin, BcLitecoin, BiBitcoin,
       Ethers, CoreRead, OneRead, EthersConvert

\* The raw transaction and no text at all are not its hash.
LEMMA NoneIsNoText == "raw" \in Texts /\ "raw" # "hash" /\ None # "hash"
BY IdsDiffer DEF Texts

LEMMA AnswerTypes ==
  ASSUME NEW result \in {"value", "null", "throws"}, NEW awaited \in Texts \union {None},
         req \in Requests, Answer(result, awaited)
  PROVE  /\ req' \in Requests
         /\ req'.pc = "done" /\ req'.op = req.op /\ req'.conn = req.conn
         /\ req'.named = req.named /\ req'.awaited = awaited
         /\ req'.code = 200 <=> result = "value"
         /\ req'.code = 404 <=> result = "null"
         /\ req'.code = 500 <=> result = "throws"
         /\ req'.counted = "sent" <=> req.op = "submit" /\ result # "throws"
<1> DEFINE Code == CASE result = "value" -> 200 [] result = "null" -> 404 [] result = "throws" -> 500
           Counted == IF req.op # "submit" THEN "no"
                      ELSE IF result = "throws" THEN "failed" ELSE "sent"
<1>1. /\ Code \in Codes
      /\ Code = 200 <=> result = "value"
      /\ Code = 404 <=> result = "null"
      /\ Code = 500 <=> result = "throws"
  BY DEF Codes
<1>2. /\ Counted \in {"no", "sent", "failed"}
      /\ Counted = "sent" <=> req.op = "submit" /\ result # "throws"
  OBVIOUS
<1>3. req' = [req EXCEPT !.pc = "done", !.result = result, !.awaited = awaited,
                         !.code = Code, !.counted = Counted]
  BY DEF Answer
<1> HIDE DEF Code, Counted
<1>4. req' \in Requests
  <2>1. ASSUME NEW answer \in Codes, NEW counted \in {"no", "sent", "failed"}
        PROVE  [req EXCEPT !.pc = "done", !.result = result, !.awaited = awaited,
                           !.code = answer, !.counted = counted] \in Requests
    BY DEF Requests
  <2> QED
    BY <1>1, <1>2, <1>3, <2>1
<1>5. /\ req'.pc = "done" /\ req'.op = req.op /\ req'.conn = req.conn
      /\ req'.named = req.named /\ req'.awaited = awaited
      /\ req'.code = Code /\ req'.counted = Counted
  BY <1>3 DEF Requests
<1> QED
  BY <1>1, <1>2, <1>4, <1>5

-----------------------------------------------------------------------------
(* The invariant *)

\* Where a request is, its connection is known.
Located ==
  /\ req.pc \in {"check", "load"} => req.conn \in Conns
  /\ req.pc = "call" /\ req.op # "submit" => req.named \in Conns
  /\ req.pc = "lookup" => req.named \in Conns
  /\ req.pc = "subscribe" => req.result \in {"value", "null"}

\* A submission reaches the service with an id that is no connection's.
Misnamed ==
  req.op = "submit" =>
    /\ req.pc \in {"check", "load", "call", "done"}
    /\ req.pc = "call" => req.named \notin Conns
    /\ req.counted # "sent"
    /\ req.pc = "done" => req.code \in {400, 404, 500}

\* What the service is about to answer a sender is true.
Truthful ==
  req.op = "send" =>
    /\ req.pc \in {"call", "lookup", "subscribe", "done"}
    /\ req.named = req.conn
    /\ req.pc = "subscribe" =>
         /\ req.result = "value" => chain # "unknown"
         /\ req.result = "null" => kind[req.conn] \in Bitcoin
    /\ req.pc = "done" => req.awaited # "hash"
    /\ SendReportsAreTrue

IInv == TypeOK /\ Located /\ Misnamed /\ Truthful

LEMMA InitIInv ==
  ASSUME Init
  PROVE  IInv
<1>1. Idle \in Requests
  BY DEF Idle, Requests, Codes
<1>2. req.pc = "idle" /\ req.op = None
  BY DEF Init, Idle
<1> QED
  BY IdsDiffer, <1>1, <1>2 DEF Init, IInv, TypeOK, Located, Misnamed, Truthful

\* What happens outside of the request leaves it and what it was told alone.
LEMMA WorldKeepsIInv ==
  ASSUME IInv, req' = req, kind' = kind, setup' \in [Conns -> Projects \union {None}],
         docs' \subseteq Conns, registry' \subseteq Conns, pending' \in BOOLEAN,
         chain' \in {"unknown", "pool", "mined"}, chain # "unknown" => chain' # "unknown"
  PROVE  IInv'
BY DEF IInv, TypeOK, Located, Misnamed, Truthful, SendReportsAreTrue, Announced

\* Whatever is answered to a request that is not one of the two that send.
LEMMA AnswerKeepsIInv ==
  ASSUME IInv, UNCHANGED world, pending' \in BOOLEAN,
         chain' \in {"unknown", "pool", "mined"}, chain # "unknown" => chain' # "unknown",
         NEW result \in {"value", "null", "throws"}, NEW awaited \in Texts \union {None},
         Answer(result, awaited),
         req.op = "submit" => result = "throws",
         req.op = "send" =>
           /\ req.named = req.conn
           /\ result = "value" => chain' # "unknown"
           /\ result = "null" => kind[req.conn] \in Bitcoin
           /\ awaited # "hash"
  PROVE  IInv'
<1>1. req \in Requests
  BY DEF IInv, TypeOK
<1> QED
  BY <1>1, AnswerTypes DEF IInv, TypeOK, Located, Misnamed, Truthful, SendReportsAreTrue, Announced, world

\* A refusal ends no request but one of the controller's.
LEMMA StatusKeepsIInv ==
  ASSUME IInv, UNCHANGED <<world, chain, pending>>, req.op # "send",
         NEW answer \in Codes \ {0, 200}, Status(answer)
  PROVE  IInv'
<1>1. answer \in Codes
  OBVIOUS
<1>2. req' \in Requests
  BY <1>1 DEF Status, IInv, TypeOK, Requests
<1>3. /\ req'.pc = "done" /\ req'.op = req.op /\ req'.counted = req.counted
      /\ req'.code = answer
  BY DEF Status, IInv, TypeOK, Requests
<1>4. answer \in {400, 404, 500}
  BY DEF Codes
<1> QED
  BY <1>2, <1>3, <1>4 DEF IInv, TypeOK, Located, Misnamed, Truthful, world

\* The steps of a request that do not end it.
LEMMA GoKeepsIInv ==
  ASSUME IInv, UNCHANGED world, pending' \in BOOLEAN,
         chain' \in {"unknown", "pool", "mined"}, chain # "unknown" => chain' # "unknown",
         \/ req.pc = "check" /\ req.op # "send" /\ Go("load")
         \/ req.pc = "call" /\ req.named \in Conns /\ req.op # "submit" /\ Go("lookup")
  PROVE  IInv'
<1>1. req' \in Requests
  BY DEF Go, IInv, TypeOK, Requests
<1>2. /\ req'.op = req.op /\ req'.conn = req.conn /\ req'.named = req.named
      /\ req'.counted = req.counted
      /\ \/ req'.pc = "load" /\ req.pc = "check" /\ req.op # "send"
         \/ req'.pc = "lookup" /\ req.named \in Conns /\ req.op # "submit"
  BY DEF Go, IInv, TypeOK, Requests
<1> QED
  BY <1>1, <1>2 DEF IInv, TypeOK, Located, Misnamed, Truthful, SendReportsAreTrue, Announced, world

\* A service's answer on its way to the caller.
LEMMA ReturnedKeepsIInv ==
  ASSUME IInv, UNCHANGED world, pending' \in BOOLEAN,
         chain' \in {"unknown", "pool", "mined"}, chain # "unknown" => chain' # "unknown",
         NEW result \in {"value", "null"}, Returned(result), req.op # "submit",
         req.op = "send" =>
           /\ result = "value" => chain' # "unknown"
           /\ result = "null" => kind[req.conn] \in Bitcoin
  PROVE  IInv'
<1>1. req' \in Requests
  BY DEF Returned, IInv, TypeOK, Requests
<1>2. /\ req'.op = req.op /\ req'.conn = req.conn /\ req'.named = req.named
      /\ req'.counted = req.counted /\ req'.pc = "subscribe" /\ req'.result = result
  BY DEF Returned, IInv, TypeOK, Requests
<1> QED
  BY <1>1, <1>2 DEF IInv, TypeOK, Located, Misnamed, Truthful, SendReportsAreTrue, Announced, world

\* A new request is asked to the controller ...
LEMMA AskKeepsIInv ==
  ASSUME IInv, NEW n \in Conns, NEW p \in Projects \union {None},
         NEW op \in Reads \union {"submit"}, Ask(op, p, n)
  PROVE  IInv'
<1>1. [Idle EXCEPT !.pc = "check", !.op = op, !.project = p, !.conn = n] \in Requests
  <2>1. 0 \in Codes
    BY DEF Codes
  <2> QED
    BY <2>1 DEF Idle, Requests
<1>2. req'.pc = "check" /\ req'.op = op /\ req'.conn = n /\ req'.counted = "no"
  BY DEF Ask, Idle
<1>3. op # "send"
  BY DEF Reads
<1> QED
  BY <1>1, <1>2, <1>3 DEF Ask, IInv, TypeOK, Located, Misnamed, Truthful, world

\* ... or to the service itself, with the connection's own id.
LEMMA SendKeepsIInv ==
  ASSUME IInv, NEW n \in Conns, NEW p \in Projects \union {None}, Send(p, n)
  PROVE  IInv'
<1>1. [Idle EXCEPT !.pc = "call", !.op = "send", !.project = p, !.conn = n, !.named = n] \in Requests
  <2>1. 0 \in Codes
    BY DEF Codes
  <2> QED
    BY <2>1 DEF Idle, Requests
<1>2. req'.pc = "call" /\ req'.op = "send" /\ req'.conn = n /\ req'.named = n
  BY DEF Send, Idle
<1> QED
  BY <1>1, <1>2 DEF Send, IInv, TypeOK, Located, Misnamed, Truthful, SendReportsAreTrue, world

\* A request that was answered is forgotten.
LEMMA ForgetKeepsIInv ==
  ASSUME IInv, Forget
  PROVE  IInv'
<1>1. Idle \in Requests
  BY DEF Idle, Requests, Codes
<1>2. req'.pc = "idle" /\ req'.op = None
  BY DEF Forget, Idle
<1> QED
  BY IdsDiffer, <1>1, <1>2 DEF Forget, IInv, TypeOK, Located, Misnamed, Truthful, world

\* The id a submission is carried on with is its project's, which no
\* connection has.
LEMMA LoadKeepsIInv ==
  ASSUME IInv, Load
  PROVE  IInv'
<1>1. req.op # "send"
  BY DEF Load, IInv, Truthful
<1>2. ASSUME NEW answer \in Codes \ {0, 200}, Status(answer)
      PROVE  IInv'
  BY <1>1, <1>2, StatusKeepsIInv DEF Load
<1>3. /\ {400, 500} \subseteq Codes \ {0, 200}
      /\ Refusals(req.op) \union {500} \subseteq Codes \ {0, 200}
  BY DEF Refusals, Codes
<1>4. CASE req' = [req EXCEPT !.pc = "call",
                              !.named = IF req.op = "submit" THEN req.project ELSE req.conn]
  <2>1. /\ req'.pc = "call" /\ req'.op = req.op /\ req'.conn = req.conn /\ req'.counted = req.counted
        /\ req'.named = IF req.op = "submit" THEN req.project ELSE req.conn
    BY <1>4 DEF IInv, TypeOK, Requests
  <2>2. req.conn \in Conns /\ req.project \in Projects \union {None}
    BY DEF Load, IInv, TypeOK, Located, Requests
  <2>3. req' \in Requests
    <3>1. ASSUME NEW id \in Conns \union Projects \union {None}
          PROVE  [req EXCEPT !.pc = "call", !.named = id] \in Requests
      BY DEF IInv, TypeOK, Requests
    <3> QED
      BY <1>4, <2>2, <3>1
  <2> QED
    BY IdsDiffer, <1>1, <2>1, <2>2, <2>3 DEF Load, IInv, TypeOK, Located, Misnamed, Truthful, world
<1> QED
  BY <1>2, <1>3, <1>4 DEF Load

LEMMA CheckKeepsIInv ==
  ASSUME IInv, Check
  PROVE  IInv'
<1>1. req.op # "send" /\ req.pc = "check"
  BY DEF Check, IInv, Truthful
<1>2. {404, 500} \subseteq Codes \ {0, 200}
  BY DEF Codes
<1>3. chain \in {"unknown", "pool", "mined"} /\ pending \in BOOLEAN
  BY DEF IInv, TypeOK
<1>4. CASE Go("load")
  BY <1>1, <1>3, <1>4, GoKeepsIInv DEF Check
<1>5. CASE \E answer \in {404, 500} : Status(answer)
  BY <1>1, <1>2, <1>5, StatusKeepsIInv DEF Check
<1> QED
  BY <1>4, <1>5 DEF Check

\* The answers of the providers to a read end it; sending is refused.
LEMMA ReadKeepsIInv ==
  ASSUME IInv, Read \/ NoTransport
  PROVE  IInv'
<1> USE DEF IInv, TypeOK
<1>1. UNCHANGED world /\ pending' \in BOOLEAN /\ chain' \in {"unknown", "pool", "mined"} /\ chain' = chain
  BY DEF Read, NoTransport
<1>2. CASE Answer("throws", None)
  BY <1>1, <1>2, AnswerKeepsIInv, NoneIsNoText DEF Truthful, Read, NoTransport
<1>3. ASSUME req.pc = "call", req.op \in Reads, NEW a \in NodeAnswers(req.op),
             Answer(Provide(kind[req.named], req.op, a[1], a[2], chain = "mined"), None)
      PROVE  IInv'
  <2>1. req.op \notin {"submit", "send"}
    BY <1>3 DEF Reads
  <2>2. kind[req.named] \in Providers
    BY <1>3, <2>1 DEF Located
  <2>3. a[1] \in Answers /\ a[2] \in Answers /\ (chain = "mined") \in BOOLEAN
    BY <1>3 DEF NodeAnswers
  <2> DEFINE result == Provide(kind[req.named], req.op, a[1], a[2], chain = "mined")
  <2>4. result \in {"value", "null", "throws"}
    BY <1>3, <2>2, <2>3, ProvideTypes
  <2> HIDE DEF result
  <2>5. Answer(result, None)
    BY <1>3 DEF result
  <2> QED
    BY <1>1, <2>1, <2>4, <2>5, AnswerKeepsIInv
<1> QED
  BY <1>2, <1>3 DEF Read, NoTransport

\* Only a sender with a connection's id gets as far as the node.
LEMMA BroadcastKeepsIInv ==
  ASSUME IInv, Broadcast
  PROVE  IInv'
<1> USE DEF IInv, TypeOK
<1>1. req.op = "send" /\ req.named = req.conn /\ req.named \in Conns
  BY DEF Broadcast, Misnamed, Truthful
<1>2. UNCHANGED world /\ pending' \in BOOLEAN
  BY DEF Broadcast
<1>3. chain' \in {"unknown", "pool", "mined"} /\ (chain # "unknown" => chain' # "unknown")
  BY AcceptIsMonotone DEF Broadcast
<1>4. CASE Go("lookup")
  BY <1>1, <1>2, <1>3, <1>4, GoKeepsIInv DEF Broadcast
<1>5. CASE Returned("null") /\ kind[req.named] \in Bitcoin
  BY <1>1, <1>2, <1>3, <1>5, ReturnedKeepsIInv
<1>6. CASE Answer("throws", None)
  BY <1>1, <1>2, <1>3, <1>6, AnswerKeepsIInv, NoneIsNoText
<1> QED
  BY <1>4, <1>5, <1>6 DEF Broadcast

\* What is read back is true of the chain.
LEMMA LookUpKeepsIInv ==
  ASSUME IInv, LookUp
  PROVE  IInv'
<1> USE DEF IInv, TypeOK
<1>1. UNCHANGED world /\ pending' \in BOOLEAN /\ chain' \in {"unknown", "pool", "mined"} /\ chain' = chain
  BY DEF LookUp
<1>2. req.op # "submit" /\ kind[req.named] \in Providers /\ (req.op = "send" => req.named = req.conn)
  BY DEF LookUp, Misnamed, Located, Truthful
<1>3. PICK result \in CASE kind[req.named] = "blockchain.info" -> {"null", "throws"}
                        [] kind[req.named] = "ethers" /\ pending -> {"throws"}
                        [] OTHER -> Lookups(kind[req.named]) :
        IF result = "throws" THEN Answer("throws", None) ELSE Returned(result)
  BY DEF LookUp
<1>4. /\ result \in {"value", "null", "throws"}
      /\ result = "value" => chain # "unknown"
      /\ result = "null" => kind[req.named] \in Bitcoin
  <2>1. CASE result \in Lookups(kind[req.named])
    BY <1>2, <2>1, LookupsAreTrue
  <2>2. CASE kind[req.named] = "blockchain.info" /\ result \in {"null", "throws"}
    BY <2>2 DEF Bitcoin
  <2>3. CASE result = "throws"
    BY <2>3
  <2> QED
    BY <1>3, <2>1, <2>2, <2>3
<1>5. CASE result = "throws"
  BY <1>1, <1>2, <1>3, <1>5, AnswerKeepsIInv, NoneIsNoText
<1>6. CASE result # "throws"
  BY <1>1, <1>2, <1>3, <1>4, <1>6, ReturnedKeepsIInv
<1> QED
  BY <1>5, <1>6

LEMMA SubscribeKeepsIInv ==
  ASSUME IInv, Subscribe
  PROVE  IInv'
<1> USE DEF IInv, TypeOK
<1>1. UNCHANGED world /\ pending' \in BOOLEAN /\ chain' \in {"unknown", "pool", "mined"} /\ chain' = chain
  BY DEF Subscribe
<1>2. req.op # "submit" /\ req.result \in {"value", "null"}
  BY DEF Subscribe, Misnamed, Located
<1>3. CASE \E awaited \in {"raw", None} : Answer("throws", awaited)
  BY <1>1, <1>2, <1>3, AnswerKeepsIInv, NoneIsNoText DEF Truthful
<1>4. CASE \E awaited \in {"raw", None} : Answer(req.result, awaited)
  BY <1>1, <1>2, <1>4, AnswerKeepsIInv, NoneIsNoText DEF Truthful, Subscribe
<1> QED
  BY <1>3, <1>4 DEF Subscribe

-----------------------------------------------------------------------------
LEMMA NextKeepsIInv == IInv /\ [Next]_vars => IInv'
<1> SUFFICES ASSUME IInv, [Next]_vars PROVE IInv'
  OBVIOUS
<1>1. ASSUME NEW n \in Conns, NEW p \in Projects \union {None}, SetPrivate(n, p)
      PROVE  IInv'
  BY <1>1, WorldKeepsIInv DEF SetPrivate, IInv, TypeOK
<1>2. ASSUME NEW n \in Conns, Remove(n) \/ Register(n)
      PROVE  IInv'
  BY <1>2, WorldKeepsIInv DEF Remove, Register, IInv, TypeOK
<1>3. CASE Mine
  BY <1>3, WorldKeepsIInv DEF Mine, world, IInv, TypeOK
<1>4. CASE Settle
  BY <1>4, AcceptIsMonotone, WorldKeepsIInv DEF Settle, world, IInv, TypeOK
<1>5. CASE UNCHANGED vars
  BY <1>5, WorldKeepsIInv DEF vars, IInv, TypeOK
<1> QED
  BY <1>1, <1>2, <1>3, <1>4, <1>5, AskKeepsIInv, SendKeepsIInv, ForgetKeepsIInv,
     LoadKeepsIInv, CheckKeepsIInv, ReadKeepsIInv, BroadcastKeepsIInv, LookUpKeepsIInv,
     SubscribeKeepsIInv
  DEF Next

\* The state of requests, nodes and connections stays within its types.
THEOREM TypeCorrect == Spec => []TypeOK
BY InitIInv, NextKeepsIInv, PTL DEF Spec, IInv

\* A raw transaction that is submitted over HTTP reaches no node and is never
\* counted as sent, for any connections and projects and however requests,
\* removals, blocks and broadcasts interleave.
THEOREM NoSubmissionIsSent == Spec => []SubmissionsAreNeverSent
<1>1. IInv => SubmissionsAreNeverSent
  BY DEF IInv, Misnamed, SubmissionsAreNeverSent
<1> QED
  BY <1>1, InitIInv, NextKeepsIInv, PTL DEF Spec

\* Who is answered with a transaction can rely on a node having it, whichever
\* provider was used and whatever its node answered.
THEOREM SendersAreToldTheTruth == Spec => []SendReportsAreTrue
<1>1. IInv => SendReportsAreTrue
  BY DEF IInv, Truthful, SendReportsAreTrue
<1> QED
  BY <1>1, InitIInv, NextKeepsIInv, PTL DEF Spec

-----------------------------------------------------------------------------
(* Sessions *)

\* A session has been disabled exactly if it has a date of it, and the
\* sessions of users are those that expire.
SessionsDated ==
  /\ Sessions!TypeOK
  /\ \A s \in Ids :
       /\ s \in out => session[s] # None
       /\ session[s] # None =>
            /\ s \in out <=> session[s].loggedOutAt # None
            /\ session[s].type = "UserSession" <=> session[s].expiredAt # None

LEMMA SessionsInit == Sessions!Init => SessionsDated
BY ServicesFit DEF Sessions!ConstantsFit, Sessions!Init, SessionsDated, Sessions!TypeOK, Sessions!Time

\* The only keys without an expiry are those that never expire.
LEMMA CreateKeepsSessions ==
  ASSUME SessionsDated, NEW s \in Ids, NEW type \in Sessions!Types, NEW c \in SessionClients,
         NEW p \in SessionProjects \union {None}, NEW at \in Sessions!Time \union {None},
         type = "UserSession" <=> at # None, Sessions!Create(s, type, c, p, at)
  PROVE  SessionsDated'
<1> DEFINE new == [type |-> type, clientId |-> c, projectId |-> p, expiredAt |-> at, loggedOutAt |-> None]
<1>1. new \in Sessions!Session /\ new # None
  BY ServicesFit DEF Sessions!ConstantsFit, Sessions!Session
<1>2. new.type = type /\ new.expiredAt = at /\ new.loggedOutAt = None
  OBVIOUS
<1> HIDE DEF new
<1>3. session[s] = None /\ session' = [session EXCEPT ![s] = new] /\ UNCHANGED <<clock, out>>
  BY DEF Sessions!Create, new
<1> QED BY <1>1, <1>2, <1>3 DEF SessionsDated, Sessions!TypeOK

LEMMA SetExpiredAtKeepsSessions ==
  ASSUME SessionsDated, NEW s \in Ids, NEW at \in Sessions!Time, Sessions!SetExpiredAt(s, at)
  PROVE  SessionsDated'
<1>1. /\ session[s] \in Sessions!Session /\ session[s] # None /\ session[s].type = "UserSession"
      /\ at # None
  BY ServicesFit DEF Sessions!ConstantsFit, SessionsDated, Sessions!TypeOK, Sessions!SetExpiredAt, Sessions!HasType
<1> DEFINE new == [session[s] EXCEPT !.expiredAt = at]
<1>2. /\ new \in Sessions!Session /\ new.type = "UserSession" /\ new.expiredAt = at
      /\ new.loggedOutAt = session[s].loggedOutAt
  BY <1>1 DEF Sessions!Session
<1>3. session' = [session EXCEPT ![s] = new] /\ UNCHANGED <<clock, out>>
  BY DEF Sessions!SetExpiredAt
<1> HIDE DEF new
<1>4. new # None
  BY <1>2, ServicesFit DEF Sessions!ConstantsFit
<1> QED BY <1>1, <1>2, <1>3, <1>4 DEF SessionsDated, Sessions!TypeOK

LEMMA DisableKeepsSessions ==
  ASSUME SessionsDated, NEW s \in Ids, NEW type \in Sessions!Types, Sessions!DisableSession(s, type)
  PROVE  SessionsDated'
<1>1. /\ session[s] \in Sessions!Session /\ session[s] # None /\ clock \in Sessions!Time
      /\ clock # None
  BY ServicesFit DEF Sessions!ConstantsFit, SessionsDated, Sessions!TypeOK, Sessions!DisableSession, Sessions!HasType
<1> DEFINE new == [session[s] EXCEPT !.loggedOutAt = clock]
<1>2. /\ new \in Sessions!Session /\ new.type = session[s].type
      /\ new.expiredAt = session[s].expiredAt /\ new.loggedOutAt = clock
  BY <1>1 DEF Sessions!Session
<1>3. session' = [session EXCEPT ![s] = new] /\ out' = out \union {s} /\ clock' = clock
  BY DEF Sessions!DisableSession
<1> HIDE DEF new
<1>4. new # None
  BY <1>2, ServicesFit DEF Sessions!ConstantsFit
<1> QED BY <1>1, <1>2, <1>3, <1>4 DEF SessionsDated, Sessions!TypeOK

LEMMA SessionsNext == SessionsDated /\ [Sessions!Next]_sessionVars => SessionsDated'
<1> SUFFICES ASSUME SessionsDated, [Sessions!Next]_sessionVars PROVE SessionsDated'
  OBVIOUS
<1>1. CASE Sessions!Tick \/ UNCHANGED sessionVars
  BY <1>1, ServicesFit DEF Sessions!Tick, sessionVars, SessionsDated, Sessions!TypeOK, Sessions!Time, Sessions!ConstantsFit
<1>2. ASSUME NEW s \in Ids, NEW c \in SessionClients, NEW at \in Sessions!Time, Sessions!CreateUserSession(s, c, at)
      PROVE  SessionsDated'
  BY <1>2, CreateKeepsSessions, ServicesFit DEF Sessions!CreateUserSession, Sessions!Types, Sessions!ConstantsFit
<1>3. ASSUME NEW s \in Ids, NEW c \in SessionClients, Sessions!CreateUserApiKey(s, c)
      PROVE  SessionsDated'
  BY <1>3, CreateKeepsSessions DEF Sessions!CreateUserApiKey, Sessions!Types
<1>4. ASSUME NEW s \in Ids, NEW c \in SessionClients, NEW p \in SessionProjects, Sessions!CreateProjectApiKey(s, c, p)
      PROVE  SessionsDated'
  BY <1>4, CreateKeepsSessions DEF Sessions!CreateProjectApiKey, Sessions!Types
<1> QED BY <1>1, <1>2, <1>3, <1>4, SetExpiredAtKeepsSessions, DisableKeepsSessions DEF Sessions!Next

LEMMA DatedSessionsAgree == SessionsDated => ActiveSessionsAgree
<1> SUFFICES ASSUME SessionsDated, NEW s \in Ids, session[s] # None, NEW type \in Sessions!Types
             PROVE  LET found == Sessions!ByIdAndTypeActiveOnly(s, type) # None
                        listed == s \in Sessions!ByTypeAndUserInfoActiveOnly(type, session[s].clientId, session[s].projectId)
                    IN  /\ found <=> listed
                        /\ found <=> /\ type = session[s].type /\ s \notin out
                                     /\ session[s].expiredAt # None => session[s].expiredAt > clock
  BY DEF ActiveSessionsAgree, Sessions!ActiveSessionsAgree
<1>1. (Sessions!ByIdAndTypeActiveOnly(s, type) # None) <=> Sessions!IsActive(s, type)
  BY DEF Sessions!ByIdAndTypeActiveOnly
<1>2. s \in Sessions!ByTypeAndUserInfoActiveOnly(type, session[s].clientId, session[s].projectId)
        <=> Sessions!IsActive(s, type)
  BY DEF Sessions!ByTypeAndUserInfoActiveOnly, Sessions!ByUserInfo
<1>3. Sessions!IsActive(s, type) <=>
        /\ type = session[s].type /\ s \notin out
        /\ session[s].expiredAt # None => session[s].expiredAt > clock
  BY DEF Sessions!IsActive, Sessions!HasType, SessionsDated
<1> QED BY <1>1, <1>2, <1>3

\* The query by id and the query by owner find the same active sessions: never
\* one that was disabled, whatever expiry it was given since, none under a type
\* that is not its own, and a user's only until it expires.
THEOREM SessionsAgree == ServicesSpec => []ActiveSessionsAgree
<1>1. ServicesInit => SessionsDated
  BY SessionsInit DEF ServicesInit
<1>2. SessionsDated /\ [ServicesNext]_servicesVars => SessionsDated'
  BY SessionsNext DEF ServicesNext, servicesVars
<1> QED BY <1>1, <1>2, DatedSessionsAgree, PTL DEF ServicesSpec

-----------------------------------------------------------------------------
(* CallMetrics *)

\* The property is an invariant by itself, given the types.
MetricsExact == CallMetrics!TypeOK /\ CallsAreNeverReported

LEMMA MetricsInit == CallMetrics!Init => MetricsExact
BY ServicesFit DEF CallMetrics!ConstantsFit, CallMetrics!Init, MetricsExact, CallMetrics!TypeOK, CallMetrics!Counts,
   CallsAreNeverReported, CallMetrics!CallsAreNeverReported

LEMMA CallKeepsMetrics ==
  ASSUME MetricsExact, NEW c \in Connections, CallMetrics!Call(c)
  PROVE  MetricsExact'
<1> USE DEF MetricsExact, CallMetrics!TypeOK, CallsAreNeverReported, CallMetrics!CallsAreNeverReported
<1>1. /\ made[c] \in 0 .. MaxCalls /\ made[c] < MaxCalls /\ MaxCalls \in Nat
      /\ {None, NaN} \cap 0 .. MaxCalls = {}
      /\ calls[c] \in (0 .. MaxCalls) \union {None, NaN}
  BY ServicesFit DEF CallMetrics!ConstantsFit, CallMetrics!Counts, CallMetrics!Call
<1>2. made' = [made EXCEPT ![c] = made[c] + 1] /\ UNCHANGED <<active, saved>>
  BY DEF CallMetrics!Call
<1>3. made[c] + 1 \in 0 .. MaxCalls
  BY <1>1
<1>4. CASE calls[c] \in {None, NaN}
  <2>1. calls' = [calls EXCEPT ![c] = NaN]
    BY <1>4 DEF CallMetrics!Call
  <2> QED BY <1>1, <1>2, <1>3, <2>1 DEF CallMetrics!Counts
<1>5. CASE calls[c] \in 0 .. MaxCalls
  <2>1. calls' = [calls EXCEPT ![c] = calls[c] + 1] /\ calls[c] = made[c]
    BY <1>1, <1>5 DEF CallMetrics!Call, CallMetrics!Counts
  <2> QED BY <1>1, <1>2, <1>3, <1>5, <2>1 DEF CallMetrics!Counts
<1> QED BY <1>1, <1>4, <1>5

\* The fields are zero, or still absent, when they are read.
LEMMA NothingToSave == ASSUME MetricsExact PROVE CallMetrics!MetricRequests = {}
<1>1. \A c \in Connections : CallMetrics!Statistic[c] \in {None, 0}
  BY DEF CallMetrics!Statistic, CallMetrics!Zeroed
<1>2. None \notin CallMetrics!Counts
  BY ServicesFit DEF CallMetrics!ConstantsFit
<1>3. {c \in Connections : CallMetrics!Statistic[c] \in CallMetrics!Counts \ {0}} = {}
  BY <1>1, <1>2
<1> QED BY <1>3 DEF CallMetrics!MetricRequests

LEMMA ProcessRequestKeepsMetrics ==
  ASSUME MetricsExact, CallMetrics!ProcessRequest
  PROVE  MetricsExact'
<1>1. saved' = {} /\ active' = active
  BY NothingToSave DEF CallMetrics!ProcessRequest, MetricsExact, CallsAreNeverReported, CallMetrics!CallsAreNeverReported
<1>2. /\ calls' = [c \in Connections |-> IF calls[c] = None THEN None ELSE 0]
      /\ made' = [c \in Connections |-> 0]
  BY DEF CallMetrics!ProcessRequest, CallMetrics!Zeroed
<1>3. 0 \in CallMetrics!Counts /\ None \notin CallMetrics!Counts
  BY ServicesFit DEF CallMetrics!ConstantsFit, CallMetrics!Counts
<1> QED BY <1>1, <1>2, <1>3 DEF MetricsExact, CallMetrics!TypeOK, CallsAreNeverReported, CallMetrics!CallsAreNeverReported

LEMMA MetricsNext == MetricsExact /\ [CallMetrics!Next]_metricVars => MetricsExact'
<1> SUFFICES ASSUME MetricsExact, [CallMetrics!Next]_metricVars PROVE MetricsExact'
  OBVIOUS
<1>1. ASSUME NEW c \in Connections, NEW b \in BOOLEAN, CallMetrics!MarkTransport(c, b)
      PROVE  MetricsExact'
  BY <1>1 DEF CallMetrics!MarkTransport, MetricsExact, CallMetrics!TypeOK, CallsAreNeverReported, CallMetrics!CallsAreNeverReported
<1>2. CASE UNCHANGED metricVars
  BY <1>2 DEF metricVars, MetricsExact, CallMetrics!TypeOK, CallsAreNeverReported, CallMetrics!CallsAreNeverReported
<1> QED BY <1>1, <1>2, CallKeepsMetrics, ProcessRequestKeepsMetrics DEF CallMetrics!Next

\* However often connections are called, the statistic its reader is given has
\* no call in it, so that no metric is ever saved; the fields themselves, once
\* they were set back from NaN, count exactly.
THEOREM NoCallIsReported == ServicesSpec => []CallsAreNeverReported
<1>1. ServicesInit => MetricsExact
  BY MetricsInit DEF ServicesInit
<1>2. MetricsExact /\ [ServicesNext]_servicesVars => MetricsExact'
  BY MetricsNext DEF ServicesNext, servicesVars
<1>3. MetricsExact => CallsAreNeverReported
  BY DEF MetricsExact
<1> QED BY <1>1, <1>2, <1>3, PTL DEF ServicesSpec

-----------------------------------------------------------------------------
(* ContractRequests *)

\* Where a call is, it knows what it is about.
CallFollows(k) ==
  LET r == call[k].request
      c == call[k].contract
  IN  /\ call[k].pc \in {"insert", "insert fabric"} => c \in Contracts
      /\ call[k].pc = "fabric" =>
           /\ r \in PublicRequests /\ request[r] # None
           /\ c = request[r].contractId /\ request[r].asFabric
      /\ call[k].pc \in {"read", "public"} =>
           r \in once /\ (call[k].pc = "public" => c = request[r].contractId)
      /\ c # None => contract[c] # None

CallsFollow == \A k \in Calls : CallFollows(k)

\* A request is about a contract that is there; it has been resolved if it
\* was ever approved.
RequestsFollow ==
  /\ \A r \in PublicRequests : request[r] # None => contract[request[r].contractId] # None
  /\ \A r \in once : request[r] # None /\ request[r].adminResolutionStatus # None
  /\ \A r \in PublicRequests :
       request[r] # None /\ request[r].adminResolutionStatus = "APPROVE" => r \in once

Marking(r, pcs) == \E k \in Calls : call[k].pc \in pcs /\ call[k].request = r

\* Each mark has its request ...
MarksAreAsked ==
  \A c \in Contracts : contract[c] # None =>
    /\ contract[c].isPublic => \E r \in once : request[r].contractId = c
    /\ contract[c].isFabric =>
         \E r \in PublicRequests : request[r] # None /\ request[r].contractId = c /\ request[r].asFabric

\* ... and each request its mark, now, soon, or never because its call failed.
AskedIsMarked ==
  \A r \in PublicRequests : request[r] # None =>
    LET c == request[r].contractId IN
    /\ r \in once => contract[c].isPublic \/ c \in stuck \/ Marking(r, {"read", "public"})
    /\ request[r].asFabric => contract[c].isFabric \/ c \in stuck \/ Marking(r, {"fabric"})

ContractsFollow ==
  ContractRequests!TypeOK /\ CallsFollow /\ RequestsFollow /\ MarksAreAsked /\ AskedIsMarked

\* What the typing says of documents and calls that are there.
LEMMA ContractTypes ==
  ASSUME ContractsFollow
  PROVE  /\ \A c \in Contracts : contract[c] # None => contract[c] \in ContractRequests!ContractScheme
         /\ \A r \in PublicRequests : request[r] # None =>
              /\ request[r] \in ContractRequests!ContractPublicRequest
              /\ request[r].contractId \in Contracts /\ request[r].asFabric \in BOOLEAN
         /\ once \subseteq PublicRequests /\ stuck \subseteq Contracts
         /\ None \notin Contracts /\ None \notin PublicRequests
BY ServicesFit DEF ContractRequests!ConstantsFit, ContractsFollow, ContractRequests!TypeOK, ContractRequests!ContractPublicRequest

LEMMA ContractsInit == ContractRequests!Init => ContractsFollow
<1> SUFFICES ASSUME ContractRequests!Init PROVE ContractsFollow
  OBVIOUS
<1>1. \A k \in Calls : call[k] = [pc |-> "idle", request |-> None, contract |-> None]
  BY DEF ContractRequests!Init, ContractRequests!Idle
<1>2. ContractRequests!TypeOK
  BY DEF ContractRequests!Init, ContractRequests!TypeOK, ContractRequests!Progress, ContractRequests!Idle
<1>3. \A k \in Calls : call[k].pc = "idle" /\ call[k].contract = None
  BY <1>1
<1>4. CallsFollow
  BY <1>3 DEF CallsFollow, CallFollows
<1> QED BY <1>2, <1>4 DEF ContractRequests!Init, ContractsFollow, RequestsFollow, MarksAreAsked, AskedIsMarked

LEMMA FollowMeansAgree == ContractsFollow => MarksFollowRequests
<1> SUFFICES ASSUME ContractsFollow PROVE MarksFollowRequests
  OBVIOUS
<1> USE ContractTypes
<1>1. once \cap ContractRequests!Unresolved = {}
  BY DEF ContractsFollow, RequestsFollow, ContractRequests!Unresolved
<1>2. ASSUME NEW c \in Contracts, contract[c] # None
      PROVE  LET mine == {r \in PublicRequests : request[r] # None /\ request[r].contractId = c} IN
             /\ contract[c].isPublic => mine \cap once # {}
             /\ contract[c].isFabric => \E r \in mine : request[r].asFabric
             /\ ~ContractRequests!Working(c) /\ c \notin stuck =>
                  /\ mine \cap ContractRequests!WithStatus("APPROVE") # {} => contract[c].isPublic
                  /\ (\E r \in mine : request[r].asFabric) => contract[c].isFabric
  <2> DEFINE mine == {r \in PublicRequests : request[r] # None /\ request[r].contractId = c}
  <2>1. contract[c].isPublic => mine \cap once # {}
    BY <1>2 DEF ContractsFollow, MarksAreAsked, RequestsFollow
  <2>2. contract[c].isFabric => \E r \in mine : request[r].asFabric
    BY <1>2 DEF ContractsFollow, MarksAreAsked
  <2>3. ASSUME ~ContractRequests!Working(c), NEW r \in mine, NEW pcs
        PROVE  ~Marking(r, pcs)
    BY <2>3 DEF Marking, ContractRequests!Working
  <2>4. ASSUME ~ContractRequests!Working(c), c \notin stuck, NEW r \in mine \cap ContractRequests!WithStatus("APPROVE")
        PROVE  contract[c].isPublic
    <3>1. r \in once
      BY <2>4 DEF ContractsFollow, RequestsFollow, ContractRequests!WithStatus
    <3> QED BY <2>3, <2>4, <3>1 DEF ContractsFollow, AskedIsMarked
  <2>5. ASSUME ~ContractRequests!Working(c), c \notin stuck, NEW r \in mine, request[r].asFabric
        PROVE  contract[c].isFabric
    BY <2>3, <2>5 DEF ContractsFollow, AskedIsMarked
  <2> QED BY <2>1, <2>2, <2>4, <2>5
<1> QED BY <1>1, <1>2 DEF MarksFollowRequests, ContractRequests!MarksFollowRequests

\* What one call does to itself.
LEMMA ContinueTypes ==
  ASSUME ContractsFollow, NEW k \in Calls,
         NEW now \in {"idle", "insert", "insert fabric", "fabric", "read", "public"},
         NEW r \in PublicRequests \union {None}, NEW c \in Contracts \union {None},
         call' = [call EXCEPT ![k] = [pc |-> now, request |-> r, contract |-> c]]
  PROVE  /\ call' \in [Calls -> ContractRequests!Progress]
         /\ call'[k].pc = now /\ call'[k].request = r /\ call'[k].contract = c
         /\ \A j \in Calls \ {k} : call'[j] = call[j]
<1> DEFINE new == [pc |-> now, request |-> r, contract |-> c]
<1>1. /\ new \in ContractRequests!Progress
      /\ new.pc = now /\ new.request = r /\ new.contract = c
  BY DEF ContractRequests!Progress
<1> HIDE DEF new
<1>2. call' = [call EXCEPT ![k] = new]
  BY DEF new
<1> QED BY <1>1, <1>2 DEF ContractsFollow, ContractRequests!TypeOK

LEMMA CreateContractFollows ==
  ASSUME ContractsFollow, NEW c \in Contracts, ContractRequests!CreateContract(c)
  PROVE  ContractsFollow'
<1> DEFINE new == [isFabric |-> FALSE, isPublic |-> FALSE]
<1>0. new.isPublic = FALSE /\ new.isFabric = FALSE
  OBVIOUS
<1>1. new \in ContractRequests!ContractScheme
  BY DEF ContractRequests!ContractScheme
<1> HIDE DEF new
<1>11. new # None
  BY <1>1, ServicesFit DEF ContractRequests!ConstantsFit
<1>2. /\ contract[c] = None /\ contract' = [contract EXCEPT ![c] = new]
      /\ UNCHANGED <<request, call, once, stuck>>
  BY DEF ContractRequests!CreateContract, new
<1>3. ContractRequests!TypeOK'
  BY <1>1, <1>2 DEF ContractsFollow, ContractRequests!TypeOK
<1>4. /\ contract'[c] = new
      /\ \A d \in Contracts \ {c} : contract'[d] = contract[d]
  BY <1>2 DEF ContractsFollow, ContractRequests!TypeOK
<1>5. \A d \in Contracts : contract[d] # None => d # c /\ contract'[d] = contract[d] /\ contract'[d] # None
  BY <1>2, <1>4
<1>6. CallsFollow'
  <2>1. \A k \in Calls : call[k].contract # None => call[k].contract \in Contracts
    BY DEF ContractsFollow, ContractRequests!TypeOK, ContractRequests!Progress
  <2> QED BY <1>2, <1>5, <2>1 DEF ContractsFollow, CallsFollow, CallFollows
<1>7. RequestsFollow'
  BY <1>2, <1>5, ContractTypes DEF ContractsFollow, RequestsFollow
<1>8. MarksAreAsked'
  BY <1>0, <1>2, <1>4 DEF ContractsFollow, MarksAreAsked
<1>9. AskedIsMarked'
  <2>1. \A r \in PublicRequests : request[r] # None => contract'[request[r].contractId] = contract[request[r].contractId]
    BY <1>5, ContractTypes DEF ContractsFollow, RequestsFollow
  <2> QED BY <1>2, <2>1 DEF ContractsFollow, AskedIsMarked, Marking
<1> QED BY <1>3, <1>6, <1>7, <1>8, <1>9 DEF ContractsFollow

\* A call that begins asks for nothing yet.
LEMMA AskPublicFollows ==
  ASSUME ContractsFollow, NEW k \in Calls, NEW c \in Contracts, NEW isFabric \in BOOLEAN,
         ContractRequests!AskPublic(k, c, isFabric)
  PROVE  ContractsFollow'
<1> DEFINE now == IF isFabric THEN "insert fabric" ELSE "insert"
<1>1. now \in {"insert", "insert fabric"}
  OBVIOUS
<1>2. /\ call[k].pc = "idle" /\ contract[c] # None
      /\ call' = [call EXCEPT ![k] = [pc |-> now, request |-> None, contract |-> c]]
      /\ UNCHANGED <<contract, request, once, stuck>>
  BY DEF ContractRequests!AskPublic, ContractRequests!Continue
<1> HIDE DEF now
<1>3. /\ call' \in [Calls -> ContractRequests!Progress]
      /\ call'[k].pc = now /\ call'[k].request = None /\ call'[k].contract = c
      /\ \A j \in Calls \ {k} : call'[j] = call[j]
  BY <1>1, <1>2, ContinueTypes
<1>4. ContractRequests!TypeOK'
  BY <1>2, <1>3 DEF ContractsFollow, ContractRequests!TypeOK
<1>5. CallsFollow'
  BY <1>1, <1>2, <1>3 DEF ContractsFollow, CallsFollow, CallFollows
<1>6. AskedIsMarked'
  BY <1>2, <1>3 DEF ContractsFollow, AskedIsMarked, Marking
<1> QED BY <1>2, <1>4, <1>5, <1>6 DEF ContractsFollow, RequestsFollow, MarksAreAsked

\* A new request asks for a mark only if its call goes on to set it.
LEMMA InsertRequestFollows ==
  ASSUME ContractsFollow, NEW k \in Calls, NEW r \in PublicRequests,
         ContractRequests!InsertRequest(k, r)
  PROVE  ContractsFollow'
<1> DEFINE asFabric == call[k].pc = "insert fabric"
           new == [contractId |-> call[k].contract, asFabric |-> asFabric, adminResolutionStatus |-> None]
<1>1. /\ call[k].contract \in Contracts /\ contract[call[k].contract] # None
      /\ request[r] = None /\ asFabric \in BOOLEAN
  BY ContractTypes DEF ContractRequests!InsertRequest, ContractsFollow, CallsFollow, CallFollows
<1>2. /\ new.contractId = call[k].contract /\ new.adminResolutionStatus = None
      /\ new \in ContractRequests!ContractPublicRequest
  BY <1>1 DEF ContractRequests!ContractPublicRequest
<1>3. new.asFabric = asFabric
  OBVIOUS
<1>4. /\ request' = [request EXCEPT ![r] = new]
      /\ UNCHANGED <<contract, once, stuck>>
      /\ asFabric => call' = [call EXCEPT ![k] = [pc |-> "fabric", request |-> r, contract |-> call[k].contract]]
      /\ ~asFabric => call' = [call EXCEPT ![k] = [pc |-> "idle", request |-> None, contract |-> None]]
  BY DEF ContractRequests!InsertRequest, ContractRequests!Continue, ContractRequests!Return, ContractRequests!Idle
<1> HIDE DEF new
<1>5. new # None
  BY <1>2, ServicesFit DEF ContractRequests!ConstantsFit
<1>6. request'[r] = new /\ \A q \in PublicRequests \ {r} : request'[q] = request[q]
  BY <1>4 DEF ContractsFollow, ContractRequests!TypeOK
<1>7. \A q \in PublicRequests : request[q] # None => q # r /\ request'[q] = request[q] /\ request'[q] # None
  BY <1>1, <1>6
<1> HIDE DEF asFabric
<1>8. /\ call' \in [Calls -> ContractRequests!Progress]
      /\ asFabric => call'[k].pc = "fabric" /\ call'[k].request = r /\ call'[k].contract = call[k].contract
      /\ ~asFabric => call'[k].pc = "idle" /\ call'[k].contract = None
      /\ \A j \in Calls \ {k} : call'[j] = call[j]
  <2>1. CASE asFabric
    <3>1. call' = [call EXCEPT ![k] = [pc |-> "fabric", request |-> r, contract |-> call[k].contract]]
      BY <1>4, <2>1
    <3>2. /\ call' \in [Calls -> ContractRequests!Progress]
          /\ call'[k].pc = "fabric" /\ call'[k].request = r /\ call'[k].contract = call[k].contract
          /\ \A j \in Calls \ {k} : call'[j] = call[j]
      BY <1>1, <3>1, ContinueTypes
    <3> QED BY <2>1, <3>2
  <2>2. CASE ~asFabric
    BY <1>4, <2>2, ContinueTypes
  <2> QED BY <2>1, <2>2
<1>9. ContractRequests!TypeOK'
  BY <1>2, <1>4, <1>8 DEF ContractsFollow, ContractRequests!TypeOK
<1>10. CallsFollow'
  <2>1. \A q \in once : request'[q] = request[q]
    BY <1>7, ContractTypes DEF ContractsFollow, RequestsFollow
  <2>2. ASSUME NEW j \in Calls \ {k}
        PROVE  CallFollows(j)'
    <3>1. CallFollows(j) /\ call'[j] = call[j]
      BY <1>8 DEF ContractsFollow, CallsFollow
    <3>2. call[j].request \in PublicRequests /\ request[call[j].request] # None =>
            request'[call[j].request] = request[call[j].request]
      BY <1>7
    <3>3. once' = once /\ contract' = contract
      BY <1>4
    <3> QED BY <1>7, <2>1, <3>1, <3>2, <3>3 DEF CallFollows
  <2>3. /\ call'[k].pc \in {"fabric", "idle"}
        /\ call'[k].pc = "fabric" =>
             /\ call'[k].request \in PublicRequests /\ request'[call'[k].request] # None
             /\ call'[k].contract = request'[call'[k].request].contractId
             /\ request'[call'[k].request].asFabric
        /\ call'[k].contract # None => contract'[call'[k].contract] # None
    BY <1>1, <1>2, <1>3, <1>4, <1>5, <1>6, <1>8
  <2> QED BY <2>2, <2>3 DEF CallsFollow, CallFollows
<1>11. RequestsFollow'
  <2>1. \A q \in PublicRequests : request'[q] # None => contract'[request'[q].contractId] # None
    BY <1>1, <1>2, <1>4, <1>6 DEF ContractsFollow, RequestsFollow
  <2>2. \A q \in once' : request'[q] # None /\ request'[q].adminResolutionStatus # None
    BY <1>4, <1>7, ContractTypes DEF ContractsFollow, RequestsFollow
  <2>3. \A q \in PublicRequests :
          request'[q] # None /\ request'[q].adminResolutionStatus = "APPROVE" => q \in once'
    <3>1. None # "APPROVE"
      BY ServicesFit DEF ContractRequests!ConstantsFit, ContractRequests!Statuses
    <3> QED BY <1>2, <1>4, <1>6, <3>1 DEF ContractsFollow, RequestsFollow
  <2> QED BY <2>1, <2>2, <2>3 DEF RequestsFollow
<1>12. MarksAreAsked'
  BY <1>4, <1>7, ContractTypes DEF ContractsFollow, MarksAreAsked, RequestsFollow
<1>13. AskedIsMarked'
  <2>1. r \notin once
    BY <1>1 DEF ContractsFollow, RequestsFollow
  <2>2. ASSUME NEW q \in PublicRequests, q # r, NEW pcs \in {{"read", "public"}, {"fabric"}}, Marking(q, pcs)
        PROVE  Marking(q, pcs)'
    <3>1. call[k].pc \notin pcs
      BY <2>2 DEF ContractRequests!InsertRequest
    <3> QED BY <1>8, <2>2, <3>1 DEF Marking
  <2>3. ASSUME asFabric PROVE Marking(r, {"fabric"})'
    BY <1>8, <2>3 DEF Marking
  <2> QED BY <1>3, <1>4, <1>6, <2>1, <2>2, <2>3 DEF ContractsFollow, AskedIsMarked
<1> QED BY <1>9, <1>10, <1>11, <1>12, <1>13 DEF ContractsFollow

\* What a step leaves of what the other calls are about.
Kept ==
  /\ \A r \in PublicRequests : request[r] # None =>
       /\ request'[r] # None
       /\ request'[r].contractId = request[r].contractId /\ request'[r].asFabric = request[r].asFabric
  /\ \A c \in Contracts : contract[c] # None => contract'[c] # None
  /\ once \subseteq once'

LEMMA OthersFollow ==
  ASSUME ContractsFollow, Kept, NEW j \in Calls, call'[j] = call[j]
  PROVE  CallFollows(j)'
<1>1. CallFollows(j)
  BY DEF ContractsFollow, CallsFollow
<1>2. \A r \in once : r \in PublicRequests /\ request[r] # None
  BY ContractTypes DEF ContractsFollow, RequestsFollow
<1>3. call[j].contract # None => call[j].contract \in Contracts
  BY DEF ContractsFollow, ContractRequests!TypeOK, ContractRequests!Progress
<1> QED BY <1>1, <1>2, <1>3 DEF Kept, CallFollows

LEMMA IdleFollows ==
  ASSUME ContractsFollow, NEW k \in Calls, ContractRequests!Return(k)
  PROVE  /\ call' \in [Calls -> ContractRequests!Progress]
         /\ call'[k].pc = "idle" /\ call'[k].contract = None /\ call'[k].request = None
         /\ CallFollows(k)'
         /\ \A j \in Calls \ {k} : call'[j] = call[j]
<1>1. call' = [call EXCEPT ![k] = [pc |-> "idle", request |-> None, contract |-> None]]
  BY DEF ContractRequests!Return, ContractRequests!Idle
<1>2. /\ call' \in [Calls -> ContractRequests!Progress]
      /\ call'[k].pc = "idle" /\ call'[k].contract = None /\ call'[k].request = None
      /\ \A j \in Calls \ {k} : call'[j] = call[j]
  BY <1>1, ContinueTypes
<1> QED BY <1>2 DEF CallFollows

\* The mark a request asks for is set, and its call returns.
LEMMA MarkFollows ==
  ASSUME ContractsFollow, NEW k \in Calls, NEW r \in PublicRequests, request[r] # None,
         call[k].request = r, NEW new \in ContractRequests!ContractScheme,
         contract' = [contract EXCEPT ![request[r].contractId] = new],
         ContractRequests!Return(k), UNCHANGED <<request, once, stuck>>,
         new.isPublic <=> contract[request[r].contractId].isPublic \/ call[k].pc = "public",
         new.isFabric <=> contract[request[r].contractId].isFabric \/ call[k].pc = "fabric",
         \/ call[k].pc = "public" /\ r \in once
         \/ call[k].pc = "fabric" /\ request[r].asFabric
  PROVE  ContractsFollow'
<1> DEFINE c == request[r].contractId
<1>1. c \in Contracts /\ contract[c] # None
  BY ContractTypes DEF ContractsFollow, RequestsFollow
<1>2. new # None
  BY ServicesFit DEF ContractRequests!ConstantsFit
<1>3. contract'[c] = new /\ \A d \in Contracts \ {c} : contract'[d] = contract[d]
  BY <1>1 DEF ContractsFollow, ContractRequests!TypeOK
<1>4. ContractRequests!TypeOK'
  BY <1>1, IdleFollows DEF ContractsFollow, ContractRequests!TypeOK
<1>5. Kept
  BY <1>2, <1>3 DEF Kept
<1>6. CallsFollow'
  BY <1>5, IdleFollows, OthersFollow DEF CallsFollow
<1>7. RequestsFollow'
  BY <1>2, <1>3, ContractTypes DEF ContractsFollow, RequestsFollow
<1>8. MarksAreAsked'
  <2>1. ASSUME NEW d \in Contracts \ {c}, contract'[d] # None
        PROVE  /\ contract'[d].isPublic => \E q \in once' : request'[q].contractId = d
               /\ contract'[d].isFabric =>
                    \E q \in PublicRequests : request'[q] # None /\ request'[q].contractId = d /\ request'[q].asFabric
    BY <1>3, <2>1 DEF ContractsFollow, MarksAreAsked
  <2>2. contract'[c].isPublic => \E q \in once' : request'[q].contractId = c
    BY <1>1, <1>3 DEF ContractsFollow, MarksAreAsked
  <2>3. contract'[c].isFabric =>
          \E q \in PublicRequests : request'[q] # None /\ request'[q].contractId = c /\ request'[q].asFabric
    BY <1>1, <1>3 DEF ContractsFollow, MarksAreAsked
  <2> QED BY <2>1, <2>2, <2>3 DEF MarksAreAsked
<1>9. AskedIsMarked'
  <2>1. ASSUME NEW q \in PublicRequests, q # r, NEW pcs, Marking(q, pcs)
        PROVE  Marking(q, pcs)'
    BY <2>1, IdleFollows DEF Marking
  <2>2. ASSUME NEW q \in PublicRequests, q # r, request[q] # None
        PROVE  LET d == request'[q].contractId IN
               /\ q \in once' => contract'[d].isPublic \/ d \in stuck' \/ Marking(q, {"read", "public"})'
               /\ request'[q].asFabric => contract'[d].isFabric \/ d \in stuck' \/ Marking(q, {"fabric"})'
    <3>1. request[q].contractId \in Contracts
      BY <2>2, ContractTypes
    <3>2. /\ contract[request[q].contractId].isPublic => contract'[request[q].contractId].isPublic
          /\ contract[request[q].contractId].isFabric => contract'[request[q].contractId].isFabric
      BY <1>3, <3>1
    <3> QED BY <2>1, <2>2, <3>2 DEF ContractsFollow, AskedIsMarked
  <2>3. /\ r \in once' => contract'[c].isPublic \/ c \in stuck' \/ Marking(r, {"read", "public"})'
        /\ request'[r].asFabric => contract'[c].isFabric \/ c \in stuck' \/ Marking(r, {"fabric"})'
    <3>1. CASE call[k].pc = "public"
      <4>1. ASSUME Marking(r, {"fabric"}) PROVE Marking(r, {"fabric"})'
        BY <3>1, <4>1, IdleFollows DEF Marking
      <4> QED BY <1>3, <3>1, <4>1 DEF ContractsFollow, AskedIsMarked
    <3>2. CASE call[k].pc = "fabric"
      <4>1. ASSUME Marking(r, {"read", "public"}) PROVE Marking(r, {"read", "public"})'
        BY <3>2, <4>1, IdleFollows DEF Marking
      <4> QED BY <1>3, <3>2, <4>1 DEF ContractsFollow, AskedIsMarked
    <3> QED BY <3>1, <3>2
  <2> QED BY <2>2, <2>3 DEF AskedIsMarked
<1> QED BY <1>4, <1>6, <1>7, <1>8, <1>9 DEF ContractsFollow

LEMMA MarkAsFabricFollows ==
  ASSUME ContractsFollow, NEW k \in Calls, ContractRequests!MarkAsFabric(k)
  PROVE  ContractsFollow'
<1> DEFINE r == call[k].request
           new == [contract[call[k].contract] EXCEPT !.isFabric = TRUE]
<1>1. /\ call[k].pc = "fabric" /\ r \in PublicRequests /\ request[r] # None
      /\ call[k].contract = request[r].contractId /\ request[r].asFabric
  BY DEF ContractRequests!MarkAsFabric, ContractsFollow, CallsFollow, CallFollows
<1>2. contract[call[k].contract] \in ContractRequests!ContractScheme
  BY <1>1, ContractTypes DEF ContractsFollow, RequestsFollow
<1>3. /\ new \in ContractRequests!ContractScheme
      /\ new.isPublic = contract[call[k].contract].isPublic /\ new.isFabric = TRUE
  BY <1>2 DEF ContractRequests!ContractScheme
<1>4. contract' = [contract EXCEPT ![call[k].contract] = new]
  BY DEF ContractRequests!MarkAsFabric
<1>5. ContractRequests!Return(k) /\ UNCHANGED <<request, once, stuck>>
  BY DEF ContractRequests!MarkAsFabric
<1> HIDE DEF new, r
<1> QED BY <1>1, <1>3, <1>4, <1>5, MarkFollows DEF r

LEMMA MarkAsPublicFollows ==
  ASSUME ContractsFollow, NEW k \in Calls, ContractRequests!MarkAsPublic(k)
  PROVE  ContractsFollow'
<1> DEFINE r == call[k].request
           new == [contract[call[k].contract] EXCEPT !.isPublic = TRUE]
<1>1. /\ call[k].pc = "public" /\ r \in once /\ r \in PublicRequests /\ request[r] # None
      /\ call[k].contract = request[r].contractId
  BY ContractTypes DEF ContractRequests!MarkAsPublic, ContractsFollow, CallsFollow, CallFollows, RequestsFollow
<1>2. contract[call[k].contract] \in ContractRequests!ContractScheme
  BY <1>1, ContractTypes DEF ContractsFollow, RequestsFollow
<1>3. /\ new \in ContractRequests!ContractScheme
      /\ new.isFabric = contract[call[k].contract].isFabric /\ new.isPublic = TRUE
  BY <1>2 DEF ContractRequests!ContractScheme
<1>4. contract' = [contract EXCEPT ![call[k].contract] = new]
  BY DEF ContractRequests!MarkAsPublic
<1>5. ContractRequests!Return(k) /\ UNCHANGED <<request, once, stuck>>
  BY DEF ContractRequests!MarkAsPublic
<1> HIDE DEF new, r
<1> QED BY <1>1, <1>3, <1>4, <1>5, MarkFollows DEF r

\* The request is read again, and its contract found.
LEMMA ReadRequestFollows ==
  ASSUME ContractsFollow, NEW k \in Calls, ContractRequests!ReadRequest(k)
  PROVE  ContractsFollow'
<1> DEFINE r == call[k].request
           c == request[r].contractId
<1>1. /\ call[k].pc = "read" /\ r \in once /\ r \in PublicRequests /\ request[r] # None
      /\ c \in Contracts /\ contract[c] # None
  BY ContractTypes DEF ContractRequests!ReadRequest, ContractsFollow, CallsFollow, CallFollows, RequestsFollow
<1>2. /\ call' = [call EXCEPT ![k] = [pc |-> "public", request |-> r, contract |-> c]]
      /\ UNCHANGED <<contract, request, once, stuck>>
  BY DEF ContractRequests!ReadRequest, ContractRequests!Continue
<1> HIDE DEF r, c
<1>3. /\ call' \in [Calls -> ContractRequests!Progress]
      /\ call'[k].pc = "public" /\ call'[k].request = r /\ call'[k].contract = c
      /\ \A j \in Calls \ {k} : call'[j] = call[j]
  BY <1>1, <1>2, ContinueTypes
<1>4. ContractRequests!TypeOK'
  BY <1>2, <1>3 DEF ContractsFollow, ContractRequests!TypeOK
<1>5. CallsFollow'
  <2>1. Kept
    BY <1>2 DEF Kept
  <2>2. c = request[r].contractId
    BY DEF c
  <2>3. CallFollows(k)'
    BY <1>1, <1>2, <1>3, <2>2 DEF CallFollows
  <2> QED BY <1>3, <2>1, <2>3, OthersFollow DEF CallsFollow
<1>6. ASSUME NEW q \in PublicRequests, NEW pcs \in {{"read", "public"}, {"fabric"}}, Marking(q, pcs)
      PROVE  Marking(q, pcs)'
  <2>1. call[k].request = r
    BY DEF r
  <2> QED BY <1>1, <1>3, <1>6, <2>1 DEF Marking
<1>7. AskedIsMarked'
  BY <1>2, <1>6 DEF ContractsFollow, AskedIsMarked
<1> QED BY <1>2, <1>4, <1>5, <1>7 DEF ContractsFollow, RequestsFollow, MarksAreAsked

\* A resolution to approve is on its way to the mark; another changes nothing
\* a mark depends on.
LEMMA SetResolutionFollows ==
  ASSUME ContractsFollow, NEW k \in Calls, NEW r \in PublicRequests,
         NEW status \in ContractRequests!Statuses, ContractRequests!SetResolution(k, r, status)
  PROVE  ContractsFollow'
<1> DEFINE new == [request[r] EXCEPT !.adminResolutionStatus = status]
<1>1. /\ call[k].pc = "idle" /\ request[r] # None /\ contract' = contract /\ stuck' = stuck
      /\ request' = [request EXCEPT ![r] = new]
  BY DEF ContractRequests!SetResolution
<1>2. request[r] \in ContractRequests!ContractPublicRequest
  BY <1>1, ContractTypes
<1>3. /\ new \in ContractRequests!ContractPublicRequest
      /\ new.contractId = request[r].contractId /\ new.adminResolutionStatus = status
  BY <1>2 DEF ContractRequests!ContractPublicRequest
<1>4. new.asFabric = request[r].asFabric
  BY <1>2 DEF ContractRequests!ContractPublicRequest
<1> HIDE DEF new
<1>5. new # None /\ status # None
  BY <1>3, ServicesFit DEF ContractRequests!ConstantsFit
<1>6. request'[r] = new /\ \A q \in PublicRequests \ {r} : request'[q] = request[q]
  BY <1>1 DEF ContractsFollow, ContractRequests!TypeOK
<1>7. /\ once \subseteq once' /\ once' \subseteq once \union {r}
      /\ status = "APPROVE" => r \in once'
  BY DEF ContractRequests!SetResolution
<1>8. Kept
  BY <1>1, <1>3, <1>4, <1>5, <1>6, <1>7 DEF Kept
<1>9. \A q \in PublicRequests :
        /\ request'[q] # None => request[q] # None
        /\ request[q] # None => request'[q].contractId = request[q].contractId
  BY <1>1, <1>3, <1>6
<1>10. \A q \in PublicRequests : request[q] # None => request'[q].asFabric = request[q].asFabric
  BY <1>4, <1>6
<1>11. /\ call' \in [Calls -> ContractRequests!Progress] /\ CallFollows(k)'
       /\ \A j \in Calls \ {k} : call'[j] = call[j]
       /\ once' # once => call'[k].pc = "read" /\ call'[k].request = r
  <2>1. CASE status = "APPROVE"
    <3>1. call' = [call EXCEPT ![k] = [pc |-> "read", request |-> r, contract |-> None]]
      BY <2>1 DEF ContractRequests!SetResolution, ContractRequests!Continue
    <3>2. /\ call' \in [Calls -> ContractRequests!Progress]
          /\ call'[k].pc = "read" /\ call'[k].request = r /\ call'[k].contract = None
          /\ \A j \in Calls \ {k} : call'[j] = call[j]
      BY <3>1, ContinueTypes
    <3> QED BY <1>7, <2>1, <3>2 DEF CallFollows
  <2>2. CASE status # "APPROVE"
    <3>1. call' = call /\ once' = once
      BY <2>2 DEF ContractRequests!SetResolution
    <3> QED BY <1>8, <3>1, OthersFollow DEF ContractsFollow, ContractRequests!TypeOK
  <2> QED BY <2>1, <2>2
<1>12. ContractRequests!TypeOK'
  BY <1>1, <1>3, <1>7, <1>11 DEF ContractsFollow, ContractRequests!TypeOK
<1>13. CallsFollow'
  BY <1>8, <1>11, OthersFollow DEF CallsFollow
<1>14. RequestsFollow'
  <2>1. \A q \in PublicRequests : request'[q] # None => contract'[request'[q].contractId] # None
    BY <1>1, <1>9 DEF ContractsFollow, RequestsFollow
  <2>2. \A q \in once' : request'[q] # None /\ request'[q].adminResolutionStatus # None
    BY <1>3, <1>5, <1>6, <1>7, ContractTypes DEF ContractsFollow, RequestsFollow
  <2>3. \A q \in PublicRequests :
          request'[q] # None /\ request'[q].adminResolutionStatus = "APPROVE" => q \in once'
    BY <1>3, <1>6, <1>7 DEF ContractsFollow, RequestsFollow
  <2> QED BY <2>1, <2>2, <2>3 DEF RequestsFollow
<1>15. MarksAreAsked'
  <2>1. \A q \in once : q \in PublicRequests /\ request[q] # None
    BY ContractTypes DEF ContractsFollow, RequestsFollow
  <2> QED BY <1>1, <1>8, <1>9, <2>1 DEF ContractsFollow, MarksAreAsked, Kept
<1>16. AskedIsMarked'
  <2>1. ASSUME NEW q \in PublicRequests, NEW pcs \in {{"read", "public"}, {"fabric"}}, Marking(q, pcs)
        PROVE  Marking(q, pcs)'
    BY <1>1, <1>11, <2>1 DEF Marking
  <2>2. once' # once => Marking(r, {"read", "public"})'
    BY <1>11 DEF Marking
  <2> QED BY <1>1, <1>7, <1>9, <1>10, <2>1, <2>2 DEF ContractsFollow, AskedIsMarked
<1> QED BY <1>12, <1>13, <1>14, <1>15, <1>16 DEF ContractsFollow

\* Nothing finishes a call that failed: its contract is stuck.
LEMMA FailsFollows ==
  ASSUME ContractsFollow, NEW k \in Calls, ContractRequests!Fails(k)
  PROVE  ContractsFollow'
<1>1. /\ ContractRequests!Return(k) /\ UNCHANGED <<contract, request, once>>
      /\ stuck' = CASE call[k].pc \in {"fabric", "public"} -> stuck \union {call[k].contract}
                    [] call[k].pc = "read" -> stuck \union {request[call[k].request].contractId}
                    [] OTHER -> stuck
  BY DEF ContractRequests!Fails
<1>2. call[k].pc \in {"fabric", "read", "public"} =>
        /\ call[k].request \in PublicRequests /\ request[call[k].request] # None
        /\ stuck' = stuck \union {request[call[k].request].contractId}
  BY <1>1, ContractTypes DEF ContractsFollow, CallsFollow, CallFollows, RequestsFollow
<1>3. call[k].pc \notin {"fabric", "read", "public"} => stuck' = stuck
  BY <1>1
<1>4. ContractRequests!TypeOK'
  BY <1>1, <1>2, <1>3, IdleFollows, ContractTypes DEF ContractsFollow, ContractRequests!TypeOK
<1>5. CallsFollow'
  <2>1. Kept
    BY <1>1 DEF Kept
  <2> QED BY <1>1, <2>1, IdleFollows, OthersFollow DEF CallsFollow
<1>6. ASSUME NEW q \in PublicRequests, NEW pcs \in {{"read", "public"}, {"fabric"}}, Marking(q, pcs)
      PROVE  Marking(q, pcs)' \/ request[q].contractId \in stuck'
  <2>1. PICK j \in Calls : call[j].pc \in pcs /\ call[j].request = q
    BY <1>6 DEF Marking
  <2>2. CASE j = k
    BY <1>2, <1>6, <2>1, <2>2
  <2>3. CASE j # k
    BY <1>1, <2>1, <2>3, IdleFollows DEF Marking
  <2> QED BY <2>2, <2>3
<1>7. AskedIsMarked'
  <2>1. stuck \subseteq stuck'
    BY <1>2, <1>3
  <2> QED BY <1>1, <1>6, <2>1 DEF ContractsFollow, AskedIsMarked
<1> QED BY <1>1, <1>4, <1>5, <1>7 DEF ContractsFollow, RequestsFollow, MarksAreAsked

LEMMA ContractsNext == ContractsFollow /\ [ContractRequests!Next]_contractVars => ContractsFollow'
<1> SUFFICES ASSUME ContractsFollow, [ContractRequests!Next]_contractVars PROVE ContractsFollow'
  OBVIOUS
<1>1. CASE UNCHANGED contractVars
  <2>1. contract' = contract /\ request' = request /\ call' = call /\ once' = once /\ stuck' = stuck
    BY <1>1 DEF contractVars
  <2>2. ContractRequests!TypeOK' /\ CallsFollow'
    BY <2>1 DEF ContractsFollow, ContractRequests!TypeOK, CallsFollow, CallFollows
  <2>3. RequestsFollow' /\ MarksAreAsked'
    BY <2>1 DEF ContractsFollow, RequestsFollow, MarksAreAsked
  <2>4. AskedIsMarked'
    BY <2>1 DEF ContractsFollow, AskedIsMarked, Marking
  <2> QED BY <2>2, <2>3, <2>4 DEF ContractsFollow
<1> QED BY <1>1, CreateContractFollows, AskPublicFollows, InsertRequestFollows, SetResolutionFollows,
           MarkAsFabricFollows, ReadRequestFollows, MarkAsPublicFollows, FailsFollows
        DEF ContractRequests!Next

\* However calls interleave and wherever one fails: no contract is public unless
\* a request for it was approved at some time, none a fabric unless a request
\* said so, and a contract no call is at work on agrees with its requests unless
\* one of its calls failed half-way.
THEOREM ContractsAreMarked == ServicesSpec => []MarksFollowRequests
<1>1. ServicesInit => ContractsFollow
  BY ContractsInit DEF ServicesInit
<1>2. ContractsFollow /\ [ServicesNext]_servicesVars => ContractsFollow'
  BY ContractsNext DEF ServicesNext, servicesVars
<1> QED BY <1>1, <1>2, FollowMeansAgree, PTL DEF ServicesSpec

-----------------------------------------------------------------------------
(* BatchCalls *)

\* A finite set of numbers has an order: each number's place in it is how many
\* of the set are not above it.
LEMMA InOrderExists ==
  ASSUME NEW S \in SUBSET Int, IsFiniteSet(S)
  PROVE  \E s \in [1 .. Cardinality(S) -> S] :
           BatchCalls!Ascending(s) /\ BatchCalls!Elements(s) = S
<1> DEFINE n == Cardinality(S)
           UpTo(r) == {q \in S : q <= r}
           place == [r \in S |-> Cardinality(UpTo(r))]
           D == 1 .. n
<1>1. n \in Nat /\ IsFiniteSet(D) /\ Cardinality(D) = n
  BY FS_CardinalityType, FS_Interval
<1>2. ASSUME NEW r \in S
      PROVE  /\ IsFiniteSet(UpTo(r)) /\ UpTo(r) \subseteq S /\ r \in UpTo(r)
             /\ Cardinality(UpTo(r)) \in D
  <2>1. UpTo(r) \subseteq S /\ r \in UpTo(r)
    OBVIOUS
  <2>2. IsFiniteSet(UpTo(r)) /\ Cardinality(UpTo(r)) <= n
    BY <2>1, FS_Subset
  <2>3. Cardinality(UpTo(r)) \in Nat /\ Cardinality(UpTo(r)) # 0
    BY <2>1, <2>2, FS_CardinalityType, FS_EmptySet
  <2> QED
    BY <1>1, <2>1, <2>2, <2>3
<1>3. ASSUME NEW r \in S, NEW q \in S, r < q
      PROVE  place[r] < place[q]
  <2>1. UpTo(r) \subseteq UpTo(q) /\ UpTo(r) # UpTo(q)
    <3>1. S \subseteq Int /\ r \in Int /\ q \in Int
      OBVIOUS
    <3>2. q \in UpTo(q) /\ q \notin UpTo(r)
      BY <1>3, <3>1
    <3>3. \A x \in S : x <= r => x <= q
      BY <1>3, <3>1
    <3> QED
      BY <3>2, <3>3
  <2>2. Cardinality(UpTo(r)) < Cardinality(UpTo(q))
    <3>1. IsFiniteSet(UpTo(q)) /\ IsFiniteSet(UpTo(r))
      BY <1>2
    <3> HIDE DEF UpTo
    <3>2. Cardinality(UpTo(r)) <= Cardinality(UpTo(q)) /\ Cardinality(UpTo(r)) # Cardinality(UpTo(q))
      BY <2>1, <3>1, FS_Subset
    <3>3. Cardinality(UpTo(r)) \in Nat /\ Cardinality(UpTo(q)) \in Nat
      BY <3>1, FS_CardinalityType
    <3> QED
      BY <3>2, <3>3
  <2> QED
    BY <2>2
<1>4. place \in [S -> D]
  BY <1>2
<1> HIDE DEF place
<1>5. \A r \in S, q \in S : place[r] = place[q] => r = q
  <2> SUFFICES ASSUME NEW r \in S, NEW q \in S, r # q PROVE place[r] # place[q]
    OBVIOUS
  <2>1. r < q \/ q < r
    OBVIOUS
  <2> QED
    BY <1>3, <1>4, <2>1
<1>6. place \in Injection(S, D)
  BY <1>4, <1>5 DEF Injection, IsInjective
<1>7. place \in Surjection(S, D)
  BY <1>1, <1>6, FS_Injection
<1>8. \A i \in D : \E r \in S : place[r] = i
  BY <1>7 DEF Surjection
<1> DEFINE s == [i \in D |-> CHOOSE r \in S : place[r] = i]
<1>9. \A i \in D : s[i] \in S /\ place[s[i]] = i
  BY <1>8
<1>10. s \in [D -> S]
  BY <1>9
<1> HIDE DEF s
<1>11. ASSUME NEW i \in D, NEW j \in D, i < j PROVE s[i] < s[j]
  <2>1. s[i] \in S /\ s[j] \in S /\ place[s[i]] = i /\ place[s[j]] = j
    BY <1>9
  <2>2. i \in Int /\ j \in Int
    BY <1>1
  <2>3. s[i] \in Int /\ s[j] \in Int
    BY <2>1
  <2>4. ~(s[j] < s[i])
    BY <1>3, <1>11, <2>1, <2>2, <2>3
  <2>5. s[i] # s[j]
    BY <1>11, <2>1, <2>2
  <2> QED
    BY <2>3, <2>4, <2>5
<1>12. \A r \in S : place[r] \in D /\ s[place[r]] = r
  BY <1>4, <1>5, <1>9
<1>13. DOMAIN s = D
  BY <1>10
<1>14. BatchCalls!Ascending(s)
  BY <1>11, <1>13 DEF BatchCalls!Ascending
<1>15. BatchCalls!Elements(s) = S
  BY <1>9, <1>12, <1>13 DEF BatchCalls!Elements
<1> QED
  BY <1>10, <1>14, <1>15

LEMMA RowsAreNumbered ==
  ASSUME BatchCalls!TypeOK
  PROVE  /\ Len(rows) \in Nat /\ DOMAIN rows = 1 .. Len(rows)
         /\ size \in Nat /\ batch \in Nat
<1>1. rows \in Seq(BOOLEAN)
  BY DEF BatchCalls!TypeOK
<1>2. size \in 0 .. MaxRows /\ batch \in Nat
  BY DEF BatchCalls!TypeOK
<1>3. MaxRows \in Nat
  BY ServicesFit DEF BatchCalls!ConstantsFit
<1> QED
  BY <1>1, <1>2, <1>3

LEMMA InOrderIsTheSet ==
  ASSUME BatchCalls!TypeOK, NEW S \in SUBSET DOMAIN rows
  PROVE  /\ BatchCalls!InOrder(S) \in Seq(S)
         /\ BatchCalls!Ascending(BatchCalls!InOrder(S))
         /\ BatchCalls!Elements(BatchCalls!InOrder(S)) = S
<1>1. Len(rows) \in Nat /\ DOMAIN rows = 1 .. Len(rows)
  BY RowsAreNumbered
<1>2. IsFiniteSet(DOMAIN rows) /\ Cardinality(DOMAIN rows) = Len(rows)
  BY <1>1, FS_Interval
<1>3. IsFiniteSet(S) /\ Cardinality(S) <= Len(rows)
  BY <1>2, FS_Subset
<1>4. Cardinality(S) \in 0 .. Len(rows)
  BY <1>1, <1>3, FS_CardinalityType
<1>5. S \in SUBSET Int
  BY <1>1
<1>6. PICK s \in [1 .. Cardinality(S) -> S] : BatchCalls!Ascending(s) /\ BatchCalls!Elements(s) = S
  BY <1>3, <1>5, InOrderExists
<1>7. \E t \in UNION {[1 .. n -> S] : n \in 0 .. Len(rows)} :
        BatchCalls!Ascending(t) /\ BatchCalls!Elements(t) = S
  BY <1>4, <1>6
<1>8. /\ BatchCalls!InOrder(S) \in UNION {[1 .. n -> S] : n \in 0 .. Len(rows)}
      /\ BatchCalls!Ascending(BatchCalls!InOrder(S))
      /\ BatchCalls!Elements(BatchCalls!InOrder(S)) = S
  BY <1>7 DEF BatchCalls!InOrder
<1>9. \A n \in 0 .. Len(rows) : [1 .. n -> S] \subseteq Seq(S)
  BY <1>1
<1> QED
  BY <1>8, <1>9
\* What is collected are the rows of the batches so far; no post is done
\* before the call returns, and after the last batch nothing is missing.
BatchFollows ==
  /\ BatchCalls!TypeOK
  /\ ResultsAreInOrder
  /\ BatchCalls!Elements(all) = {r \in BatchCalls!Wanted : r <= batch * size}
  /\ pc # "returned" => \A i \in DOMAIN posts : posts[i].done = FALSE
  /\ pc = "last post" => BatchCalls!Elements(all) = BatchCalls!Wanted

LEMMA BatchInit == BatchCalls!Init => BatchFollows
<1> SUFFICES ASSUME BatchCalls!Init PROVE BatchFollows
  OBVIOUS
<1>1. PICK n \in 0 .. MaxRows : rows \in [1 .. n -> BOOLEAN]
  BY DEF BatchCalls!Init
<1>2. n \in Nat /\ n <= MaxRows
  BY ServicesFit DEF BatchCalls!ConstantsFit
<1>3. rows \in Seq(BOOLEAN) /\ Len(rows) = n /\ DOMAIN rows = 1 .. n
  BY <1>1, <1>2
<1>4. batch = 0 /\ open = {} /\ all = <<>> /\ posts = <<>> /\ pc = "next" /\ size \in 0 .. MaxRows
  BY DEF BatchCalls!Init
<1>5. BatchCalls!TypeOK
  BY <1>2, <1>3, <1>4 DEF BatchCalls!TypeOK
<1>6. BatchCalls!Elements(all) = {} /\ DOMAIN all = {} /\ DOMAIN posts = {}
  BY <1>4 DEF BatchCalls!Elements
<1>7. ResultsAreInOrder
  BY <1>4, <1>6 DEF ResultsAreInOrder, BatchCalls!ResultsAreInOrder, BatchCalls!Ascending
<1>8. {r \in BatchCalls!Wanted : r <= batch * size} = {}
  <2>1. batch * size = 0
    BY <1>4, ServicesFit DEF BatchCalls!ConstantsFit
  <2>2. \A r \in BatchCalls!Wanted : r \in 1 .. n
    BY <1>3 DEF BatchCalls!Wanted
  <2> QED
    BY <1>2, <2>1, <2>2
<1> QED
  BY <1>4, <1>5, <1>6, <1>7, <1>8 DEF BatchFollows

\* A batch has the rows after those of the batches before it, up to size many.
LEMMA BatchIsItsRows ==
  ASSUME BatchCalls!TypeOK
  PROVE  LET b == BatchCalls!Batch(batch) IN
         /\ b \in Seq(DOMAIN rows) /\ BatchCalls!Ascending(b)
         /\ BatchCalls!Elements(b) =
              {r \in BatchCalls!Wanted : batch * size < r /\ r <= batch * size + size}
<1> DEFINE S == {r \in BatchCalls!Wanted : batch * size < r /\ r <= batch * size + size}
<1>1. S \in SUBSET DOMAIN rows
  BY DEF BatchCalls!Wanted
<1>2. BatchCalls!Batch(batch) = BatchCalls!InOrder(S)
  BY DEF BatchCalls!Batch
<1> HIDE DEF S
<1>3. Seq(S) \subseteq Seq(DOMAIN rows)
  BY <1>1
<1> QED
  BY <1>1, <1>2, <1>3, InOrderIsTheSet DEF S

\* Steps that leave posts and results alone.
LEMMA OtherStepsKeepBatches ==
  ASSUME BatchFollows, UNCHANGED <<rows, size, batch, all, posts>>, open' \subseteq DOMAIN rows,
         pc' \in {"next", "calls", "post", "last post", "rejected"},
         pc # "returned",
         pc' = "last post" => BatchCalls!Elements(all) = BatchCalls!Wanted
  PROVE  BatchFollows'
<1> USE DEF BatchFollows
<1>1. BatchCalls!TypeOK'
  BY DEF BatchCalls!TypeOK
<1>2. BatchCalls!Wanted' = BatchCalls!Wanted
  BY DEF BatchCalls!Wanted
<1>3. ResultsAreInOrder'
  BY <1>2 DEF ResultsAreInOrder, BatchCalls!ResultsAreInOrder
<1> QED
  BY <1>1, <1>2, <1>3

\* Without rows to come everything has been collected.
LEMMA NoMoreBatchesIsAll ==
  ASSUME BatchFollows, ~BatchCalls!MoreBatches
  PROVE  BatchCalls!Elements(all) = BatchCalls!Wanted
<1>1. size \in Nat /\ batch \in Nat
  BY RowsAreNumbered DEF BatchFollows
<1>2. Len(rows) \in Nat /\ DOMAIN rows = 1 .. Len(rows)
  BY RowsAreNumbered DEF BatchFollows
<1>3. \A r \in BatchCalls!Wanted : r \in 1 .. Len(rows)
  BY <1>2 DEF BatchCalls!Wanted
<1>4. batch * size \in Nat
  BY <1>1
<1>5. CASE size = 0
  <2>1. rows = <<>>
    BY <1>5 DEF BatchCalls!MoreBatches
  <2>2. DOMAIN rows = {}
    BY <2>1
  <2> QED
    BY <2>2 DEF BatchCalls!Wanted, BatchFollows
<1>6. CASE size # 0
  <2>1. ~(batch * size < Len(rows))
    BY <1>6 DEF BatchCalls!MoreBatches
  <2>2. \A r \in BatchCalls!Wanted : r <= batch * size
    BY <1>2, <1>3, <1>4, <2>1
  <2> QED
    BY <2>2 DEF BatchFollows
<1> QED
  BY <1>5, <1>6

\* Two ascending sequences, the second of larger numbers, one after the other.
LEMMA ConcatAscends ==
  ASSUME NEW D \in SUBSET Int, NEW s \in Seq(D), NEW t \in Seq(D),
         BatchCalls!Ascending(s), BatchCalls!Ascending(t),
         \A r \in BatchCalls!Elements(s), q \in BatchCalls!Elements(t) : r < q
  PROVE  /\ s \o t \in Seq(D) /\ BatchCalls!Ascending(s \o t)
         /\ BatchCalls!Elements(s \o t) = BatchCalls!Elements(s) \union BatchCalls!Elements(t)
<1> DEFINE u == s \o t
<1>1. /\ Len(s) \in Nat /\ DOMAIN s = 1 .. Len(s)
      /\ Len(t) \in Nat /\ DOMAIN t = 1 .. Len(t)
  OBVIOUS
<1>2. /\ u \in Seq(D) /\ DOMAIN u = 1 .. Len(s) + Len(t)
      /\ \A i \in 1 .. Len(s) + Len(t) : u[i] = IF i <= Len(s) THEN s[i] ELSE t[i - Len(s)]
  BY ConcatProperties
<1> HIDE DEF u
<1>3. \A i \in DOMAIN s : i \in DOMAIN u /\ u[i] = s[i]
  BY <1>1, <1>2
<1>4. \A i \in DOMAIN t : Len(s) + i \in DOMAIN u /\ u[Len(s) + i] = t[i]
  BY <1>1, <1>2
<1>5. \A i \in DOMAIN u : (i \in DOMAIN s /\ u[i] = s[i])
                            \/ (i - Len(s) \in DOMAIN t /\ u[i] = t[i - Len(s)] /\ i > Len(s))
  BY <1>1, <1>2
<1>6. BatchCalls!Elements(u) = BatchCalls!Elements(s) \union BatchCalls!Elements(t)
  <2>1. BatchCalls!Elements(u) \subseteq BatchCalls!Elements(s) \union BatchCalls!Elements(t)
    BY <1>5 DEF BatchCalls!Elements
  <2>2. BatchCalls!Elements(s) \subseteq BatchCalls!Elements(u)
    BY <1>3 DEF BatchCalls!Elements
  <2>3. BatchCalls!Elements(t) \subseteq BatchCalls!Elements(u)
    BY <1>4 DEF BatchCalls!Elements
  <2> QED
    BY <2>1, <2>2, <2>3
<1>7. ASSUME NEW i \in DOMAIN u, NEW j \in DOMAIN u, i < j PROVE u[i] < u[j]
  <2>1. CASE i \in DOMAIN s /\ j \in DOMAIN s
    BY <1>3, <1>7, <2>1 DEF BatchCalls!Ascending
  <2>2. CASE i \in DOMAIN s /\ j \notin DOMAIN s
    <3>1. u[i] \in BatchCalls!Elements(s) /\ u[j] \in BatchCalls!Elements(t)
      BY <1>5, <2>2, <1>3 DEF BatchCalls!Elements
    <3> QED
      BY <3>1
  <2>3. CASE i \notin DOMAIN s
    <3>1. /\ i - Len(s) \in DOMAIN t /\ u[i] = t[i - Len(s)]
          /\ j - Len(s) \in DOMAIN t /\ u[j] = t[j - Len(s)]
      <4>1. i \in Int /\ j \in Int /\ i > Len(s)
        BY <1>1, <1>2, <1>5, <2>3
      <4>2. j \notin DOMAIN s
        BY <1>1, <1>7, <4>1
      <4> QED
        BY <1>5, <2>3, <4>2
    <3>2. i - Len(s) < j - Len(s)
      BY <1>1, <1>2, <1>7
    <3> QED
      BY <3>1, <3>2 DEF BatchCalls!Ascending
  <2> QED
    BY <2>1, <2>2, <2>3
<1>8. BatchCalls!Ascending(u)
  BY <1>7 DEF BatchCalls!Ascending
<1> QED
  BY <1>2, <1>6, <1>8 DEF u

\* Where a post is after another one was added.
LEMMA Posted ==
  ASSUME BatchCalls!TypeOK, NEW d \in BOOLEAN, NEW r \in Seq(DOMAIN rows),
         BatchCalls!SendResults(d, r), rows' = rows
  PROVE  /\ posts' \in Seq([done : BOOLEAN, results : Seq(DOMAIN rows)])
         /\ Len(posts) \in Nat /\ Len(posts') = Len(posts) + 1
         /\ DOMAIN posts = 1 .. Len(posts)
         /\ DOMAIN posts' = DOMAIN posts \union {Len(posts')}
         /\ Len(posts') \notin DOMAIN posts
         /\ \A i \in DOMAIN posts : i < Len(posts') /\ posts'[i] = posts[i]
         /\ posts'[Len(posts')].done = d /\ posts'[Len(posts')].results = r
<1> DEFINE T == [done : BOOLEAN, results : Seq(DOMAIN rows)]
           x == [done |-> d, results |-> r]
<1>1. posts \in Seq(T) /\ x \in T
  BY DEF BatchCalls!TypeOK
<1>2. posts' = Append(posts, x)
  BY DEF BatchCalls!SendResults
<1>3. x.done = d /\ x.results = r
  OBVIOUS
<1> HIDE DEF T, x
<1>4. /\ Append(posts, x) \in Seq(T) /\ Len(Append(posts, x)) = Len(posts) + 1
      /\ \A i \in 1 .. Len(posts) : Append(posts, x)[i] = posts[i]
      /\ Append(posts, x)[Len(posts) + 1] = x
  BY <1>1, AppendProperties
<1>5. Len(posts) \in Nat /\ DOMAIN posts = 1 .. Len(posts)
  BY <1>1
<1>6. DOMAIN posts' = 1 .. Len(posts) + 1
  BY <1>2, <1>4
<1>7. posts' \in Seq(T) /\ Len(posts') = Len(posts) + 1
  BY <1>2, <1>4
<1>8. 1 .. Len(posts) + 1 = (1 .. Len(posts)) \union {Len(posts) + 1} /\ Len(posts) + 1 \notin 1 .. Len(posts)
  BY <1>5
<1>9. \A i \in DOMAIN posts : i < Len(posts') /\ posts'[i] = posts[i]
  BY <1>2, <1>4, <1>5, <1>7
<1>10. posts'[Len(posts')] = x
  BY <1>2, <1>4, <1>7
<1> QED
  BY <1>3, <1>5, <1>6, <1>7, <1>8, <1>9, <1>10 DEF T

LEMMA PostBatchKeepsBatches ==
  ASSUME BatchFollows, BatchCalls!PostBatch
  PROVE  BatchFollows'
<1> DEFINE b == BatchCalls!Batch(batch)
           top == batch * size
           n == Len(posts')
<1>0. BatchCalls!TypeOK /\ ResultsAreInOrder
  BY DEF BatchFollows
<1>1. /\ pc = "post" /\ pc' = "next" /\ BatchCalls!SendResults(FALSE, b)
      /\ all' = all \o b /\ batch' = IF size = 0 THEN 0 ELSE batch + 1
      /\ rows' = rows /\ size' = size /\ open' = open
  BY DEF BatchCalls!PostBatch
<1>2. /\ b \in Seq(DOMAIN rows) /\ BatchCalls!Ascending(b)
      /\ BatchCalls!Elements(b) = {r \in BatchCalls!Wanted : top < r /\ r <= top + size}
  BY <1>0, BatchIsItsRows
<1>3. size \in Nat /\ batch \in Nat
  BY <1>0, RowsAreNumbered
<1>4. top \in Nat /\ batch' \in Nat /\ batch' * size' = top + size
  <2>1. CASE size = 0
    BY <1>1, <1>3, <2>1
  <2>2. CASE size # 0
    BY <1>1, <1>3, <2>2
  <2> QED
    BY <2>1, <2>2
<1> HIDE DEF b, top
<1>5. BatchCalls!Wanted' = BatchCalls!Wanted /\ BatchCalls!Wanted \subseteq DOMAIN rows
  BY <1>1 DEF BatchCalls!Wanted
<1>6. DOMAIN rows \in SUBSET Int
  BY <1>0, RowsAreNumbered
<1>7. BatchCalls!Elements(all) = {r \in BatchCalls!Wanted : r <= top}
  BY DEF BatchFollows, top
<1>8. \A r \in BatchCalls!Elements(all), q \in BatchCalls!Elements(b) : r < q
  <2> SUFFICES ASSUME NEW r \in BatchCalls!Elements(all), NEW q \in BatchCalls!Elements(b)
               PROVE  r < q
    OBVIOUS
  <2>1. r \in Int /\ q \in Int
    BY <1>2, <1>5, <1>6, <1>7
  <2>2. r <= top /\ top < q
    BY <1>2, <1>7
  <2> QED
    BY <1>4, <2>1, <2>2
<1>9. all \in Seq(DOMAIN rows) /\ BatchCalls!Ascending(all)
  BY <1>0 DEF BatchCalls!TypeOK, ResultsAreInOrder, BatchCalls!ResultsAreInOrder
<1>10. /\ all' \in Seq(DOMAIN rows) /\ BatchCalls!Ascending(all')
       /\ BatchCalls!Elements(all') = BatchCalls!Elements(all) \union BatchCalls!Elements(b)
  BY <1>1, <1>2, <1>6, <1>8, <1>9, ConcatAscends
<1>11. BatchCalls!Elements(all') = {r \in BatchCalls!Wanted : r <= top + size}
  <2>1. \A r \in BatchCalls!Wanted : r \in Int
    BY <1>5, <1>6
  <2>2. \A r \in BatchCalls!Wanted : r <= top + size <=> r <= top \/ (top < r /\ r <= top + size)
    BY <1>3, <1>4, <2>1
  <2> QED
    BY <1>2, <1>7, <1>10, <2>2
<1>12. /\ posts' \in Seq([done : BOOLEAN, results : Seq(DOMAIN rows)])
       /\ DOMAIN posts' = DOMAIN posts \union {n} /\ n \notin DOMAIN posts
       /\ \A i \in DOMAIN posts : i < n /\ posts'[i] = posts[i]
       /\ posts'[n].done = FALSE /\ posts'[n].results = b
       /\ n \in Nat /\ DOMAIN posts \subseteq Nat
  <2>1. FALSE \in BOOLEAN
    OBVIOUS
  <2>2. /\ posts' \in Seq([done : BOOLEAN, results : Seq(DOMAIN rows)])
        /\ Len(posts) \in Nat /\ Len(posts') = Len(posts) + 1
        /\ DOMAIN posts = 1 .. Len(posts)
        /\ DOMAIN posts' = DOMAIN posts \union {Len(posts')}
        /\ Len(posts') \notin DOMAIN posts
        /\ \A i \in DOMAIN posts : i < Len(posts') /\ posts'[i] = posts[i]
        /\ posts'[Len(posts')].done = FALSE /\ posts'[Len(posts')].results = b
    BY <1>0, <1>1, <1>2, <2>1, Posted
  <2> QED
    BY <2>2
<1> HIDE DEF n
<1>13. \A i \in DOMAIN posts : posts[i].done = FALSE
  BY <1>1 DEF BatchFollows
<1>14. BatchCalls!TypeOK'
  <2>1. rows \in Seq(BOOLEAN) /\ Len(rows) <= MaxRows /\ size \in 0 .. MaxRows /\ open \subseteq DOMAIN rows
    BY <1>0 DEF BatchCalls!TypeOK
  <2> QED
    BY <1>1, <1>4, <1>10, <1>12, <2>1 DEF BatchCalls!TypeOK
<1>15. \A i \in DOMAIN posts' : posts'[i].done = FALSE
  BY <1>12, <1>13
<1> DEFINE results(i) == BatchCalls!Elements(posts[i].results)
           added(i) == BatchCalls!Elements(posts'[i].results)
<1>16. /\ \A i \in DOMAIN posts : BatchCalls!Ascending(posts[i].results)
       /\ \A i, j \in DOMAIN posts : i < j => \A r \in results(i), q \in results(j) : r < q
       /\ BatchCalls!Elements(all) = UNION {results(i) : i \in DOMAIN posts}
  <2>1. {i \in DOMAIN posts : ~posts[i].done} = DOMAIN posts
    BY <1>13
  <2> QED
    BY <1>0, <2>1 DEF ResultsAreInOrder, BatchCalls!ResultsAreInOrder
<1>17. \A i \in DOMAIN posts : results(i) \subseteq BatchCalls!Elements(all)
  BY <1>16
<1>18. added(n) = BatchCalls!Elements(b) /\ \A i \in DOMAIN posts : added(i) = results(i)
  BY <1>12
<1>19. \A i \in DOMAIN posts' : BatchCalls!Ascending(posts'[i].results)
  BY <1>2, <1>12, <1>16
<1> HIDE DEF results, added
<1>20. ASSUME NEW i \in DOMAIN posts', NEW j \in DOMAIN posts', i < j,
              NEW r \in added(i), NEW q \in added(j)
       PROVE  r < q
  <2>1. i # n
    BY <1>12, <1>20
  <2>2. i \in DOMAIN posts
    BY <1>12, <2>1
  <2>3. CASE j = n
    BY <1>8, <1>17, <1>18, <1>20, <2>2, <2>3
  <2>4. CASE j \in DOMAIN posts
    BY <1>16, <1>18, <1>20, <2>2, <2>4
  <2> QED
    BY <1>12, <2>3, <2>4
<1>21. BatchCalls!Elements(all') = UNION {added(i) : i \in DOMAIN posts'}
  BY <1>10, <1>12, <1>16, <1>18
<1>22. \A r \in BatchCalls!Elements(all'), q \in BatchCalls!Wanted :
          q < r => q \in BatchCalls!Elements(all')
  <2> SUFFICES ASSUME NEW r \in BatchCalls!Elements(all'), NEW q \in BatchCalls!Wanted, q < r
               PROVE  q <= top + size
    BY <1>11
  <2>1. r \in Int /\ q \in Int /\ r <= top + size
    BY <1>5, <1>6, <1>11
  <2> QED
    BY <1>3, <1>4, <2>1
<1>23. ResultsAreInOrder'
  <2>1. {i \in DOMAIN posts' : ~posts'[i].done} = DOMAIN posts'
    BY <1>15
  <2>2. BatchCalls!Elements(all') \subseteq BatchCalls!Wanted
    BY <1>11
  <2> QED
    BY <1>1, <1>5, <1>10, <1>15, <1>19, <1>20, <1>21, <1>22, <2>1, <2>2
       DEF ResultsAreInOrder, BatchCalls!ResultsAreInOrder, added
<1> QED
  BY <1>1, <1>4, <1>5, <1>11, <1>14, <1>15, <1>23 DEF BatchFollows

LEMMA PostAllKeepsBatches ==
  ASSUME BatchFollows, BatchCalls!PostAll
  PROVE  BatchFollows'
<1> DEFINE n == Len(posts')
<1>1. BatchCalls!TypeOK /\ ResultsAreInOrder
  BY DEF BatchFollows
<1>2. /\ pc = "last post" /\ pc' = "returned" /\ BatchCalls!SendResults(TRUE, all)
      /\ UNCHANGED <<rows, size, batch, open, all>>
  BY DEF BatchCalls!PostAll
<1>3. all \in Seq(DOMAIN rows)
  BY <1>1 DEF BatchCalls!TypeOK
<1>4. /\ posts' \in Seq([done : BOOLEAN, results : Seq(DOMAIN rows)])
      /\ DOMAIN posts' = DOMAIN posts \union {n} /\ n \notin DOMAIN posts
      /\ \A i \in DOMAIN posts : posts'[i] = posts[i]
      /\ posts'[n].done = TRUE /\ posts'[n].results = all
      /\ n > 0
  <2>1. TRUE \in BOOLEAN
    OBVIOUS
  <2>2. /\ posts' \in Seq([done : BOOLEAN, results : Seq(DOMAIN rows)])
        /\ Len(posts) \in Nat /\ Len(posts') = Len(posts) + 1
        /\ DOMAIN posts' = DOMAIN posts \union {Len(posts')}
        /\ Len(posts') \notin DOMAIN posts
        /\ \A i \in DOMAIN posts : i < Len(posts') /\ posts'[i] = posts[i]
        /\ posts'[Len(posts')].done = TRUE /\ posts'[Len(posts')].results = all
    BY <1>1, <1>2, <1>3, <2>1, Posted
  <2> QED
    BY <2>2
<1>5. BatchCalls!TypeOK'
  BY <1>1, <1>2, <1>4 DEF BatchCalls!TypeOK
<1>6. BatchCalls!Wanted' = BatchCalls!Wanted
  BY <1>2 DEF BatchCalls!Wanted
<1>7. \A i \in DOMAIN posts : posts[i].done = FALSE
  BY <1>2 DEF BatchFollows
<1>8. {i \in DOMAIN posts : ~posts[i].done} = {i \in DOMAIN posts' : ~posts'[i].done}
  BY <1>4, <1>7
<1>9. BatchCalls!Elements(all) = BatchCalls!Wanted
  BY <1>2 DEF BatchFollows
<1>10. BatchCalls!Ascending(all)
  BY <1>1 DEF ResultsAreInOrder, BatchCalls!ResultsAreInOrder
<1>11. \A i \in DOMAIN posts' : posts'[i].done =>
          /\ i = n
          /\ BatchCalls!Ascending(posts'[i].results)
          /\ BatchCalls!Elements(posts'[i].results) = BatchCalls!Wanted
  BY <1>4, <1>7, <1>9, <1>10
<1>12. \A i \in {j \in DOMAIN posts : ~posts[j].done} : posts'[i] = posts[i]
  BY <1>4
<1> DEFINE parts == {i \in DOMAIN posts : ~posts[i].done}
<1>13. /\ \A i \in parts : BatchCalls!Ascending(posts[i].results)
       /\ \A i, j \in parts : i < j =>
            \A r \in BatchCalls!Elements(posts[i].results),
               q \in BatchCalls!Elements(posts[j].results) : r < q
       /\ BatchCalls!Elements(all) = UNION {BatchCalls!Elements(posts[i].results) : i \in parts}
       /\ \A r \in BatchCalls!Elements(all), q \in BatchCalls!Wanted :
            q < r => q \in BatchCalls!Elements(all)
  BY <1>1 DEF ResultsAreInOrder, BatchCalls!ResultsAreInOrder
<1> HIDE DEF parts
<1>14. /\ \A i \in parts : BatchCalls!Ascending(posts'[i].results)
       /\ \A i, j \in parts : i < j =>
            \A r \in BatchCalls!Elements(posts'[i].results),
               q \in BatchCalls!Elements(posts'[j].results) : r < q
       /\ BatchCalls!Elements(all) = UNION {BatchCalls!Elements(posts'[i].results) : i \in parts}
  <2>1. \A i \in parts : posts'[i] = posts[i]
    BY <1>12 DEF parts
  <2> QED
    BY <1>13, <2>1
<1>15. parts = {i \in DOMAIN posts' : ~posts'[i].done}
  BY <1>8 DEF parts
<1>16. all' = all
  BY <1>2
<1>17. ResultsAreInOrder'
  BY <1>2, <1>4, <1>6, <1>9, <1>10, <1>11, <1>13, <1>14, <1>15, <1>16
     DEF ResultsAreInOrder, BatchCalls!ResultsAreInOrder
<1> QED
  BY <1>2, <1>5, <1>6, <1>17 DEF BatchFollows

LEMMA BatchNext == BatchFollows /\ [BatchCalls!Next]_batchVars => BatchFollows'
<1> SUFFICES ASSUME BatchFollows, [BatchCalls!Next]_batchVars PROVE BatchFollows'
  OBVIOUS
<1>1. BatchCalls!TypeOK
  BY DEF BatchFollows
<1>2. open \subseteq DOMAIN rows
  BY <1>1 DEF BatchCalls!TypeOK
<1>3. CASE BatchCalls!StartBatch
  <2>1. /\ pc = "next" /\ pc' = "calls" /\ UNCHANGED <<rows, size, batch, all, posts>>
        /\ open' = BatchCalls!Elements(BatchCalls!Batch(batch))
    BY <1>3 DEF BatchCalls!StartBatch
  <2>2. open' \subseteq DOMAIN rows
    BY <1>1, <2>1, BatchIsItsRows DEF BatchCalls!Wanted
  <2> QED
    BY <2>1, <2>2, OtherStepsKeepBatches
<1>4. CASE BatchCalls!NoMoreBatches
  <2>1. /\ pc = "next" /\ pc' = "last post" /\ UNCHANGED <<rows, size, batch, open, all, posts>>
        /\ ~BatchCalls!MoreBatches
    BY <1>4 DEF BatchCalls!NoMoreBatches
  <2> QED
    BY <1>2, <2>1, NoMoreBatchesIsAll, OtherStepsKeepBatches
<1>5. CASE BatchCalls!CallsEnd
  BY <1>2, <1>5, OtherStepsKeepBatches DEF BatchCalls!CallsEnd
<1>6. ASSUME NEW r \in 1 .. MaxRows, BatchCalls!CallEnds(r) \/ BatchCalls!CallFails(r)
      PROVE  BatchFollows'
  BY <1>2, <1>6, OtherStepsKeepBatches DEF BatchCalls!CallEnds, BatchCalls!CallFails
<1>7. CASE UNCHANGED batchVars
  <2>1. BatchCalls!Wanted' = BatchCalls!Wanted /\ UNCHANGED <<rows, size, batch, open, all, posts, pc>>
    BY <1>7 DEF batchVars, BatchCalls!Wanted
  <2>2. BatchCalls!TypeOK'
    BY <1>1, <2>1 DEF BatchCalls!TypeOK
  <2>3. ResultsAreInOrder'
    BY <2>1 DEF BatchFollows, ResultsAreInOrder, BatchCalls!ResultsAreInOrder
  <2> QED
    BY <2>1, <2>2, <2>3 DEF BatchFollows
<1> QED
  BY <1>3, <1>4, <1>5, <1>6, <1>7, PostBatchKeepsBatches, PostAllKeepsBatches DEF BatchCalls!Next

\* Whatever the rows and the size of a batch, and in whatever order the calls
\* of a batch end: each result is posted once and in order, and "done" is said
\* with all of them and only in the end (batch.service.ts:26-100).
THEOREM BatchesAreInOrder == ServicesSpec => []ResultsAreInOrder
<1>1. ServicesInit => BatchFollows
  BY BatchInit DEF ServicesInit
<1>2. BatchFollows /\ [ServicesNext]_servicesVars => BatchFollows'
  BY BatchNext DEF ServicesNext, servicesVars
<1>3. BatchFollows => ResultsAreInOrder
  BY DEF BatchFollows
<1> QED BY <1>1, <1>2, <1>3, PTL DEF ServicesSpec

-----------------------------------------------------------------------------
(* The components with proofs of their own.  A second instance of a module *)
(* has operators of its own: that they are the same is seen when the       *)
(* definitions of both are expanded.                                       *)

HP == INSTANCE HttpRequestsProofs
SP == INSTANCE ScheduledTransactionsProofs WITH ProjectOf <- OwnerOf, Clients <- ProjectClients
CP ==
  INSTANCE ConnectionSubscriptionsProofs WITH
    Conns <- Connections, kind <- subKind, queue <- blockQueue, run <- blockRun

(* HttpRequests *)

LEMMA HttpInit == HttpRequests!Init => HP!IInv
<1>1. HttpRequests!Init => HP!Init
  BY DEF HttpRequests!Init, HttpRequests!Nobody, HttpRequests!NoTally, HttpRequests!Parts,
         HP!Init, HP!Nobody, HP!NoTally, HP!Parts
<1> QED BY <1>1, HP!InitIInv

LEMMA HttpNext == HP!IInv /\ [HttpRequests!Next]_httpVars => HP!IInv'
<1>1. HttpRequests!Next => HP!Next
  BY DEF HttpRequests!Parts, HttpRequests!Checks, HttpRequests!Nobody, HttpRequests!NoTally,
         HttpRequests!Arrive, HttpRequests!CountIncoming, HttpRequests!CountingFails,
         HttpRequests!End, HttpRequests!TimerFires, HttpRequests!TimedOut, HttpRequests!Timeout,
         HttpRequests!TimeoutFails, HttpRequests!Respond, HttpRequests!Proceed,
         HttpRequests!HeaderAuth, HttpRequests!AwsAuth, HttpRequests!HttpAuth,
         HttpRequests!After, HttpRequests!Unused, HttpRequests!Anonymous,
         HttpRequests!ProjectRequired, HttpRequests!InvalidPathParams, HttpRequests!AdminAccess,
         HttpRequests!Handle, HttpRequests!Over, HttpRequests!Middlewares, HttpRequests!Timer,
         HttpRequests!Next, HP!Parts, HP!Checks, HP!Nobody, HP!NoTally, HP!Arrive,
         HP!CountIncoming, HP!CountingFails, HP!End, HP!TimerFires, HP!TimedOut, HP!Timeout,
         HP!TimeoutFails, HP!Respond, HP!Proceed, HP!HeaderAuth, HP!AwsAuth, HP!HttpAuth,
         HP!After, HP!Unused, HP!Anonymous, HP!ProjectRequired, HP!InvalidPathParams,
         HP!AdminAccess, HP!Handle, HP!Over, HP!Middlewares, HP!Timer, HP!Next
<1>2. UNCHANGED httpVars => UNCHANGED HP!vars
  BY DEF httpVars, HP!vars
<1> QED BY <1>1, <1>2, HP!NextKeepsIInv

\* What is counted for a request agrees with what its caller was told.
THEOREM CountsAgree == ServicesSpec => []CountsAgreeWithAnswers
<1>1. ServicesInit => HP!IInv
  BY HttpInit DEF ServicesInit
<1>2. HP!IInv /\ [ServicesNext]_servicesVars => HP!IInv'
  BY HttpNext DEF ServicesNext, servicesVars
<1>3. HP!IInv => CountsAgreeWithAnswers
  BY HP!IInvCounts DEF CountsAgreeWithAnswers, HP!CountsAgreeWithAnswers, HttpRequests!CountsAgreeWithAnswers
<1> QED BY <1>1, <1>2, <1>3, PTL DEF ServicesSpec

(* ScheduledTransactions *)

LEMMA ScheduledFit == SP!ConstantsFit
BY ServicesFit DEF ScheduledTransactions!ConstantsFit, SP!ConstantsFit

LEMMA ScheduledInit == ScheduledTransactions!Init => SP!IInv
<1>1. ScheduledTransactions!Init => SP!Init
  BY DEF ScheduledTransactions!Init, ScheduledTransactions!ProjectIds, ScheduledTransactions!Idle,
         ScheduledTransactions!Resting, SP!Init, SP!ProjectIds, SP!Idle, SP!Resting
<1> QED BY <1>1, ScheduledFit, SP!InitIInv

LEMMA ScheduledNext == SP!IInv /\ [ScheduledTransactions!Next]_scheduledVars => SP!IInv'
<1>1. ScheduledTransactions!Next => SP!Next
  BY DEF ScheduledTransactions!ProjectIds, ScheduledTransactions!statuses,
         ScheduledTransactions!schedule, ScheduledTransactions!delivery,
         ScheduledTransactions!Idle, ScheduledTransactions!Resting,
         ScheduledTransactions!SetProjectStatus, ScheduledTransactions!SetClientStatus,
         ScheduledTransactions!CreateScheduledTx, ScheduledTransactions!SaveJob,
         ScheduledTransactions!Change, ScheduledTransactions!SetCronExpression,
         ScheduledTransactions!SetTransaction, ScheduledTransactions!Tick,
         ScheduledTransactions!Go, ScheduledTransactions!StartRun, ScheduledTransactions!Receive,
         ScheduledTransactions!HandleReturns, ScheduledTransactions!Reject,
         ScheduledTransactions!Load, ScheduledTransactions!LoadClient,
         ScheduledTransactions!Send, ScheduledTransactions!Look, ScheduledTransactions!Insert,
         ScheduledTransactions!Newest, ScheduledTransactions!Release,
         ScheduledTransactions!Subscribe, ScheduledTransactions!Handle,
         ScheduledTransactions!Call, ScheduledTransactions!Report, ScheduledTransactions!Next,
         SP!ProjectIds, SP!statuses, SP!schedule, SP!delivery, SP!Idle, SP!Resting,
         SP!SetProjectStatus, SP!SetClientStatus, SP!CreateScheduledTx, SP!SaveJob, SP!Change,
         SP!SetCronExpression, SP!SetTransaction, SP!Tick, SP!Go, SP!StartRun, SP!Receive,
         SP!HandleReturns, SP!Reject, SP!Load, SP!LoadClient, SP!Send, SP!Look, SP!Insert,
         SP!Newest, SP!Release, SP!Subscribe, SP!Handle, SP!Call, SP!Report, SP!Next
<1>2. UNCHANGED scheduledVars => UNCHANGED SP!vars
  BY DEF scheduledVars, SP!vars
<1> QED BY <1>1, <1>2, ScheduledFit, SP!NextKeepsIInv

\* A webhook of a scheduled transaction names one that was broadcast for it and
\* is the only one; a hash subscription is made only after that webhook.
THEOREM NothingElseIsReported == ServicesSpec => []ReportsAreTrue
<1>1. ServicesInit => SP!IInv
  BY ScheduledInit DEF ServicesInit
<1>2. SP!IInv /\ [ServicesNext]_servicesVars => SP!IInv'
  BY ScheduledNext DEF ServicesNext, servicesVars
<1>3. SP!IInv => ReportsAreTrue
  BY SP!IInvReports DEF ReportsAreTrue, SP!ReportsAreTrue, ScheduledTransactions!ReportsAreTrue
<1> QED BY <1>1, <1>2, <1>3, PTL DEF ServicesSpec

\* A webhook marked as sent has been received.
THEOREM SentMeansReceived == ServicesSpec => []SentWasReceived
<1>1. ServicesInit => SP!IInv
  BY ScheduledInit DEF ServicesInit
<1>2. SP!IInv /\ [ServicesNext]_servicesVars => SP!IInv'
  BY ScheduledNext DEF ServicesNext, servicesVars
<1>3. SP!IInv => SentWasReceived
  BY DEF SP!IInv, SentWasReceived, SP!SentWasReceived, ScheduledTransactions!SentWasReceived
<1> QED BY <1>1, <1>2, <1>3, PTL DEF ServicesSpec

(* ConnectionSubscriptions *)

LEMMA SubscriptionsFit == CP!ConstantsFit
BY ServicesFit DEF ConnectionSubscriptions!ConstantsFit, ConnectionSubscriptions!Kinds,
   ConnectionSubscriptions!Subscription, ConnectionSubscriptions!Maybe,
   CP!ConstantsFit, CP!Kinds, CP!Subscription, CP!Maybe

LEMMA SubscriptionsInit == ConnectionSubscriptions!Init => CP!IInv
<1>1. ConnectionSubscriptions!Init => CP!Init
  BY DEF ConnectionSubscriptions!Init, ConnectionSubscriptions!Idle, CP!Init, CP!Idle
<1> QED BY <1>1, SubscriptionsFit, CP!InitIInv

LEMMA SubscriptionsNext ==
  CP!IInv /\ [ConnectionSubscriptions!Next]_subscriptionVars => CP!IInv'
<1>1. ConnectionSubscriptions!Next => CP!Next
  BY DEF ConnectionSubscriptions!Kinds, ConnectionSubscriptions!ProjectIds,
         ConnectionSubscriptions!Clients, ConnectionSubscriptions!Idle,
         ConnectionSubscriptions!Stored, ConnectionSubscriptions!CreateConnection,
         ConnectionSubscriptions!SaveJob, ConnectionSubscriptions!SaveJobFails,
         ConnectionSubscriptions!RemoveConnections, ConnectionSubscriptions!New,
         ConnectionSubscriptions!NewAddressSubscription,
         ConnectionSubscriptions!NewContractSubscription,
         ConnectionSubscriptions!NewTransactionSubscription,
         ConnectionSubscriptions!NewOraclizeSubscription,
         ConnectionSubscriptions!NewFabricSubscription, ConnectionSubscriptions!NewSubscription,
         ConnectionSubscriptions!CreateSubscription, ConnectionSubscriptions!OfKind,
         ConnectionSubscriptions!WithId, ConnectionSubscriptions!WithProjectId,
         ConnectionSubscriptions!WithClientId, ConnectionSubscriptions!Set,
         ConnectionSubscriptions!SetSubscribed, ConnectionSubscriptions!Ask,
         ConnectionSubscriptions!Owned, ConnectionSubscriptions!SetSubscribedById,
         ConnectionSubscriptions!SetSubscribedByProjectId,
         ConnectionSubscriptions!SetSubscribedByClientId, ConnectionSubscriptions!SetActive,
         ConnectionSubscriptions!SetClientActive, ConnectionSubscriptions!SetProjectActive,
         ConnectionSubscriptions!Joined, ConnectionSubscriptions!Match,
         ConnectionSubscriptions!Filter, ConnectionSubscriptions!View,
         ConnectionSubscriptions!Tick, ConnectionSubscriptions!StartRun,
         ConnectionSubscriptions!Receive, ConnectionSubscriptions!NothingReceived,
         ConnectionSubscriptions!ReadView, ConnectionSubscriptions!ReadFails,
         ConnectionSubscriptions!FinishRun, ConnectionSubscriptions!Next, CP!Kinds,
         CP!ProjectIds, CP!Clients, CP!Idle, CP!Stored, CP!CreateConnection, CP!SaveJob,
         CP!SaveJobFails, CP!RemoveConnections, CP!New, CP!NewAddressSubscription,
         CP!NewContractSubscription, CP!NewTransactionSubscription, CP!NewOraclizeSubscription,
         CP!NewFabricSubscription, CP!NewSubscription, CP!CreateSubscription, CP!OfKind,
         CP!WithId, CP!WithProjectId, CP!WithClientId, CP!Set, CP!SetSubscribed, CP!Ask,
         CP!Owned, CP!SetSubscribedById, CP!SetSubscribedByProjectId, CP!SetSubscribedByClientId,
         CP!SetActive, CP!SetClientActive, CP!SetProjectActive, CP!Joined, CP!Match, CP!Filter,
         CP!View, CP!Tick, CP!StartRun, CP!Receive, CP!NothingReceived, CP!ReadView,
         CP!ReadFails, CP!FinishRun, CP!Next
<1>2. UNCHANGED subscriptionVars => UNCHANGED CP!vars
  BY DEF subscriptionVars, CP!vars
<1> QED BY <1>1, <1>2, SubscriptionsFit, CP!NextKeepsIInv

\* The view gives the listener exactly the subscriptions whose owners last asked
\* for it.
THEOREM ViewIsWhatWasAsked == ServicesSpec => []ViewFollowsRequests
<1>1. ServicesInit => CP!IInv
  BY SubscriptionsInit DEF ServicesInit
<1>2. CP!IInv /\ [ServicesNext]_servicesVars => CP!IInv'
  BY SubscriptionsNext DEF ServicesNext, servicesVars
<1>3. CP!IInv => ViewFollowsRequests
  BY SubscriptionsFit, CP!IInvFollows DEF ViewFollowsRequests, CP!ViewFollowsRequests,
    ConnectionSubscriptions!ViewFollowsRequests, ConnectionSubscriptions!Stored, ConnectionSubscriptions!Joined,
    ConnectionSubscriptions!Match, ConnectionSubscriptions!Filter, ConnectionSubscriptions!View,
    ConnectionSubscriptions!ViewFollowsRequests, CP!Stored, CP!Joined, CP!Match, CP!Filter,
    CP!View, CP!ViewFollowsRequests
<1> QED BY <1>1, <1>2, <1>3, PTL DEF ServicesSpec

\* What the ActiveOnly queries list is among what the handlers are given.
THEOREM NothingActiveIsMissed == ServicesSpec => []ActiveOnlyIsHandled
<1>1. ServicesInit => CP!IInv
  BY SubscriptionsInit DEF ServicesInit
<1>2. CP!IInv /\ [ServicesNext]_servicesVars => CP!IInv'
  BY SubscriptionsNext DEF ServicesNext, servicesVars
<1>3. CP!IInv => ActiveOnlyIsHandled
  BY SubscriptionsFit, CP!ActiveIsHandled
     DEF ActiveOnlyIsHandled, ConnectionSubscriptions!Stored, ConnectionSubscriptions!OfKind,
         ConnectionSubscriptions!Subscribed, ConnectionSubscriptions!Flagged,
         ConnectionSubscriptions!AllActive, ConnectionSubscriptions!ActiveAddresses,
         ConnectionSubscriptions!ActiveContracts, ConnectionSubscriptions!ActiveFabrics,
         ConnectionSubscriptions!ActiveTransactions, ConnectionSubscriptions!ActiveOraclizes,
         ConnectionSubscriptions!ActiveOnly, ConnectionSubscriptions!Joined,
         ConnectionSubscriptions!Match, ConnectionSubscriptions!Filter,
         ConnectionSubscriptions!View, ConnectionSubscriptions!ActiveOnlyIsHandled, CP!Stored,
         CP!OfKind, CP!Subscribed, CP!Flagged, CP!AllActive, CP!ActiveAddresses,
         CP!ActiveContracts, CP!ActiveFabrics, CP!ActiveTransactions, CP!ActiveOraclizes,
         CP!ActiveOnly, CP!Joined, CP!Match, CP!Filter, CP!View, CP!ActiveOnlyIsHandled
<1> QED BY <1>1, <1>2, <1>3, PTL DEF ServicesSpec

-----------------------------------------------------------------------------
\* Every component keeps the types of its state.
THEOREM TypesAreKept == ServicesSpec => []TypesOK
<1> DEFINE All == /\ HP!IInv /\ SP!IInv /\ CP!IInv /\ IInv
                  /\ SessionsDated /\ BatchFollows /\ MetricsExact /\ ContractsFollow /\ part \in Parts
<1>1. ServicesInit => All
  BY HttpInit, ScheduledInit, SubscriptionsInit, InitIInv, SessionsInit, BatchInit,
     MetricsInit, ContractsInit
     DEF ServicesInit
<1>2. All /\ [ServicesNext]_servicesVars => All'
  <2> SUFFICES ASSUME All, [ServicesNext]_servicesVars PROVE All'
    OBVIOUS
  <2>1. /\ [HttpRequests!Next]_httpVars /\ [ScheduledTransactions!Next]_scheduledVars
        /\ [ConnectionSubscriptions!Next]_subscriptionVars /\ [Next]_vars
        /\ [Sessions!Next]_sessionVars /\ [CallMetrics!Next]_metricVars
        /\ [ContractRequests!Next]_contractVars /\ [BatchCalls!Next]_batchVars /\ part' = part
    BY DEF ServicesNext, servicesVars
  <2>2. HP!IInv' /\ SP!IInv' /\ CP!IInv'
    BY <2>1, HttpNext, ScheduledNext, SubscriptionsNext
  <2>3. IInv' /\ SessionsDated' /\ BatchFollows' /\ MetricsExact' /\ ContractsFollow'
    BY <2>1, NextKeepsIInv, SessionsNext, BatchNext, MetricsNext, ContractsNext
  <2> QED BY <2>1, <2>2, <2>3
<1>3. All => TypesOK
  <2> SUFFICES ASSUME All PROVE TypesOK
    OBVIOUS
  <2>1. HttpRequests!TypeOK
    BY DEF HP!IInv, HttpRequests!Parts, HttpRequests!Checks, HttpRequests!Stages, HttpRequests!TypeOK,
           HP!Parts, HP!Checks, HP!Stages, HP!TypeOK
  <2>2. ScheduledTransactions!TypeOK
    BY DEF SP!IInv, ScheduledTransactions!ProjectIds, ScheduledTransactions!WebhookActionItem,
           ScheduledTransactions!Runs, ScheduledTransactions!TypeOK, SP!ProjectIds,
           SP!WebhookActionItem, SP!Runs, SP!TypeOK
  <2>3. ConnectionSubscriptions!TypeOK
    BY DEF CP!IInv, ConnectionSubscriptions!Kinds, ConnectionSubscriptions!Maybe,
           ConnectionSubscriptions!Subscription, ConnectionSubscriptions!Phases,
           ConnectionSubscriptions!Runs, ConnectionSubscriptions!TypeOK, CP!Kinds, CP!Maybe,
           CP!Subscription, CP!Phases, CP!Runs, CP!TypeOK
  <2>4. TypeOK /\ Sessions!TypeOK /\ BatchCalls!TypeOK /\ CallMetrics!TypeOK /\ ContractRequests!TypeOK
    BY DEF IInv, SessionsDated, BatchFollows, MetricsExact, ContractsFollow
  <2> QED BY <2>1, <2>2, <2>3, <2>4 DEF TypesOK
<1> QED BY <1>1, <1>2, <1>3, PTL DEF ServicesSpec
=============================================================================
