---------------------------- MODULE CallMetrics ----------------------------
(***************************************************************************)
(* How often the connections of a blockchain were called, from the counter *)
(* to the metric (fluence.lib.services: the counter and getStatistic of    *)
(* managed.blockchain.transport.service.ts, the registry that finds the    *)
(* services; fluence.ms.abstract.blockchain: blockchain.metrics.ts and     *)
(* blockchain.metric.service.ts).                                          *)
(*                                                                         *)
(* The counters are fields of one object.  A field nobody has set becomes  *)
(* NaN when it is incremented.  getStatistic returns that very object and  *)
(* then sets its fields to zero, so the middleware reads them afterwards.  *)
(* The marks are keyed by transport id, and each connection is taken to    *)
(* have one of its own.                                                    *)
(***************************************************************************)
EXTENDS Integers, FiniteSets

CONSTANTS Connections,   \* the connections of the service
          None, NaN,
          MaxCalls       \* bound: calls between two readings

Counts == 0 .. MaxCalls

\* What is assumed of the constants: neither an absent field nor what it
\* becomes when it is incremented is a count.
ConstantsFit == MaxCalls \in Nat /\ {None, NaN} \cap Counts = {}

VARIABLES
  calls,      \* transportsCallsStatistic; None: no such field
  active,     \* activeTransports; None: never marked
  made,       \* history: calls since the statistic was last taken
  saved       \* history: the metrics that were saved

vars == <<calls, active, made, saved>>

Metrics == [name : {"blockchain_calls_total"}, connection : Connections, value : Counts \ {0}]
           \union [name : {"blockchain_nodes_total"}, type : {"total", "healthy", "unhealthy"},
                   value : 0 .. Cardinality(Connections)]

TypeOK ==
  /\ calls \in [Connections -> Counts \union {None, NaN}]
  /\ active \in [Connections -> BOOLEAN \union {None}]
  /\ made \in [Connections -> Counts]
  /\ saved \subseteq Metrics

Init ==
  /\ calls = [c \in Connections |-> None]
  /\ active = [c \in Connections |-> None]
  /\ made = [c \in Connections |-> 0]
  /\ saved = {}

\* getActiveTransportService: the counter's ++ on whatever the field is.
Call(c) ==
  /\ made[c] < MaxCalls
  /\ calls' = [calls EXCEPT ![c] = IF @ \in {None, NaN} THEN NaN ELSE @ + 1]
  /\ made' = [made EXCEPT ![c] = @ + 1]
  /\ UNCHANGED <<active, saved>>

\* A health check marks a connection.
MarkTransport(c, b) ==
  /\ active' = [active EXCEPT ![c] = b]
  /\ UNCHANGED <<calls, made, saved>>

Zeroed == [c \in Connections |-> IF calls[c] = None THEN None ELSE 0]

\* Faulty variant: the caller is given the counters as they were.
StatisticCopied == calls

\* getStatistic: the counters its caller reads -- the same object, zeroed.
Statistic == Zeroed

Healthy == Cardinality({c \in Connections : active[c] = TRUE})

Nodes(type) == CASE type = "total" -> Cardinality(Connections)
                 [] type = "healthy" -> Healthy
                 [] type = "unhealthy" -> Cardinality(Connections) - Healthy

\* What the middleware asks to save: the calls of each connection that had
\* any, and then the nodes.
MetricRequests ==
  LET used == {c \in Connections : Statistic[c] \in Counts \ {0}} IN
  {[name |-> "blockchain_calls_total", connection |-> c, value |-> Statistic[c]] : c \in used}
  \union (IF used = {} THEN {}
          ELSE {[name |-> "blockchain_nodes_total", type |-> type, value |-> Nodes(type)] :
                  type \in {"total", "healthy", "unhealthy"}})

\* BlockchainMetrics.processRequest: a metric that is not saved is logged, and
\* the request goes on.
ProcessRequest ==
  /\ \E kept \in SUBSET MetricRequests : saved' = saved \union kept
  /\ calls' = Zeroed
  /\ made' = [c \in Connections |-> 0]
  /\ UNCHANGED active

Next ==
  \/ \E c \in Connections : Call(c) \/ \E b \in BOOLEAN : MarkTransport(c, b)
  \/ ProcessRequest

-----------------------------------------------------------------------------
\* However often connections are called, before and after the statistic is
\* taken: the middleware finds no call and saves no metric, neither of calls
\* nor of nodes (managed.blockchain.transport.service.ts:93-104), though the
\* counters themselves, once they have been zeroed, are exact.
CallsAreNeverReported ==
  /\ saved = {}
  /\ \A c \in Connections : calls[c] \in Counts => calls[c] = made[c]
=============================================================================
