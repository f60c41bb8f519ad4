----------------------------- MODULE BatchCalls -----------------------------
(***************************************************************************)
(* A contract method is called for many rows of input, a batch at a time   *)
(* (fluence.lib.ethereum/src/services/blockchain/batch.service.ts).        *)
(*                                                                         *)
(* A generator starts the calls of one batch together; they end in any     *)
(* order.  When all have, their results are posted to a webhook and added  *)
(* to those of the batches before, and the next batch is started; in the   *)
(* end all results are posted once more, marked as done.  One call that    *)
(* fails rejects the whole.                                                *)
(***************************************************************************)
EXTENDS Integers, Sequences

CONSTANTS MaxRows,       \* bound: rows of input
          MaxPosts       \* bound: posts of a run that never ends

ConstantsFit == {MaxRows, MaxPosts} \subseteq Nat

VARIABLES
  rows,      \* inputValuesData: is there a value in the row
  size,      \* rowPerRequest
  batch,     \* iterationNo, from 0
  open,      \* rows whose calls have not ended
  all,       \* allResults: the rows they are the results of
  posts,     \* what was posted to the webhook
  pc         \* where contractMethodBatchCall is

vars == <<rows, size, batch, open, all, posts, pc>>

TypeOK ==
  /\ rows \in Seq(BOOLEAN) /\ Len(rows) <= MaxRows
  /\ size \in 0 .. MaxRows /\ batch \in Nat
  /\ open \subseteq DOMAIN rows
  /\ all \in Seq(DOMAIN rows)
  /\ posts \in Seq([done : BOOLEAN, results : Seq(DOMAIN rows)])
  /\ pc \in {"next", "calls", "post", "last post", "returned", "rejected"}

Init ==
  /\ \E n \in 0 .. MaxRows : rows \in [1 .. n -> BOOLEAN]
  /\ size \in 0 .. MaxRows
  /\ batch = 0 /\ open = {} /\ all = <<>> /\ posts = <<>>
  /\ pc = "next"

\* Math.ceil of the quotient; without rows there is no iteration, and with
\* batches of no row there is no last one.
MoreBatches == IF size = 0 THEN rows # <<>> ELSE batch * size < Len(rows)

Elements(s) == {s[i] : i \in DOMAIN s}
Ascending(s) == \A i, j \in DOMAIN s : i < j => s[i] < s[j]

\* Promise.all keeps the order of the calls, which is that of the rows.
InOrder(S) ==
  CHOOSE s \in UNION {[1 .. n -> S] : n \in 0 .. Len(rows)} : Ascending(s) /\ Elements(s) = S

\* The rows that hold a value; one that is missing is passed over.
Wanted == {r \in DOMAIN rows : rows[r]}

\* Faulty variant: the last row of a batch is also in the next one.
BatchOverlapping(b) ==
  InOrder({r \in Wanted : b * size + (IF b > 0 THEN 0 ELSE 1) <= r /\ r <= b * size + size})

\* The rows of a batch.
Batch(b) == InOrder({r \in Wanted : b * size < r /\ r <= b * size + size})

StartBatch ==
  /\ pc = "next" /\ MoreBatches
  /\ open' = Elements(Batch(batch))
  /\ pc' = "calls"
  /\ UNCHANGED <<rows, size, batch, all, posts>>

NoMoreBatches ==
  /\ pc = "next" /\ ~MoreBatches
  /\ pc' = "last post"
  /\ UNCHANGED <<rows, size, batch, open, all, posts>>

\* callContractMethod ends for one row.
CallEnds(r) ==
  /\ pc = "calls" /\ r \in open
  /\ open' = open \ {r}
  /\ UNCHANGED <<rows, size, batch, all, posts, pc>>

\* ... or fails: Promise.all rejects, the calls that are open go on unheard.
CallFails(r) ==
  /\ pc = "calls" /\ r \in open
  /\ pc' = "rejected" /\ open' = {}
  /\ UNCHANGED <<rows, size, batch, all, posts>>

CallsEnd ==
  /\ pc = "calls" /\ open = {}
  /\ pc' = "post"
  /\ UNCHANGED <<rows, size, batch, open, all, posts>>

\* sendResults: an error is logged, the post may have arrived or not.
SendResults(done, results) ==
  /\ Len(posts) < MaxPosts
  /\ posts' = Append(posts, [done |-> done, results |-> results])

PostBatch ==
  /\ pc = "post"
  /\ SendResults(FALSE, Batch(batch))
  /\ all' = all \o Batch(batch)
  /\ batch' = IF size = 0 THEN 0 ELSE batch + 1
  /\ pc' = "next"
  /\ UNCHANGED <<rows, size, open>>

PostAll ==
  /\ pc = "last post"
  /\ SendResults(TRUE, all)
  /\ pc' = "returned"
  /\ UNCHANGED <<rows, size, batch, open, all>>

Next ==
  \/ StartBatch \/ NoMoreBatches \/ CallsEnd \/ PostBatch \/ PostAll
  \/ \E r \in 1 .. MaxRows : CallEnds(r) \/ CallFails(r)

-----------------------------------------------------------------------------
\* Whatever the sizes, and in whatever order the calls end: the posts hold the
\* results of the rows from the first on, each once and in order; a post is
\* marked as done only when it is the last one and has the results of all
\* rows, so never after a failed call; the batches have no row more or less.
\* (Batches of no row post nothing for ever and are never done.)
ResultsAreInOrder ==
  LET parts == {i \in DOMAIN posts : ~posts[i].done}
      results(i) == Elements(posts[i].results)
  IN  /\ \A i \in parts : Ascending(posts[i].results)
      /\ \A i, j \in parts : i < j => \A r \in results(i), q \in results(j) : r < q
      /\ Ascending(all) /\ Elements(all) = UNION {results(i) : i \in parts}
      /\ Elements(all) \subseteq Wanted
      /\ \A r \in Elements(all), q \in Wanted : q < r => q \in Elements(all)
      /\ \A i \in DOMAIN posts : posts[i].done =>
           /\ i = Len(posts) /\ pc = "returned"
           /\ Ascending(posts[i].results) /\ results(i) = Wanted
      /\ pc = "returned" => Len(posts) > 0 /\ posts[Len(posts)].done
=============================================================================
