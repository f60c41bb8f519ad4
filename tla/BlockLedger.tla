----------------------------- MODULE BlockLedger -----------------------------
(***************************************************************************)
(* What block processing promises to the rest of the platform, without the *)
(* queue, the workers, the retries or the job document: a ledger says      *)
(* which (handler, block) pairs it answers for and which of them are still *)
(* owed.  A pair may be delivered many times; the ledger may be replaced   *)
(* by any other, as long as a pair it answers for is owed or delivered.    *)
(*                                                                         *)
(* BlockchainListener.tla is shown to implement this module.               *)
(***************************************************************************)
CONSTANT
  Pairs       \* the <<handler, height>> pairs that may be delivered

VARIABLES
  covered,    \* pairs the ledger answers for
  owed,       \* pairs recorded as still to be delivered
  done        \* pairs delivered at least once

ledgerVars == <<covered, owed, done>>

NothingForgotten == covered \subseteq done \union owed

Init ==
  /\ covered \subseteq Pairs
  /\ owed \subseteq Pairs
  /\ done = {}
  /\ NothingForgotten

\* A handler completes a block.  It may have completed it before.
Deliver ==
  /\ \E p \in Pairs : done' = done \union {p}
  /\ UNCHANGED <<covered, owed>>

\* The ledger is replaced; a pair it answers for is not forgotten.
Commit ==
  /\ covered' \subseteq Pairs
  /\ owed' \subseteq Pairs
  /\ NothingForgotten'
  /\ UNCHANGED done

Next == Deliver \/ Commit

Spec == Init /\ [][Next]_ledgerVars
=============================================================================
