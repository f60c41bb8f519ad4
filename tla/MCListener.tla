----------------------------- MODULE MCListener -----------------------------
(* Instances of BlockchainListener for TLC. *)
EXTENDS BlockchainListener, TLC

\* Processes are interchangeable.
Symmetry == Permutations(Workers)

\* crashed is never read by an action; a run whose properties do not speak of
\* it need not tell states apart by it.
WithoutHistory == <<tip, job, pc, copy, top, fetching, running, rejected, done>>
=============================================================================
