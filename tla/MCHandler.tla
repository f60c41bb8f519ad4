----------------------------- MODULE MCHandler -----------------------------
(* Instances of BlockchainListenerHandler for TLC. *)
EXTENDS BlockchainListenerHandler, TLC

CONSTANTS s1, s2, x, y   \* subscriptions, branches

Match(s, o, h, b) == [sub |-> s, out |-> o, at |-> h, hash |-> b]

\* One subscription waiting for two confirmations; block 0 of branch x
\* holds two outputs for it.
TwoForOne == {Match(s1, 1, 0, x), Match(s1, 2, 0, x)}
WaitTwo == [s \in Subs |-> 2]

\* Two subscriptions with a match in the same block.
OneBlock == {Match(s1, 1, 0, x), Match(s2, 1, 0, x)}

WaitOneAndTwo == [s \in Subs |-> IF s = s1 THEN 1 ELSE 2]

Symmetry == Permutations(Execs)

\* threw is never read by an action; a run whose properties do not speak of
\* it need not tell states apart by it.
WithoutHistory == <<kind, tip, chain, rechecks, webhooks, exec, passed, answered, orphaned>>
=============================================================================
