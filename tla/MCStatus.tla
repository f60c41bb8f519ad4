------------------------------ MODULE MCStatus ------------------------------
(* Instances of StatusPropagation for TLC. *)
EXTENDS StatusPropagation, TLC

CONSTANTS c1, p1, p2, s1, s2, u1, u2, n1, n2   \* clients ... connections

OneClient == [p \in Projects |-> c1]

\* A contract or a fabric subscription, without flags at first, next to an
\* address subscription, which has both set.
TwoKinds == [s \in Subs |-> IF s = s1 THEN "address" ELSE "contract"]
WithFabric == [s \in Subs |-> IF s = s1 THEN "address" ELSE "fabric"]
OfOneProject == [s \in Subs |-> p1]

\* A setup with a private connection for the first project.
OneSetup == [u \in Setups |->
  IF u = u1 THEN [project |-> p1, conn |-> n1, on |-> TRUE] ELSE None]
Symmetry == Permutations(Callers)

NoSetups == [u \in Setups |-> None]
=============================================================================
