----------------------------- MODULE MCServices -----------------------------
(* One instance of every component of Services for TLC. *)
EXTENDS Services, TLC

CONSTANTS n, m, s, t, p, q, c

\* Two subscriptions of one kind, or of two, at one connection or at two.
At(kind1, kind2, home1, home2) == <<s :> kind1 @@ t :> kind2, s :> home1 @@ t :> home2>>
SomeMixes == {At("fabric", "transaction", n, n), At("contract", "oraclize", n, n),
              At("address", "address", n, m)}

TwoProjects == s :> p @@ t :> q
OneClient == p :> c @@ q :> c

\* The project of s has the id of a client, the project of t has not.
OneIsAClient == s :> c @@ t :> p
=============================================================================
