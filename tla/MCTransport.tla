---------------------------- MODULE MCTransport ----------------------------
(* An instance of ManagedTransport for TLC. *)
EXTENDS ManagedTransport

CONSTANTS a, p   \* a public connection and a private one

\* As with Ethereum, whose transports share one id.
OneType == [c \in Connections |-> "ethers"]

NobodyOrPrivate == {None, p}
StartsWithPublic == <<a>>
=============================================================================
