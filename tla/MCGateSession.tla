---------------------------- MODULE MCGateSession ----------------------------
(* Small instances of GateSession. *)
EXTENDS GateSession

CONSTANTS c1, c2

TwoCalls == {c1, c2}

\* Every request has a callId of its own, as PROTOCOL.md asks.
UniqueIds == [c \in Calls |-> c]
=============================================================================
