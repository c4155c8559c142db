-------------------------- MODULE MCBridgeSession --------------------------
\* Two calls that create handles and two that open streams, as far as the
\* Calls of the .cfg go.
EXTENDS BridgeSession, TLC

CONSTANTS h1, h2, s1, s2

MCKind == [c \in Calls |-> IF c \in {s1, s2} THEN "stream" ELSE "handle"]
=============================================================================
