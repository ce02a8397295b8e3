------------------------- MODULE RegistryAbstract -------------------------
(***************************************************************************)
(* What the gateway's WebSocket endpoint promises about its registry and  *)
(* the ACTIVE_CONNECTIONS gauge (spec 4.4 and 7), with no sockets, no     *)
(* backend and no awaits: a client is registered at most once, released   *)
(* at most once after that, and the count moves with every registration   *)
(* and every release, never on its own.  WebSocketRelay implements it:    *)
(* WebSocketRelayProofs gives the refinement mapping.                     *)
(***************************************************************************)
EXTENDS Naturals

CONSTANT Clients    \* the clients that may connect

VARIABLES
    registered,     \* the clients registered now
    released,       \* the clients registered once and released since
    count           \* the published number of registered clients

rvars == <<registered, released, count>>

Init ==
    /\ registered = {}
    /\ released = {}
    /\ count = 0

\* A client that was never registered is registered and counted.
Register(c) ==
    /\ c \notin registered \cup released
    /\ registered' = registered \cup {c}
    /\ released' = released
    /\ count' = count + 1

\* A registered client is released and no longer counted.
Release(c) ==
    /\ c \in registered
    /\ registered' = registered \ {c}
    /\ released' = released \cup {c}
    /\ count' = count - 1

Next == \E c \in Clients : Register(c) \/ Release(c)

Spec == Init /\ [][Next]_rvars

=============================================================================
