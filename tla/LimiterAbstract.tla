-------------------------- MODULE LimiterAbstract --------------------------
(***************************************************************************)
(* What the gateway's rate limiter promises (spec 5: "a fixed time window *)
(* counter" per principal and tier), with no Redis, no requests and no    *)
(* awaits: each principal has a window that opens, admits at most its     *)
(* limit of requests, and closes, after which the count starts over.      *)
(* Gateway implements it: LimiterProofs gives the refinement mapping.     *)
(***************************************************************************)
EXTENDS Naturals

CONSTANTS
    Users,      \* the principals
    UserLimit   \* UserLimit[p]: requests p may be admitted in one window

VARIABLES
    window,     \* window[p]: "open" or "closed"
    used        \* used[p]: requests of p admitted in its open window

lvars == <<window, used>>

Init ==
    /\ window = [p \in Users |-> "closed"]
    /\ used = [p \in Users |-> 0]

\* A window of p opens, with nothing admitted yet.
Open(p) ==
    /\ window[p] = "closed"
    /\ window' = [window EXCEPT ![p] = "open"]
    /\ UNCHANGED used

\* One more request of p is admitted in its open window, within the limit.
Admit(p) ==
    /\ window[p] = "open"
    /\ used[p] < UserLimit[p]
    /\ used' = [used EXCEPT ![p] = @ + 1]
    /\ UNCHANGED window

\* The windows of the principals in S end at the same moment.
Close(S) ==
    /\ \A p \in S : window[p] = "open"
    /\ window' = [p \in Users |-> IF p \in S THEN "closed" ELSE window[p]]
    /\ used' = [p \in Users |-> IF p \in S THEN 0 ELSE used[p]]

Next ==
    \/ \E p \in Users : Open(p) \/ Admit(p)
    \/ \E S \in SUBSET Users : Close(S)

Spec == Init /\ [][Next]_lvars

=============================================================================
