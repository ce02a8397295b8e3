------------------------- MODULE WebSocketRelayProofs -------------------------
(***************************************************************************)
(* Proofs about the WebSocket relay: the ACTIVE_CONNECTIONS gauge counts  *)
(* the registered clients, for any number of concurrent connections.      *)
(***************************************************************************)
EXTENDS WebSocketRelay, FiniteSetTheorems, TLAPS

USE RelayAssumption

\* The stages between a successful accept and the end of the finally.
Registered == {"opening", "relaying", "notifying", "closing"}

\* The inductive invariant: the registry holds exactly the connections in
\* a registered stage, the gauge is its size, and a client once accepted
\* never runs connect() from its start again.
WInv ==
    /\ TypeOK
    /\ active = {c \in Conns : st[c] \in Registered}
    /\ gauge = Cardinality(active)
    /\ active \subseteq accepted
    /\ \A c \in accepted : st[c] # "init"

LEMMA ActiveFinite ==
    ASSUME WInv PROVE IsFiniteSet(active) /\ Cardinality(active) \in Nat
<1>1. IsFiniteSet(active)
  BY FS_Subset DEF WInv, TypeOK
<1>2. QED
  BY <1>1, FS_CardinalityType

LEMMA InitWInv == Init => WInv
<1> SUFFICES ASSUME Init PROVE WInv
  OBVIOUS
<1>1. active = {} /\ gauge = 0
  BY DEF Init
<1>2. Cardinality(Conns) \in Nat
  BY FS_CardinalityType
<1>3. active = {c \in Conns : st[c] \in Registered}
  BY DEF Init, Registered
<1>4. QED
  BY <1>1, <1>2, <1>3, FS_EmptySet DEF Init, WInv, TypeOK, Stages

\* The gauge stays within 0..Cardinality(Conns) because it is the size of
\* a subset of Conns.
LEMMA GaugeBounded ==
    ASSUME NEW S, S \subseteq Conns, NEW g, g = Cardinality(S)
    PROVE  g \in 0..Cardinality(Conns)
BY FS_Subset, FS_CardinalityType

LEMMA NextWInv == WInv /\ [Next]_vars => WInv'
<1> SUFFICES ASSUME WInv, [Next]_vars PROVE WInv'
  OBVIOUS
<1>0. IsFiniteSet(active) /\ Cardinality(active) \in Nat
  BY ActiveFinite
<1>1. ASSUME NEW c \in Conns, Accept(c) PROVE WInv'
  <2>1. c \notin active
    BY <1>1 DEF Accept, WInv, Registered
  <2>2. CASE /\ st' = [st EXCEPT ![c] = "opening"]
             /\ active' = active \cup {c}
             /\ gauge' = gauge + 1
             /\ accepted' = accepted \cup {c}
    <3>1. active' = {x \in Conns : st'[x] \in Registered}
      BY <2>2 DEF WInv, TypeOK, Registered
    <3>2. gauge' = Cardinality(active')
      BY <1>0, <2>1, <2>2, FS_AddElement DEF WInv
    <3>3. TypeOK'
      BY <1>1, <2>2, <3>2, GaugeBounded DEF Accept, WInv, TypeOK, Stages
    <3>4. active' \subseteq accepted'
      BY <2>2 DEF WInv
    <3>5. \A x \in accepted' : st'[x] # "init"
      BY <2>2 DEF WInv, TypeOK
    <3>6. QED
      BY <3>1, <3>2, <3>3, <3>4, <3>5 DEF WInv
  <2>3. CASE /\ st' = [st EXCEPT ![c] = "closed"]
             /\ UNCHANGED <<active, gauge, accepted>>
    <3>1. active' = {x \in Conns : st'[x] \in Registered}
      BY <1>1, <2>3 DEF Accept, WInv, TypeOK, Registered
    <3>2. QED
      BY <1>1, <2>3, <3>1 DEF Accept, WInv, TypeOK, Stages
  <2>4. QED
    BY <1>1, <2>2, <2>3 DEF Accept
<1>2. ASSUME NEW c \in Conns, Open(c) PROVE WInv'
  <2>1. /\ st[c] = "opening"
        /\ st'[c] \in Registered
        /\ st' = [st EXCEPT ![c] = st'[c]]
        /\ UNCHANGED <<active, gauge, accepted>>
    BY <1>2 DEF Open, AfterStreamError, Registered, WInv, TypeOK
  <2>2. c \in accepted
    <3>1. c \in active
      BY <2>1 DEF WInv, Registered
    <3>2. QED
      BY <3>1 DEF WInv
  <2>3. QED
    BY <2>1, <2>2 DEF WInv, TypeOK, Registered, Stages
<1>3. ASSUME NEW c \in Conns, Relay(c) PROVE WInv'
  BY <1>3 DEF Relay, WInv, TypeOK, Registered, Stages
<1>4. ASSUME NEW c \in Conns, Notify(c) PROVE WInv'
  BY <1>4 DEF Notify, WInv, TypeOK, Registered, Stages
<1>5. ASSUME NEW c \in Conns, Cleanup(c) PROVE WInv'
  <2>1. c \in active
    BY <1>5 DEF Cleanup, WInv, Registered
  <2>2. active' = {x \in Conns : st'[x] \in Registered}
    BY <1>5 DEF Cleanup, WInv, TypeOK, Registered
  <2>3. gauge' = Cardinality(active')
    BY <1>0, <1>5, <2>1, FS_RemoveElement DEF Cleanup, WInv
  <2>4. TypeOK'
    BY <1>5, <2>3, GaugeBounded DEF Cleanup, WInv, TypeOK, Stages
  <2>5. active' \subseteq accepted'
    BY <1>5 DEF Cleanup, WInv
  <2>6. \A x \in accepted' : st'[x] # "init"
    BY <1>5 DEF Cleanup, WInv, TypeOK
  <2>7. QED
    BY <2>2, <2>3, <2>4, <2>5, <2>6 DEF WInv
<1>6. CASE UNCHANGED vars
  BY <1>6 DEF vars, WInv, TypeOK
<1>7. QED
  BY <1>1, <1>2, <1>3, <1>4, <1>5, <1>6 DEF Next, Step

\* For any number of concurrent clients, active_connections holds exactly
\* the clients between their accept and the end of their finally, none of
\* them unaccepted, and ACTIVE_CONNECTIONS is its size.
THEOREM WInvHolds == Spec => []WInv
BY InitWInv, NextWInv, PTL DEF Spec

\* The stages, the registry, the ghosts and the gauge of the relay stay in
\* range for any number of concurrent clients: in particular the gauge
\* never goes below 0 nor above the number of clients.
THEOREM RelayTypeCorrect == Spec => []TypeOK
BY WInvHolds, PTL DEF WInv

\* However the connect() coroutines of concurrent clients interleave and
\* whichever path each leaves by, ACTIVE_CONNECTIONS equals the number of
\* clients in ws_proxy.active_connections.
THEOREM GaugeMatchesRegistryHolds == Spec => []GaugeMatchesRegistry
BY WInvHolds, PTL DEF WInv, GaugeMatchesRegistry

-----------------------------------------------------------------------------
(* Refinement: the relay implements RegistryAbstract.  The registry is     *)
(* active_connections, the released clients are the accepted ones no       *)
(* longer in it, and the count is the ACTIVE_CONNECTIONS gauge.            *)

Reg == INSTANCE RegistryAbstract
         WITH Clients <- Conns, registered <- active,
              released <- accepted \ active, count <- gauge

\* However concurrent connect() calls interleave and whichever path each
\* leaves by, every change of active_connections and of ACTIVE_CONNECTIONS
\* is the registration of a client never registered before, or the release
\* of a registered one, the gauge moving with it by one.
RegistryRefinement == Reg!Spec

LEMMA InitRefines == Init => Reg!Init
BY DEF Init, Reg!Init

LEMMA NextRefines == WInv /\ [Next]_vars => [Reg!Next]_Reg!rvars
<1> SUFFICES ASSUME WInv, [Next]_vars PROVE [Reg!Next]_Reg!rvars
  OBVIOUS
<1>1. ASSUME NEW c \in Conns, Accept(c) PROVE [Reg!Next]_Reg!rvars
  <2>1. c \notin accepted
    BY <1>1 DEF Accept, WInv
  <2>2. CASE /\ st' = [st EXCEPT ![c] = "opening"]
             /\ active' = active \cup {c}
             /\ gauge' = gauge + 1
             /\ accepted' = accepted \cup {c}
    <3>1. Reg!Register(c)
      BY <2>1, <2>2 DEF Reg!Register, WInv
    <3>2. QED
      BY <3>1 DEF Reg!Next
  <2>3. CASE UNCHANGED <<active, gauge, accepted>>
    BY <2>3 DEF Reg!rvars
  <2>4. QED
    BY <1>1, <2>2, <2>3 DEF Accept
<1>2. ASSUME NEW c \in Conns, Cleanup(c) PROVE [Reg!Next]_Reg!rvars
  <2>1. c \in active /\ c \in accepted
    BY <1>2 DEF Cleanup, WInv, Registered
  <2>2. Reg!Release(c)
    BY <1>2, <2>1 DEF Cleanup, Reg!Release
  <2>3. QED
    BY <2>2 DEF Reg!Next
<1>3. ASSUME NEW c \in Conns, Open(c) \/ Relay(c) \/ Notify(c)
      PROVE  UNCHANGED Reg!rvars
  BY <1>3 DEF Open, Relay, Notify, Reg!rvars
<1>4. CASE UNCHANGED vars
  BY <1>4 DEF vars, Reg!rvars
<1>5. QED
  BY <1>1, <1>2, <1>3, <1>4 DEF Next, Step

\* The relay implements the abstract registry: whatever the backend does,
\* no client is counted twice, released without having been registered or
\* registered again after its release, and the gauge never moves alone.
THEOREM RelayRefinesRegistry == Spec => RegistryRefinement
<1>1. Spec => []WInv
  BY WInvHolds
<1>2. QED
  BY <1>1, InitRefines, NextRefines, PTL DEF Spec, RegistryRefinement, Reg!Spec

=============================================================================
