--------------------------- MODULE WebSocketRelay ---------------------------
(***************************************************************************)
(* The WebSocket proxy of the gateway                                      *)
(* (src/Bitcoin_Sprint_fastapi/fastapi-gateway/main.py): ws_proxy.connect  *)
(* accepts the client, registers it in active_connections and increments  *)
(* ACTIVE_CONNECTIONS, opens a stream to the backend's /ws URL with httpx, *)
(* and in its finally deregisters the client and decrements the gauge.     *)
(*                                                                         *)
(* The /ws route (websocket_endpoint) is not modelled: its dependency      *)
(* authenticate_request takes a Request, which FastAPI does not supply on  *)
(* a WebSocket route, so the route raises before it calls connect().  The *)
(* module is the contract of connect() for a caller that reaches it.      *)
(*                                                                         *)
(* Each connection is a coroutine; its steps are the stretches between    *)
(* awaits (accept, the stream request, send_text, the relay stub).        *)
(***************************************************************************)
EXTENDS Naturals, FiniteSets

CONSTANTS
    Conns,          \* WebSocket clients that connect
    BackendScheme,  \* the scheme of settings.backend_url
    BackendAnswers  \* what the backend may do with the stream request:
                    \* "upgrade" (101), "refuse" (another code), "fail"

ASSUME RelayAssumption ==
    /\ IsFiniteSet(Conns)
    /\ BackendScheme \in {"http", "https", "HTTP"}
    /\ BackendAnswers \subseteq {"upgrade", "refuse", "fail"}
    /\ BackendAnswers # {}

\* The stages of connect(): before accept, waiting on the stream request,
\* in the relay, sending the error frame, in the finally, and ended.
Stages == {"init", "opening", "relaying", "notifying", "closing", "closed"}

VARIABLES
    st,        \* the stage of each connection's coroutine
    active,    \* ws_proxy.active_connections
    gauge,     \* the ACTIVE_CONNECTIONS gauge
    accepted   \* ghost: connections whose accept() returned

vars == <<st, active, gauge, accepted>>

-----------------------------------------------------------------------------

\* settings.backend_url.replace("http", "ws"): case-sensitive, so "https"
\* becomes "wss" and an upper-case "HTTP" is left as it is.
WsScheme(s) ==
    CASE s = "http"  -> "ws"
      [] s = "https" -> "wss"
      [] OTHER       -> s

\* The schemes httpx can send a request to (it lower-cases the scheme);
\* any other raises httpx.UnsupportedProtocol before anything is sent.
HttpxSends(s) == s \in {"http", "https", "HTTP"}

Init ==
    /\ st = [c \in Conns |-> "init"]
    /\ active = {}
    /\ gauge = 0
    /\ accepted = {}

\* Mutant: the accept moved inside the try, so a client gone before the
\* accept runs the finally and decrements a gauge it never incremented.
AcceptInsideTry(c) ==
    /\ st[c] = "init"
    /\ \/ /\ st' = [st EXCEPT ![c] = "opening"]
          /\ active' = active \cup {c}
          /\ gauge' = gauge + 1
          /\ accepted' = accepted \cup {c}
       \/ /\ st' = [st EXCEPT ![c] = "closing"]
          /\ UNCHANGED <<active, gauge, accepted>>

\* await websocket.accept(); active_connections.append; gauge.inc().  The
\* accept raises when the client is already gone: outside the try, so
\* connect() ends with nothing registered.
Accept(c) ==
    /\ st[c] = "init"
    /\ \/ /\ st' = [st EXCEPT ![c] = "opening"]
          /\ active' = active \cup {c}
          /\ gauge' = gauge + 1
          /\ accepted' = accepted \cup {c}
       \/ /\ st' = [st EXCEPT ![c] = "closed"]
          /\ UNCHANGED <<active, gauge, accepted>>

\* Mutant: a stream exception leaves connect() without its cleanup (the
\* deregistration written in the except branches instead of a finally,
\* one of them forgotten).
AfterStreamErrorSkip == "closed"

\* except WebSocketDisconnect / except Exception: logged, then the finally.
AfterStreamError == "closing"

\* async with client.stream("GET", backend_ws_url, ...): a 101 enters the
\* relay, another code goes to the error frame, an exception (the scheme
\* httpx cannot send to, or a transport error) goes to the finally.
Open(c) ==
    /\ st[c] = "opening"
    /\ \/ /\ ~HttpxSends(WsScheme(BackendScheme))
          /\ st' = [st EXCEPT ![c] = AfterStreamError]
       \/ /\ HttpxSends(WsScheme(BackendScheme))
          /\ \E a \in BackendAnswers :
               \/ a = "upgrade" /\ st' = [st EXCEPT ![c] = "relaying"]
               \/ a = "refuse" /\ st' = [st EXCEPT ![c] = "notifying"]
               \/ a = "fail" /\ st' = [st EXCEPT ![c] = AfterStreamError]
    /\ UNCHANGED <<active, gauge, accepted>>

\* await self._handle_websocket_communication(...): the stub returns at
\* once, and the async with blocks exit.
Relay(c) ==
    /\ st[c] = "relaying"
    /\ st' = [st EXCEPT ![c] = "closing"]
    /\ UNCHANGED <<active, gauge, accepted>>

\* await websocket.send_text("WebSocket upgrade failed"); return.  A client
\* that is gone makes send_text raise WebSocketDisconnect, which is caught:
\* either way the finally runs next.
Notify(c) ==
    /\ st[c] = "notifying"
    /\ st' = [st EXCEPT ![c] = "closing"]
    /\ UNCHANGED <<active, gauge, accepted>>

\* finally: remove the client if registered; ACTIVE_CONNECTIONS.dec().
Cleanup(c) ==
    /\ st[c] = "closing"
    /\ st' = [st EXCEPT ![c] = "closed"]
    /\ active' = active \ {c}
    /\ gauge' = gauge - 1
    /\ UNCHANGED accepted

Step(c) == Accept(c) \/ Open(c) \/ Relay(c) \/ Notify(c) \/ Cleanup(c)

Next == \E c \in Conns : Step(c)

\* The event loop resumes every ready coroutine; accept, the stream request
\* and send_text all return or raise.
Spec == Init /\ [][Next]_vars /\ \A c \in Conns : WF_vars(Step(c))

-----------------------------------------------------------------------------
(* Properties.                                                             *)

\* Every variable holds a value of its kind.
TypeOK ==
    /\ st \in [Conns -> Stages]
    /\ active \subseteq Conns
    /\ gauge \in 0..Cardinality(Conns)
    /\ accepted \subseteq Conns

\* Spec 7: the active-connection gauge counts exactly the registered
\* clients, however the concurrent connect() calls interleave and on
\* whichever path (accept failure, refused upgrade, stream exception,
\* relay end) each one leaves.
GaugeMatchesRegistry == gauge = Cardinality(active)

\* Spec 4.4: every accepted client is eventually deregistered from the
\* gauge, whatever the backend does.
ClientEventuallyReleased ==
    \A c \in Conns : (c \in active) ~> (c \notin active /\ st[c] = "closed")

=============================================================================
