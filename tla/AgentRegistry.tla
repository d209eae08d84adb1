--------------------------- MODULE AgentRegistry ---------------------------
(***************************************************************************)
(* How one agent is connected: the registry of the bridge (RegisterAgent,  *)
(* UnregisterAgent), the subscription to the agent's Redis channel that a  *)
(* registration starts, and the WebSocket and SSE connections with their   *)
(* send channels, run by the goroutines that really share them:            *)
(*   - the HTTP handler of each connection, which registers it, serves it  *)
(*     (readPump, or Run) and unregisters the agent;                       *)
(*   - the write pump of each WebSocket;                                   *)
(*   - the subscription goroutine of each registration;                    *)
(*   - the voice sessions, which publish requests to the agent.            *)
(* Agents do not share an entry of the registry, so there is one of them.  *)
(* Redis is external: it broadcasts to whoever is subscribed, in order.    *)
(* Nothing here depends on what a request says, so channels are counted.    *)
(* A send on a closed channel ends the process.                            *)
(***************************************************************************)
EXTENDS Naturals, FiniteSets

CONSTANTS WSConns, SSEConns,  \* connections the agent makes, by transport
          None,               \* no connection
          MaxRequests,        \* messages published to the agent
          SendBuffer          \* capacity of a send channel

ASSUME RegistryAssumption ==
    /\ IsFiniteSet(SSEConns)
    /\ WSConns \intersect SSEConns = {}
    /\ None \notin WSConns \union SSEConns
    /\ MaxRequests \in Nat
    /\ SendBuffer \in Nat \ {0}

Conns == WSConns \union SSEConns

HandlerPC == {"none", "checked", "serving", "closeSend", "unregister", "gone"}
PumpPC    == {"none", "serving", "closeSend", "gone"}
SubPC     == {"none", "subscribe", "loop", "receive", "send", "checked", "ended"}

VARIABLES
    registered,  \* Bridge.agentConns and agentCancels of the agent, which are
                 \* always written together
    cancelled,   \* connections whose subscription context was cancelled
    online,      \* SSEAgentConn.connected; no code sets it for a WebSocket
    closed,      \* connections whose done channel was closed
    sendClosed,  \* connections whose send channel was closed
    out,         \* messages in the send channel of each connection
    hpc,         \* where the handler of each connection is
    wpc,         \* where the write pump of each WebSocket is
    spc,         \* where the subscription of each connection is
    inbox,       \* messages Redis has for it
    published,   \* requests published so far
    panicked,    \* a send on a closed channel ended the process
    late,        \* unregistrations that hit another connection (history)
    afterCancel  \* requests a subscription took after its context was
                 \* cancelled (history)

registryVars == <<registered, cancelled, late>>
connVars     == <<online, closed, sendClosed>>
handlerVars  == <<hpc, wpc>>
subVars      == <<spc, inbox, afterCancel>>
vars == <<registryVars, connVars, out, handlerVars, subVars, published, panicked>>

-----------------------------------------------------------------------------
(* The registry *)

\* Mutant: a second connection of the agent is always accepted.
NeverTaken == FALSE

\* Whether RegisterAgent answers ErrAgentAlreadyConnected, and the SSE handler
\* a conflict before it.
AlreadyConnected == registered \in online

\* Mutant: the subscription of the connection that is replaced goes on.
KeepSubscription == {}

\* The contexts a registration or an unregistration cancels.
CancelledContexts == {registered} \ {None}

\* RegisterAgent by the handler of c, and what the handler starts once accepted.
RegisterAgent(c) ==
    IF AlreadyConnected
    THEN /\ hpc' = [hpc EXCEPT ![c] = "gone"]
         /\ UNCHANGED <<registryVars, wpc, spc>>
    ELSE /\ cancelled' = cancelled \union CancelledContexts
         /\ registered' = c
         /\ hpc' = [hpc EXCEPT ![c] = "serving"]
         /\ wpc' = IF c \in WSConns THEN [wpc EXCEPT ![c] = "serving"] ELSE wpc
         /\ spc' = [spc EXCEPT ![c] = "subscribe"]
         /\ UNCHANGED late

\* Whatever connection is registered is removed, not only the caller's.
UnregisterAgent(c) ==
    /\ hpc[c] = "unregister"
    /\ cancelled' = cancelled \union CancelledContexts
    /\ registered' = None
    /\ late' = IF registered \in {c, None} THEN late ELSE late + 1
    /\ hpc' = [hpc EXCEPT ![c] = "gone"]
    /\ UNCHANGED <<connVars, out, wpc, subVars, published, panicked>>

-----------------------------------------------------------------------------
(* The handlers *)

HandleWebSocket(c) ==
    /\ hpc[c] = "none"
    /\ RegisterAgent(c)
    /\ UNCHANGED <<connVars, out, inbox, afterCancel, published, panicked>>

\* handleSSE asks whether the agent is online before it makes the connection...
HandleSSE(c) ==
    /\ hpc[c] = "none"
    /\ IF AlreadyConnected
       THEN hpc' = [hpc EXCEPT ![c] = "gone"] /\ UNCHANGED online
       ELSE hpc' = [hpc EXCEPT ![c] = "checked"] /\ online' = online \union {c}
    /\ UNCHANGED <<registryVars, closed, sendClosed, out, wpc, subVars, published, panicked>>

\* ... and registers it in a second critical section.
RegisterSSE(c) ==
    /\ hpc[c] = "checked"
    /\ RegisterAgent(c)
    /\ UNCHANGED <<connVars, out, inbox, afterCancel, published, panicked>>

\* The write loop of Run, or of writePump, sends a message to the agent.
Write(c) ==
    /\ IF c \in WSConns THEN wpc[c] = "serving" ELSE hpc[c] = "serving"
    /\ out[c] > 0
    /\ out' = [out EXCEPT ![c] = @ - 1]
    /\ UNCHANGED <<registryVars, connVars, handlerVars, subVars, published, panicked>>

\* The connections that are closed once c is.
MarkClosed(c) == closed \union {c}

\* readPump or Run ends (the agent left, an error, or the connection is closed)
\* and calls Close, here up to the done channel; the second Close of a WebSocket
\* returns at once.
Close(c) ==
    /\ hpc[c] = "serving"
    /\ closed' = MarkClosed(c)
    /\ online' = online \ {c}
    /\ hpc' = [hpc EXCEPT ![c] = IF c \in closed THEN "unregister" ELSE "closeSend"]
    /\ UNCHANGED <<registryVars, sendClosed, out, wpc, subVars, published, panicked>>

CloseSend(c) ==
    /\ hpc[c] = "closeSend"
    /\ sendClosed' = sendClosed \union {c}
    /\ hpc' = [hpc EXCEPT ![c] = "unregister"]
    /\ UNCHANGED <<registryVars, online, closed, out, wpc, subVars, published, panicked>>

\* The write pump of a WebSocket ends by itself and closes it too.
PumpClose(c) ==
    /\ wpc[c] = "serving"
    /\ closed' = MarkClosed(c)
    /\ wpc' = [wpc EXCEPT ![c] = IF c \in closed THEN "gone" ELSE "closeSend"]
    /\ UNCHANGED <<registryVars, online, sendClosed, out, hpc, subVars, published, panicked>>

PumpCloseSend(c) ==
    /\ wpc[c] = "closeSend"
    /\ sendClosed' = sendClosed \union {c}
    /\ wpc' = [wpc EXCEPT ![c] = "gone"]
    /\ UNCHANGED <<registryVars, online, closed, out, hpc, subVars, published, panicked>>

-----------------------------------------------------------------------------
(* Redis and the subscriptions *)

\* A session publishes a request or a cancellation.
Publish ==
    /\ published < MaxRequests
    /\ published' = published + 1
    /\ inbox' = [c \in Conns |->
                   IF spc[c] \in {"none", "subscribe", "ended"} THEN inbox[c]
                   ELSE inbox[c] + 1]
    /\ UNCHANGED <<registryVars, connVars, out, handlerVars, spc, afterCancel, panicked>>

Subscribe(c) ==
    /\ spc[c] = "subscribe"
    /\ spc' = [spc EXCEPT ![c] = "loop"]
    /\ UNCHANGED <<registryVars, connVars, out, handlerVars, inbox, afterCancel,
                   published, panicked>>

\* Mutant: the loop does not look at the context.
NeverCancelled(c) == FALSE

\* The select at the top of the loop finds the context cancelled.
SeesCancel(c) == c \in cancelled

\* pubsub.Close drops what Redis still had.
LoopTop(c) ==
    /\ spc[c] = "loop"
    /\ spc' = [spc EXCEPT ![c] = IF SeesCancel(c) THEN "ended" ELSE "receive"]
    /\ inbox' = IF SeesCancel(c) THEN [inbox EXCEPT ![c] = 0] ELSE inbox
    /\ UNCHANGED <<registryVars, connVars, out, handlerVars, afterCancel, published,
                   panicked>>

\* ReceiveMessage may return a message although its context is cancelled.
Receive(c) ==
    /\ spc[c] = "receive"
    /\ inbox[c] > 0
    /\ inbox' = [inbox EXCEPT ![c] = @ - 1]
    /\ spc' = [spc EXCEPT ![c] = "send"]
    /\ afterCancel' = IF c \in cancelled THEN [afterCancel EXCEPT ![c] = @ + 1]
                      ELSE afterCancel
    /\ UNCHANGED <<registryVars, connVars, out, handlerVars, published, panicked>>

\* An error of Redis, or of the context, ends the subscription for good.
ReceiveError(c) ==
    /\ spc[c] = "receive"
    /\ spc' = [spc EXCEPT ![c] = "ended"]
    /\ inbox' = [inbox EXCEPT ![c] = 0]
    /\ UNCHANGED <<registryVars, connVars, out, handlerVars, afterCancel, published,
                   panicked>>

\* The subscription is back in its loop.
SendReturns(c) == spc' = [spc EXCEPT ![c] = "loop"]

\* WSAgentConnection.Send looks at the closed flag under the lock ...
CheckClosed(c) ==
    /\ c \in WSConns
    /\ spc[c] = "send"
    /\ IF c \in closed THEN SendReturns(c) ELSE spc' = [spc EXCEPT ![c] = "checked"]
    /\ UNCHANGED <<registryVars, connVars, out, handlerVars, inbox, afterCancel, published,
                   panicked>>

\* ... and sends without it: a full channel drops the message.
WSSend(c) ==
    /\ spc[c] = "checked"
    /\ SendReturns(c)
    /\ panicked' = (c \in sendClosed)
    /\ out' = IF out[c] < SendBuffer /\ c \notin sendClosed
              THEN [out EXCEPT ![c] = @ + 1] ELSE out
    /\ UNCHANGED <<registryVars, connVars, handlerVars, inbox, afterCancel, published>>

\* SSEAgentConn.Send waits for room in the channel ...
SSESend(c) ==
    /\ c \in SSEConns
    /\ spc[c] = "send"
    /\ out[c] < SendBuffer \/ c \in sendClosed
    /\ SendReturns(c)
    /\ panicked' = (c \in sendClosed)
    /\ out' = IF c \notin sendClosed THEN [out EXCEPT ![c] = @ + 1] ELSE out
    /\ UNCHANGED <<registryVars, connVars, handlerVars, inbox, afterCancel, published>>

\* ... or for its context or the done channel.
SSEGiveUp(c) ==
    /\ c \in SSEConns
    /\ spc[c] = "send"
    /\ c \in cancelled \union closed
    /\ SendReturns(c)
    /\ UNCHANGED <<registryVars, connVars, out, handlerVars, inbox, afterCancel, published,
                   panicked>>

-----------------------------------------------------------------------------
Init ==
    /\ registered = None
    /\ cancelled = {}
    /\ late = 0
    /\ online = {}
    /\ closed = {}
    /\ sendClosed = {}
    /\ out = [c \in Conns |-> 0]
    /\ hpc = [c \in Conns |-> "none"]
    /\ wpc = [c \in WSConns |-> "none"]
    /\ spc = [c \in Conns |-> "none"]
    /\ inbox = [c \in Conns |-> 0]
    /\ afterCancel = [c \in Conns |-> 0]
    /\ published = 0
    /\ panicked = FALSE

Arrive(c) == (c \in WSConns /\ HandleWebSocket(c)) \/ (c \in SSEConns /\ HandleSSE(c))

Handler(c) == RegisterSSE(c) \/ CloseSend(c) \/ UnregisterAgent(c)

Send(c) == CheckClosed(c) \/ WSSend(c) \/ SSESend(c) \/ SSEGiveUp(c)

Subscription(c) ==
    Subscribe(c) \/ LoopTop(c) \/ Receive(c) \/ ReceiveError(c) \/ Send(c)

Step ==
    \/ \E c \in Conns :
          Arrive(c) \/ Handler(c) \/ Write(c) \/ Close(c) \/ Subscription(c)
    \/ \E c \in WSConns : PumpClose(c) \/ PumpCloseSend(c)
    \/ Publish

Next == ~panicked /\ Step

Spec == Init /\ [][Next]_vars

-----------------------------------------------------------------------------
(* Properties *)

RegistryTypes ==
    /\ registered \in Conns \union {None}
    /\ cancelled \in SUBSET Conns
    /\ late \in Nat
    /\ published \in 0..MaxRequests

ConnTypes ==
    /\ online \in SUBSET SSEConns
    /\ closed \in SUBSET Conns
    /\ sendClosed \in SUBSET closed
    /\ hpc \in [Conns -> HandlerPC]
    /\ wpc \in [WSConns -> PumpPC]

SubTypes ==
    /\ spc \in [Conns -> SubPC]
    /\ inbox \in [Conns -> 0..published]
    /\ out \in [Conns -> 0..SendBuffer]
    /\ afterCancel \in [Conns -> Nat]

\* Only SSE connections are online, a send channel respects its capacity and is
\* closed after the done channel of its connection.
TypeOK == panicked \in BOOLEAN /\ RegistryTypes /\ ConnTypes /\ SubTypes

\* A subscription that can still go on receiving is that of the registered
\* connection: however connections of an agent replace and remove one another,
\* no two of them are fed from the agent's channel, and what is not registered
\* is not fed.
FedIsRegistered ==
    \A c \in Conns : spc[c] \notin {"none", "ended"} /\ c \notin cancelled => registered = c

\* A subscription takes at most one request after its context was cancelled,
\* although ReceiveMessage does not look at the context while it waits.
AtMostOneAfterCancel == \A c \in Conns : afterCancel[c] <= 1

\* SSE connections that are served and not registered.
Orphans == {c \in SSEConns : hpc[c] = "serving" /\ registered # c}

\* The agent is connected once: an SSE connection loses its registration while
\* it is served only to the unregistration of another connection, so without
\* one of those no second connection is accepted beside it, the check and the
\* registration being two critical sections notwithstanding.
OrphansAreAccounted == Cardinality(Orphans) <= late

=============================================================================
