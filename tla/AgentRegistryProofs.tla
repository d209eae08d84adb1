------------------------ MODULE AgentRegistryProofs ------------------------
(***************************************************************************)
(* Proofs about AgentRegistry, for any connections, requests and buffers.  *)
(***************************************************************************)
EXTENDS AgentRegistry, FiniteSetTheorems, TLAPS

(* Types *)

\* Whoever is about to close a send channel has closed the done channel.
Closing ==
    /\ \A c \in Conns : hpc[c] = "closeSend" => c \in closed
    /\ \A c \in WSConns : wpc[c] = "closeSend" => c \in closed

Typed == RegistryTypes /\ ConnTypes /\ SubTypes /\ Closing

LEMMA TypedInit == ASSUME Init PROVE Typed
<1> USE RegistryAssumption
<1>1. RegistryTypes
    BY DEF Init, RegistryTypes
<1>2. ConnTypes
    BY DEF Init, ConnTypes, HandlerPC, PumpPC
<1>3. SubTypes
    BY DEF Init, SubTypes, SubPC, RegistryTypes
<1>4. Closing
    BY DEF Init, Closing, Conns
<1> QED
    BY <1>1, <1>2, <1>3, <1>4 DEF Typed

\* Steps of handlers and pumps keep the types.
LEMMA TypedHandler ==
    ASSUME Typed, NEW c \in Conns, Arrive(c) \/ Handler(c) \/ Write(c) \/ Close(c)
    PROVE  Typed'
<1> USE DEF Typed, RegistryTypes, ConnTypes, SubTypes, Closing, registryVars, connVars, handlerVars, subVars
<1>1. ASSUME RegisterAgent(c), UNCHANGED <<connVars, out, inbox, afterCancel, published>>
      PROVE  Typed'
    BY <1>1 DEF RegisterAgent, CancelledContexts, HandlerPC, PumpPC, SubPC, Conns
<1>2. CASE HandleWebSocket(c)
    BY <1>1, <1>2 DEF HandleWebSocket
<1>3. CASE c \in SSEConns /\ HandleSSE(c)
    BY <1>3 DEF HandleSSE, HandlerPC
<1>4. CASE RegisterSSE(c)
    BY <1>1, <1>4 DEF RegisterSSE
<1>5. CASE CloseSend(c)
    BY <1>5 DEF CloseSend, HandlerPC
<1>6. CASE UnregisterAgent(c)
    BY <1>6 DEF UnregisterAgent, CancelledContexts, HandlerPC
<1>7. CASE Write(c)
    BY <1>7, RegistryAssumption DEF Write
<1>8. CASE Close(c)
    BY <1>8 DEF Close, MarkClosed, HandlerPC
<1> QED
    BY <1>2, <1>3, <1>4, <1>5, <1>6, <1>7, <1>8 DEF Arrive, Handler

\* So do those of write pumps and of the sessions that publish.
LEMMA TypedPump ==
    ASSUME Typed, Publish \/ \E c \in WSConns : PumpClose(c) \/ PumpCloseSend(c)
    PROVE  Typed'
<1> USE DEF Typed, RegistryTypes, ConnTypes, SubTypes, Closing, registryVars, connVars, handlerVars, subVars
<1>1. CASE Publish
    BY <1>1, RegistryAssumption DEF Publish
<1>2. ASSUME NEW c \in WSConns, PumpClose(c) PROVE Typed'
    BY <1>2 DEF PumpClose, MarkClosed, PumpPC, Conns
<1>3. ASSUME NEW c \in WSConns, PumpCloseSend(c) PROVE Typed'
    BY <1>3 DEF PumpCloseSend, PumpPC, Conns
<1> QED
    BY <1>1, <1>2, <1>3

\* And those of subscriptions.
LEMMA TypedSubscription ==
    ASSUME Typed, NEW c \in Conns, Subscription(c)
    PROVE  Typed'
<1> USE DEF Typed, RegistryTypes, ConnTypes, SubTypes, Closing, registryVars, connVars, handlerVars, subVars
<1>1. CASE Subscribe(c)
    BY <1>1 DEF Subscribe, SubPC
<1>2. CASE LoopTop(c)
    BY <1>2 DEF LoopTop, SubPC
<1>3. CASE Receive(c)
    BY <1>3 DEF Receive, SubPC
<1>4. CASE ReceiveError(c)
    BY <1>4 DEF ReceiveError, SubPC
<1>5. CASE CheckClosed(c)
    BY <1>5 DEF CheckClosed, SendReturns, SubPC
<1>6. CASE WSSend(c)
    BY <1>6, RegistryAssumption DEF WSSend, SendReturns, SubPC
<1>7. CASE SSESend(c)
    BY <1>7, RegistryAssumption DEF SSESend, SendReturns, SubPC
<1>8. CASE SSEGiveUp(c)
    BY <1>8 DEF SSEGiveUp, SendReturns, SubPC
<1> QED
    BY <1>1, <1>2, <1>3, <1>4, <1>5, <1>6, <1>7, <1>8 DEF Subscription, Send

LEMMA TypedStep == ASSUME Typed, [Next]_vars PROVE Typed'
<1>1. CASE UNCHANGED vars
    BY <1>1 DEF Typed, RegistryTypes, ConnTypes, SubTypes, Closing, vars, registryVars, connVars,
                handlerVars, subVars
<1>2. CASE Next
    BY <1>2, TypedHandler, TypedPump, TypedSubscription DEF Next, Step
<1> QED
    BY <1>1, <1>2

\* The process has panicked or it has not, whatever happens.
LEMMA PanickedStep == ASSUME panicked \in BOOLEAN, [Next]_vars PROVE panicked' \in BOOLEAN
<1>1. ASSUME NEW c \in Conns, Arrive(c) \/ Handler(c) \/ Write(c) \/ Close(c)
      PROVE  UNCHANGED panicked
    BY <1>1, Zenon DEF Arrive, Handler, HandleWebSocket, HandleSSE, RegisterSSE, CloseSend,
                UnregisterAgent, Write, Close
<1>2. ASSUME NEW c \in Conns, Subscription(c) PROVE panicked' \in BOOLEAN
  <2>1. CASE WSSend(c)
    <3>1. panicked' = (c \in sendClosed)
      BY <2>1 DEF WSSend
    <3>2. (c \in sendClosed) \in BOOLEAN
      OBVIOUS
    <3> QED
      BY <3>1, <3>2
  <2>2. CASE SSESend(c)
    <3>1. panicked' = (c \in sendClosed)
      BY <2>2 DEF SSESend
    <3>2. (c \in sendClosed) \in BOOLEAN
      OBVIOUS
    <3> QED
      BY <3>1, <3>2
  <2>3. CASE ~WSSend(c) /\ ~SSESend(c)
    BY <1>2, <2>3, Zenon DEF Subscription, Send, Subscribe, LoopTop, Receive, ReceiveError,
                CheckClosed, SSEGiveUp
  <2> QED
    BY <2>1, <2>2, <2>3
<1>3. ASSUME Publish \/ \E c \in WSConns : PumpClose(c) \/ PumpCloseSend(c)
      PROVE  UNCHANGED panicked
    BY <1>3, Zenon DEF Publish, PumpClose, PumpCloseSend
<1> QED
    BY <1>1, <1>2, <1>3, Zenon DEF Next, Step, vars

\* The state of the registry, of the connections and of the subscriptions is
\* always of its type, for any number of connections and any capacity.
THEOREM TypeCorrect == Spec => []TypeOK
<1>1. Init => Typed /\ panicked \in BOOLEAN
    BY TypedInit DEF Init
<1>2. Typed /\ panicked \in BOOLEAN /\ [Next]_vars => (Typed /\ panicked \in BOOLEAN)'
    BY TypedStep, PanickedStep
<1>3. Typed /\ panicked \in BOOLEAN => TypeOK
    BY DEF Typed, TypeOK
<1> QED
    BY <1>1, <1>2, <1>3, PTL DEF Spec

-----------------------------------------------------------------------------
(* Who is fed *)

Fed(c) == spc[c] \notin {"none", "ended"}

\* Only a registration gives a connection a subscription, and only the
\* registry's operations touch the registry.
LEMMA RegistryMoves ==
    ASSUME Typed, Next
    PROVE  \/ \E c \in Conns :
                 /\ hpc[c] \in {"none", "checked"} /\ ~AlreadyConnected
                 /\ cancelled' = cancelled \union CancelledContexts
                 /\ registered' = c /\ UNCHANGED late
                 /\ hpc' = [hpc EXCEPT ![c] = "serving"]
                 /\ spc' = [spc EXCEPT ![c] = "subscribe"]
           \/ \E c \in Conns : UnregisterAgent(c)
           \/ /\ UNCHANGED <<registered, cancelled, late>>
              /\ \A d \in Conns : Fed(d)' => Fed(d)
              /\ \A d \in Conns : hpc'[d] = "serving" => hpc[d] = "serving"
<1> USE DEF Typed, ConnTypes, SubTypes, registryVars, connVars, handlerVars, subVars, Fed
<1>1. ASSUME NEW c \in Conns, Arrive(c) \/ RegisterSSE(c)
      PROVE  \/ /\ hpc[c] \in {"none", "checked"} /\ ~AlreadyConnected
                /\ cancelled' = cancelled \union CancelledContexts
                /\ registered' = c /\ UNCHANGED late
                /\ hpc' = [hpc EXCEPT ![c] = "serving"]
                /\ spc' = [spc EXCEPT ![c] = "subscribe"]
             \/ /\ UNCHANGED <<registered, cancelled, late, spc>>
                /\ \A d \in Conns : hpc'[d] = "serving" => hpc[d] = "serving"
    BY <1>1 DEF Arrive, HandleWebSocket, HandleSSE, RegisterSSE, RegisterAgent
<1>2. ASSUME NEW c \in Conns, Write(c) \/ Close(c) \/ CloseSend(c)
      PROVE  /\ UNCHANGED <<registered, cancelled, late, spc>>
             /\ \A d \in Conns : hpc'[d] = "serving" => hpc[d] = "serving"
    BY <1>2 DEF Write, Close, CloseSend
<1>3. ASSUME NEW c \in Conns, Subscription(c)
      PROVE  /\ UNCHANGED <<registered, cancelled, late, hpc>>
             /\ \A d \in Conns : Fed(d)' => Fed(d)
  <2>1. CASE Subscribe(c) \/ LoopTop(c) \/ Receive(c) \/ ReceiveError(c)
    BY <2>1 DEF Subscribe, LoopTop, Receive, ReceiveError
  <2>2. CASE Send(c)
    BY <2>2 DEF Send, CheckClosed, WSSend, SSESend, SSEGiveUp, SendReturns
  <2> QED
    BY <1>3, <2>1, <2>2 DEF Subscription
<1>4. ASSUME Publish \/ \E c \in WSConns : PumpClose(c) \/ PumpCloseSend(c)
      PROVE  UNCHANGED <<registered, cancelled, late, hpc, spc>>
    BY <1>4 DEF Publish, PumpClose, PumpCloseSend
<1> QED
    BY <1>1, <1>2, <1>3, <1>4, Zenon DEF Next, Step, Handler

LEMMA FedStep == ASSUME Typed, FedIsRegistered, [Next]_vars PROVE FedIsRegistered'
<1> USE DEF FedIsRegistered
<1>1. CASE UNCHANGED vars
    BY <1>1 DEF vars, registryVars, subVars
<1>2. ASSUME NEW c \in Conns, UnregisterAgent(c) PROVE FedIsRegistered'
    BY <1>2, RegistryAssumption DEF UnregisterAgent, CancelledContexts, subVars, Conns
<1>3. ASSUME NEW c \in Conns,
             cancelled' = cancelled \union CancelledContexts, registered' = c,
             spc' = [spc EXCEPT ![c] = "subscribe"]
      PROVE  FedIsRegistered'
    BY <1>3, RegistryAssumption DEF CancelledContexts, Conns, Typed, SubTypes
<1>4. ASSUME UNCHANGED <<registered, cancelled>>, \A d \in Conns : Fed(d)' => Fed(d)
      PROVE  FedIsRegistered'
    BY <1>4 DEF Fed
<1> QED
    BY <1>1, <1>2, <1>3, <1>4, RegistryMoves

\* Only the registered connection of an agent is fed from its channel, however
\* many connections replace and remove one another.
THEOREM OnlyRegisteredIsFed == Spec => []FedIsRegistered
<1>1. Init => Typed /\ FedIsRegistered
    BY TypedInit DEF Init, FedIsRegistered
<1>2. Typed /\ FedIsRegistered /\ [Next]_vars => (Typed /\ FedIsRegistered)'
    BY TypedStep, FedStep
<1> QED
    BY <1>1, <1>2, PTL DEF Spec

-----------------------------------------------------------------------------
(* What a cancelled subscription still does *)

\* A subscription that took a request after its cancellation cannot be waiting
\* for another one: the top of the loop ends it.
Spent ==
    \A c \in Conns :
        /\ afterCancel[c] <= 1
        /\ afterCancel[c] = 1 => c \in cancelled /\ spc[c] # "receive"

LEMMA SpentStep == ASSUME Typed, Spent, [Next]_vars PROVE Spent'
<1> USE DEF Spent, Typed, SubTypes
<1>1. ASSUME UNCHANGED afterCancel, \A d \in Conns : d \in cancelled => d \in cancelled',
             \A d \in Conns : spc'[d] = "receive" => spc[d] = "receive"
      PROVE  Spent'
    BY <1>1
<1>2. ASSUME NEW c \in Conns, Arrive(c) \/ Handler(c) \/ Write(c) \/ Close(c) PROVE Spent'
    BY <1>1, <1>2 DEF Arrive, Handler, HandleWebSocket, HandleSSE, RegisterSSE, RegisterAgent,
        CloseSend, UnregisterAgent, Write, Close, registryVars, subVars
<1>3. ASSUME Publish \/ \E c \in WSConns : PumpClose(c) \/ PumpCloseSend(c) PROVE Spent'
    BY <1>1, <1>3 DEF Publish, PumpClose, PumpCloseSend, registryVars, subVars
<1>4. ASSUME NEW c \in Conns, Subscription(c) PROVE Spent'
  <2>1. CASE LoopTop(c)
    BY <2>1 DEF LoopTop, SeesCancel, registryVars
  <2>2. CASE Receive(c)
    BY <2>2 DEF Receive, registryVars
  <2>3. CASE Subscribe(c) \/ ReceiveError(c)
    BY <1>1, <2>3 DEF Subscribe, ReceiveError, registryVars
  <2>4. CASE Send(c)
    BY <1>1, <2>4 DEF Send, CheckClosed, WSSend, SSESend, SSEGiveUp, SendReturns, registryVars
  <2> QED
    BY <1>4, <2>1, <2>2, <2>3, <2>4 DEF Subscription
<1>5. CASE UNCHANGED vars
    BY <1>1, <1>5 DEF vars, registryVars, subVars
<1> QED
    BY <1>2, <1>3, <1>4, <1>5 DEF Next, Step

\* A subscription takes at most one request after it was cancelled, for any
\* number of requests.
THEOREM CancelledIsSpent == Spec => []AtMostOneAfterCancel
<1>1. Init => Typed /\ Spent
  <2>1. Init => Spent
    BY DEF Init, Spent
  <2> QED
    BY <2>1, TypedInit
<1>2. Typed /\ Spent /\ [Next]_vars => (Typed /\ Spent)'
    BY TypedStep, SpentStep
<1>3. Spent => AtMostOneAfterCancel
    BY DEF Spent, AtMostOneAfterCancel
<1> QED
    BY <1>1, <1>2, <1>3, PTL DEF Spec

-----------------------------------------------------------------------------
(* Connections that lost their registration *)

\* An SSE connection is online from before it is registered until it is closed.
ServedIsOnline == \A c \in SSEConns : hpc[c] \in {"checked", "serving"} => c \in online

LEMMA ServedStep == ASSUME Typed, ServedIsOnline, [Next]_vars PROVE ServedIsOnline'
<1> USE DEF ServedIsOnline, Typed, ConnTypes, connVars, handlerVars, Conns
<1>1. ASSUME NEW c \in Conns, Arrive(c) \/ RegisterSSE(c) PROVE ServedIsOnline'
    BY <1>1, RegistryAssumption DEF Arrive, HandleWebSocket, HandleSSE, RegisterSSE, RegisterAgent
<1>2. ASSUME NEW c \in Conns, Write(c) \/ Close(c) \/ CloseSend(c) \/ UnregisterAgent(c)
      PROVE  ServedIsOnline'
    BY <1>2 DEF Write, Close, CloseSend, UnregisterAgent
<1>3. ASSUME NEW c \in Conns, Subscription(c) PROVE ServedIsOnline'
    BY <1>3 DEF Subscription, Send, Subscribe, LoopTop, Receive, ReceiveError, CheckClosed,
        WSSend, SSESend, SSEGiveUp
<1>4. ASSUME Publish \/ \E c \in WSConns : PumpClose(c) \/ PumpCloseSend(c)
      PROVE  ServedIsOnline'
    BY <1>4 DEF Publish, PumpClose, PumpCloseSend
<1>5. CASE UNCHANGED vars
    BY <1>5 DEF vars
<1> QED
    BY <1>1, <1>2, <1>3, <1>4, <1>5 DEF Next, Step, Handler

\* The orphans are finitely many, and taking one in adds at most one.
LEMMA OrphansFinite == IsFiniteSet(Orphans) /\ Cardinality(Orphans) \in Nat
<1>1. IsFiniteSet(Orphans)
    BY RegistryAssumption, FS_Subset, Orphans \subseteq SSEConns DEF Orphans
<1> QED
    BY <1>1, FS_CardinalityType

LEMMA OrphansStep ==
    ASSUME Typed, ServedIsOnline, OrphansAreAccounted, [Next]_vars
    PROVE  OrphansAreAccounted'
<1> USE DEF OrphansAreAccounted
<1> HIDE DEF Orphans
<1>1. ASSUME Orphans' \subseteq Orphans, UNCHANGED late PROVE OrphansAreAccounted'
  <2>1. Cardinality(Orphans') <= Cardinality(Orphans)
    BY <1>1, OrphansFinite, FS_Subset
  <2> QED
    BY <1>1, <2>1, OrphansFinite, FS_Subset, FS_CardinalityType DEF Typed, RegistryTypes
<1>2. ASSUME NEW r, Orphans' \subseteq Orphans \union {r}, late' = late + 1
      PROVE  OrphansAreAccounted'
  <2>1. Cardinality(Orphans \union {r}) <= Cardinality(Orphans) + 1 /\ IsFiniteSet(Orphans \union {r})
    BY OrphansFinite, FS_AddElement
  <2>2. Cardinality(Orphans') <= Cardinality(Orphans \union {r}) /\ Cardinality(Orphans') \in Nat
    BY <1>2, <2>1, FS_Subset, FS_CardinalityType
  <2> QED
    BY <1>2, <2>1, <2>2, OrphansFinite, FS_CardinalityType DEF Typed, RegistryTypes
<1>3. ASSUME NEW c \in Conns, UnregisterAgent(c) PROVE OrphansAreAccounted'
  <2>1. CASE registered \in {c, None}
    <3>1. Orphans' \subseteq Orphans
      BY <1>3, <2>1, RegistryAssumption DEF UnregisterAgent, Orphans, Typed, ConnTypes, Conns
    <3> QED
      BY <1>1, <1>3, <2>1, <3>1 DEF UnregisterAgent
  <2>2. CASE registered \notin {c, None}
    <3>1. Orphans' \subseteq Orphans \union {registered}
      BY <1>3 DEF UnregisterAgent, Orphans, Typed, ConnTypes, Conns
    <3> QED
      BY <1>2, <1>3, <2>2, <3>1 DEF UnregisterAgent
  <2> QED
    BY <2>1, <2>2
<1>4. ASSUME NEW c \in Conns, ~AlreadyConnected, registered' = c, UNCHANGED late,
             hpc' = [hpc EXCEPT ![c] = "serving"]
      PROVE  OrphansAreAccounted'
  <2>1. Orphans' \subseteq Orphans
    BY <1>4 DEF Orphans, ServedIsOnline, AlreadyConnected, Typed, ConnTypes, Conns
  <2> QED
    BY <1>1, <1>4, <2>1
<1>5. ASSUME UNCHANGED <<registered, late>>,
             \A d \in Conns : hpc'[d] = "serving" => hpc[d] = "serving"
      PROVE  OrphansAreAccounted'
  <2>1. Orphans' \subseteq Orphans
    BY <1>5 DEF Orphans, Conns
  <2> QED
    BY <1>1, <1>5, <2>1
<1>6. CASE UNCHANGED vars
    BY <1>5, <1>6 DEF vars, registryVars, handlerVars
<1> QED
    BY <1>3, <1>4, <1>5, <1>6, RegistryMoves

\* An SSE connection that is served without being registered lost its
\* registration to the unregistration of another one, for any connections.
THEOREM OrphansHaveACause == Spec => []OrphansAreAccounted
<1>1. Init => Typed /\ ServedIsOnline /\ OrphansAreAccounted
  <2> SUFFICES ASSUME Init PROVE Typed /\ ServedIsOnline /\ OrphansAreAccounted
    OBVIOUS
  <2>1. Orphans = {}
    BY DEF Init, Orphans, Conns
  <2>2. ServedIsOnline
    BY DEF Init, ServedIsOnline, Conns
  <2>3. OrphansAreAccounted
    BY <2>1, FS_EmptySet DEF Init, OrphansAreAccounted
  <2> QED
    BY <2>2, <2>3, TypedInit
<1>2. Typed /\ ServedIsOnline /\ OrphansAreAccounted /\ [Next]_vars
          => (Typed /\ ServedIsOnline /\ OrphansAreAccounted)'
    BY TypedStep, ServedStep, OrphansStep
<1> QED
    BY <1>1, <1>2, PTL DEF Spec

=============================================================================
