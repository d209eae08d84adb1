--------------------------- MODULE RealtimeProofs ---------------------------
(***************************************************************************)
(* Proofs about what a call brings to the server: OutputWorker, for any    *)
(* sets of streams and workers, any channel capacity and any number of     *)
(* frames and flushes; RealtimeCall, for any calls of any users; Vision,   *)
(* for any sessions.  The three share no name: each is proved from its own *)
(* specification.                                                          *)
(***************************************************************************)
EXTENDS OutputWorker, RealtimeCall, Vision, FiniteSetTheorems, TLAPS

-----------------------------------------------------------------------------
(* Type correctness *)

\* A stream that passed SendAudio's test has a frame to send, and drain only
\* receives zero values from a closed channel.
Typed ==
    /\ TypeOK
    /\ \A t \in Streams : spc[t] = "checked" => left[t] > 0
    /\ \A w \in Workers : wpc[w] = "drainSpin" => closed
    /\ fpc = "drainSpin" => closed

LEMMA TypedInit == Init => Typed
<1> SUFFICES ASSUME Init PROVE Typed
  OBVIOUS
<1> USE OutputAssumption DEF Init
<1>1. FlagTypes
  BY DEF FlagTypes
<1>2. ChannelTypes /\ CountTypes
  BY DEF ChannelTypes, CountTypes
<1>3. StreamTypes /\ WorkerTypes /\ CallerTypes
  BY DEF StreamTypes, WorkerTypes, CallerTypes, StreamPC, WorkerPC, FlusherPC
<1> QED
  BY <1>1, <1>2, <1>3 DEF Typed, TypeOK

\* decrementPending keeps the counter natural and only moves waiting streams.
LEMMA TypedDecrement ==
  ASSUME Typed, DecrementPending, UNCHANGED <<stopId, left>>
  PROVE  /\ CountTypes' /\ StreamTypes'
         /\ \A t \in Streams : spc'[t] = "checked" => left'[t] > 0
<1>1. CountTypes'
  BY DEF Typed, TypeOK, CountTypes, DecrementPending, Decremented
<1>2. spc' \in [Streams -> StreamPC] /\ \A t \in Streams : spc'[t] = "checked" => spc[t] = "checked"
  BY DEF Typed, TypeOK, StreamTypes, StreamPC, DecrementPending
<1> QED
  BY <1>1, <1>2 DEF Typed, TypeOK, StreamTypes

LEMMA TypedStream ==
  ASSUME Typed, NEW t \in Streams, Stream(t)
  PROVE  Typed'
<1> USE OutputAssumption DEF Typed, TypeOK, Stream, SendAudio, Enqueue, CountFrame,
        FinishSending, WaitForDrain
<1>1. ChannelTypes'
  BY DEF ChannelTypes, chanVars
<1>2. CountTypes'
  BY DEF CountTypes, countVars
<1>3. StreamTypes' /\ \A u \in Streams : spc'[u] = "checked" => left'[u] > 0
  BY DEF StreamTypes, StreamPC
<1>4. UNCHANGED <<workerVars, loopVars, closed, cpc, flagVars>>
  BY DEF chanVars, closeVars
<1>5. FlagTypes'
  BY <1>4 DEF FlagTypes, closeVars, flagVars
<1> QED
  BY <1>1, <1>2, <1>3, <1>4, <1>5 DEF WorkerTypes, CallerTypes, workerVars, loopVars

LEMMA TypedWorker ==
  ASSUME Typed, NEW w \in Workers, Worker(w)
  PROVE  Typed'
<1> USE OutputAssumption DEF Typed, TypeOK, Worker, Load, SelectStop, SelectFrame,
        SelectClosed, Play, Played, WorkerDrain, WorkerDrained, CompareAndSwap
<1>1. UNCHANGED <<closed, flagVars, loopVars, closeVars>>
  BY DEF chanVars
<1>2. FlagTypes' /\ CallerTypes'
  BY <1>1 DEF FlagTypes, CallerTypes, flagVars, loopVars, closeVars
<1>3. ChannelTypes'
  BY DEF ChannelTypes, chanVars, DrainLeaves
<1>4. /\ CountTypes' /\ StreamTypes'
      /\ \A t \in Streams : spc'[t] = "checked" => left'[t] > 0
  <2>1. CASE Played(w) \/ WorkerDrained(w)
    BY <2>1, TypedDecrement
  <2>2. CASE ~(Played(w) \/ WorkerDrained(w))
    BY <2>2 DEF CountTypes, StreamTypes, countVars, streamVars
  <2> QED
    BY <2>1, <2>2
<1>5. WorkerTypes' /\ \A v \in Workers : wpc'[v] = "drainSpin" => closed'
  <2>1. CASE SelectFrame(w)
    BY <1>1, <2>1 DEF WorkerTypes, WorkerPC, ChannelTypes
  <2>2. CASE WorkerDrain(w)
    BY <1>1, <2>2 DEF WorkerTypes, WorkerPC, DrainNext
  <2>3. CASE ~(SelectFrame(w) \/ WorkerDrain(w))
    BY <1>1, <2>3 DEF WorkerTypes, WorkerPC, NoFrame, CountTypes
  <2> QED
    BY <2>1, <2>2, <2>3
<1> QED
  BY <1>1, <1>2, <1>3, <1>4, <1>5 DEF loopVars

LEMMA TypedCaller ==
  ASSUME Typed, Flush \/ ReadLoop \/ ResumeOutput \/ Disconnect \/ Closer
  PROVE  Typed'
<1> USE OutputAssumption DEF Typed, TypeOK, Flush, ReadLoop, FlushDrain, FlushDrained, PauseOutput,
        ResumeOutput, Disconnect, Closer, Stop, Join
<1>1. FlagTypes' /\ (closed => closed')
  BY DEF FlagTypes, flagVars, chanVars, closeVars
<1>2. ChannelTypes'
  BY DEF ChannelTypes, chanVars, DrainLeaves
<1>3. UNCHANGED workerVars /\ WorkerTypes'
  BY DEF WorkerTypes, workerVars
<1>4. /\ CountTypes' /\ StreamTypes'
      /\ \A t \in Streams : spc'[t] = "checked" => left'[t] > 0
  <2>1. CASE FlushDrained
    BY <2>1, TypedDecrement
  <2>2. CASE ~FlushDrained
    BY <2>2 DEF CountTypes, StreamTypes, countVars, streamVars
  <2> QED
    BY <2>1, <2>2
<1>5. CallerTypes' /\ (fpc' = "drainSpin" => closed')
  BY DEF CallerTypes, FlusherPC, DrainNext, loopVars, closeVars, chanVars
<1> QED
  BY <1>1, <1>2, <1>3, <1>4, <1>5 DEF workerVars

\* The connection comes up: a worker that was not there begins its loop.
Connects == PeerConnected \/ \E w \in Workers : ChannelOpens(w)

LEMMA ConnectKeeps ==
  ASSUME Typed, Connects
  PROVE  /\ UNCHANGED <<chanVars, countVars, streamVars, loopVars, closeVars, stopId, hand, wstop>>
         /\ UNCHANGED <<paused, muted>> /\ connected' \in BOOLEAN
         /\ wpc' \in [Workers -> WorkerPC]
         /\ \A w \in Workers : wpc'[w] = wpc[w] \/ (wpc[w] = "new" /\ wpc'[w] = "load")
<1>1. wpc \in [Workers -> WorkerPC]
  BY DEF Typed, TypeOK, WorkerTypes
<1>2. CASE PeerConnected
  <2>1. /\ UNCHANGED <<chanVars, countVars, streamVars, loopVars, closeVars, stopId, hand, wstop>>
        /\ UNCHANGED <<paused, muted, wpc>> /\ connected' = TRUE
    BY <1>2 DEF PeerConnected, workerVars
  <2>2. connected' \in BOOLEAN
    BY <2>1
  <2>3. wpc' \in [Workers -> WorkerPC] /\ \A w \in Workers : wpc'[w] = wpc[w]
    BY <1>1, <2>1
  <2> QED
    BY <2>1, <2>2, <2>3
<1>3. CASE \E w \in Workers : ChannelOpens(w)
  <2>1. PICK w \in Workers : ChannelOpens(w)
    BY <1>3
  <2>2. /\ UNCHANGED <<chanVars, countVars, streamVars, loopVars, closeVars, stopId, hand, wstop>>
        /\ UNCHANGED <<paused, muted>> /\ connected' = TRUE
    BY <2>1 DEF ChannelOpens
  <2>3. wpc[w] = "new" /\ wpc' = [wpc EXCEPT ![w] = "load"]
    BY <2>1 DEF ChannelOpens
  <2>4. wpc' \in [Workers -> WorkerPC]
    BY <1>1, <2>3 DEF WorkerPC
  <2>5. \A v \in Workers : wpc'[v] = wpc[v] \/ (wpc[v] = "new" /\ wpc'[v] = "load")
    BY <1>1, <2>3
  <2>6. connected' \in BOOLEAN
    BY <2>2
  <2> QED
    BY <2>2, <2>4, <2>5, <2>6
<1> QED
  BY <1>2, <1>3 DEF Connects

LEMMA TypedConnect ==
  ASSUME Typed, Connects
  PROVE  Typed'
<1>1. FlagTypes' /\ ChannelTypes' /\ CountTypes' /\ StreamTypes' /\ WorkerTypes' /\ CallerTypes'
  BY ConnectKeeps DEF Typed, TypeOK, FlagTypes, ChannelTypes, CountTypes, StreamTypes, WorkerTypes,
     CallerTypes, chanVars, countVars, streamVars, loopVars, closeVars
<1>2. \A t \in Streams : spc'[t] = "checked" => left'[t] > 0
  BY ConnectKeeps DEF Typed, streamVars
<1>3. /\ \A w \in Workers : wpc'[w] = "drainSpin" => closed'
      /\ fpc' = "drainSpin" => closed'
  BY ConnectKeeps DEF Typed, chanVars, loopVars
<1> QED
  BY <1>1, <1>2, <1>3 DEF Typed, TypeOK

LEMMA TypedStep == Typed /\ [Next]_vars => Typed'
<1> SUFFICES ASSUME Typed, [Next]_vars PROVE Typed'
  OBVIOUS
<1>1. CASE UNCHANGED vars
  BY <1>1 DEF vars, Typed, TypeOK, FlagTypes, ChannelTypes, CountTypes, StreamTypes, WorkerTypes,
     CallerTypes, chanVars, countVars, flagVars, streamVars, workerVars, loopVars, closeVars
<1> QED
  BY <1>1, TypedStream, TypedWorker, TypedCaller, TypedConnect DEF Next, Connects

LEMMA TypedAlways == Spec => []Typed
  BY TypedInit, TypedStep, PTL DEF Spec

\* The channel never exceeds its capacity and the pending counter never goes
\* below zero.
THEOREM TypeCorrect == Spec => []TypeOK
<1>1. Typed => TypeOK
  BY DEF Typed
<1> QED
  BY <1>1, TypedAlways, PTL

-----------------------------------------------------------------------------
(* Accounting *)

LEMMA Counted ==
  /\ IsFiniteSet(Uncounted) /\ Cardinality(Uncounted) \in Nat
  /\ IsFiniteSet(WorkersOwing) /\ Cardinality(WorkersOwing) \in Nat
  BY OutputAssumption, FS_Subset, FS_CardinalityType DEF Uncounted, WorkersOwing

\* A decrement takes one off the counter, or is clamped and recorded; the
\* broadcast does not touch a stream between its send and its increment.
LEMMA DecrementBalance ==
  ASSUME Typed, DecrementPending, ~closed
  PROVE  /\ Uncounted' = Uncounted
         /\ \/ pending = pending' + 1 /\ clamped' = clamped
            \/ pending' = pending /\ clamped' = clamped + 1
<1>1. \/ pending = pending' + 1 /\ clamped' = clamped
      \/ pending' = pending /\ clamped' = clamped + 1
  BY DEF Typed, TypeOK, CountTypes, DecrementPending, Decremented
<1>2. Uncounted' = Uncounted
  BY DEF Typed, TypeOK, StreamTypes, DecrementPending, Uncounted
<1> QED
  BY <1>1, <1>2

LEMMA AccountingStream ==
  ASSUME Typed, Accounting, NEW t \in Streams, Stream(t)
  PROVE  Accounting'
<1> SUFFICES ASSUME ~closed'
             PROVE  pending' + Cardinality(Uncounted')
                      = Len(queue') + Cardinality(WorkersOwing') + FlusherOwes' + clamped'
  BY DEF Accounting
<1>1. /\ ~closed /\ WorkersOwing' = WorkersOwing /\ FlusherOwes' = FlusherOwes
      /\ UNCHANGED clamped
  BY DEF Stream, SendAudio, Enqueue, CountFrame, FinishSending, WaitForDrain, chanVars, countVars,
     workerVars, loopVars, WorkersOwing, FlusherOwes
<1>2. /\ pending \in Nat /\ clamped \in Nat /\ Len(queue) \in Nat /\ FlusherOwes \in Nat
      /\ pending + Cardinality(Uncounted)
            = Len(queue) + Cardinality(WorkersOwing) + FlusherOwes + clamped
  BY <1>1 DEF Typed, TypeOK, CountTypes, ChannelTypes, Accounting, FlusherOwes
<1>3. CASE Enqueue(t) /\ Len(queue) < BufferSize
  <2>1. t \notin Uncounted /\ Uncounted' = Uncounted \union {t}
    BY <1>1, <1>3 DEF Enqueue, Uncounted, Typed, TypeOK, StreamTypes
  <2>2. Cardinality(Uncounted') = Cardinality(Uncounted) + 1
    BY <2>1, Counted, FS_AddElement
  <2>3. Len(queue') = Len(queue) + 1 /\ UNCHANGED pending
    BY <1>1, <1>3 DEF Enqueue, countVars, Typed, TypeOK, ChannelTypes
  <2>4. Cardinality(WorkersOwing') = Cardinality(WorkersOwing)
    BY <1>1
  <2>5. Cardinality(Uncounted) \in Nat /\ Cardinality(WorkersOwing) \in Nat
    BY Counted
  <2>6. pending' + Cardinality(Uncounted') = (pending + Cardinality(Uncounted)) + 1
    BY <1>2, <2>2, <2>3, <2>5
  <2>7. Len(queue') + Cardinality(WorkersOwing') + FlusherOwes' + clamped'
          = (Len(queue) + Cardinality(WorkersOwing) + FlusherOwes + clamped) + 1
    BY <1>1, <1>2, <2>3, <2>4, <2>5
  <2> QED
    BY <1>2, <2>6, <2>7
<1>4. CASE CountFrame(t)
  <2>1. t \in Uncounted /\ Uncounted' = Uncounted \ {t}
    BY <1>4 DEF CountFrame, Uncounted, Typed, TypeOK, StreamTypes
  <2>2. Cardinality(Uncounted') = Cardinality(Uncounted) - 1
    BY <2>1, Counted, FS_RemoveElement
  <2>3. pending' = pending + 1 /\ UNCHANGED queue
    BY <1>4 DEF CountFrame, chanVars
  <2> QED
    BY <1>1, <1>2, <2>2, <2>3, Counted
<1>5. CASE ~(Enqueue(t) /\ Len(queue) < BufferSize) /\ ~CountFrame(t)
  <2>1. UNCHANGED <<queue, pending>>
    BY <1>5 DEF Stream, SendAudio, Enqueue, FinishSending, WaitForDrain, chanVars, countVars
  <2>2. Uncounted' = Uncounted
    BY <1>5 DEF Stream, SendAudio, Enqueue, FinishSending, WaitForDrain, Uncounted,
       Typed, TypeOK, StreamTypes
  <2> QED
    BY <1>1, <1>2, <2>1, <2>2
<1> QED
  BY <1>3, <1>4, <1>5

LEMMA AccountingWorker ==
  ASSUME Typed, Accounting, NEW w \in Workers, Worker(w)
  PROVE  Accounting'
<1> SUFFICES ASSUME ~closed'
             PROVE  pending' + Cardinality(Uncounted')
                      = Len(queue') + Cardinality(WorkersOwing') + FlusherOwes' + clamped'
  BY DEF Accounting
<1>1. ~closed /\ FlusherOwes' = FlusherOwes
  BY DEF Worker, Load, SelectStop, SelectFrame, SelectClosed, Play, Played, WorkerDrain,
     WorkerDrained, CompareAndSwap, chanVars, loopVars, FlusherOwes
<1>2. /\ pending \in Nat /\ clamped \in Nat /\ Len(queue) \in Nat /\ FlusherOwes \in Nat
      /\ pending + Cardinality(Uncounted)
            = Len(queue) + Cardinality(WorkersOwing) + FlusherOwes + clamped
  BY <1>1 DEF Typed, TypeOK, CountTypes, ChannelTypes, Accounting, FlusherOwes
<1>3. CASE SelectFrame(w) \/ (WorkerDrain(w) /\ queue # <<>>)
  <2>1. w \notin WorkersOwing /\ WorkersOwing' = WorkersOwing \union {w}
    BY <1>3 DEF SelectFrame, WorkerDrain, DrainNext, WorkersOwing, Typed, TypeOK, WorkerTypes
  <2>2. Cardinality(WorkersOwing') = Cardinality(WorkersOwing) + 1
    BY <2>1, Counted, FS_AddElement
  <2>3. Len(queue') = Len(queue) - 1
    BY <1>3 DEF SelectFrame, WorkerDrain, DrainLeaves, Typed, TypeOK, ChannelTypes
  <2>4. UNCHANGED <<pending, clamped>> /\ Uncounted' = Uncounted
    BY <1>3 DEF SelectFrame, WorkerDrain, countVars, streamVars, Uncounted
  <2> QED
    BY <1>1, <1>2, <2>2, <2>3, <2>4, Counted
<1>4. CASE Played(w) \/ WorkerDrained(w)
  <2>1. w \in WorkersOwing /\ WorkersOwing' = WorkersOwing \ {w}
    BY <1>1, <1>4 DEF Played, WorkerDrained, WorkersOwing, Typed, TypeOK, WorkerTypes
  <2>2. Cardinality(WorkersOwing') = Cardinality(WorkersOwing) - 1
    BY <2>1, Counted, FS_RemoveElement
  <2>3. UNCHANGED queue /\ DecrementPending
    BY <1>4 DEF Played, WorkerDrained, chanVars
  <2>4. pending' \in Nat /\ clamped' \in Nat
    BY TypedWorker DEF Typed, TypeOK, CountTypes
  <2>5. Uncounted' = Uncounted
    BY <1>1, <2>3, DecrementBalance
  <2>6. CASE pending = pending' + 1 /\ clamped' = clamped
    <3>1. pending' + Cardinality(Uncounted') + 1 = pending + Cardinality(Uncounted)
      BY <1>2, <2>4, <2>5, <2>6, Counted
    <3>2. Len(queue') = Len(queue) /\ Cardinality(WorkersOwing) \in Nat
      BY <2>3, Counted
    <3>3. (Len(queue') + Cardinality(WorkersOwing') + FlusherOwes' + clamped') + 1
            = Len(queue) + Cardinality(WorkersOwing) + FlusherOwes + clamped
      BY <1>1, <1>2, <2>2, <2>6, <3>2
    <3>4. pending' + Cardinality(Uncounted') \in Nat
      BY <2>4, <2>5, Counted
    <3>5. Cardinality(WorkersOwing') \in Nat
      BY OutputAssumption, FS_Subset, FS_CardinalityType DEF WorkersOwing
    <3>6. Len(queue') + Cardinality(WorkersOwing') + FlusherOwes' + clamped' \in Nat
      BY <1>1, <1>2, <2>4, <3>2, <3>5
    <3>7. (pending' + Cardinality(Uncounted')) + 1
            = (Len(queue') + Cardinality(WorkersOwing') + FlusherOwes' + clamped') + 1
      BY <1>2, <3>1, <3>3
    <3> QED
      BY <3>4, <3>6, <3>7
  <2>7. CASE pending' = pending /\ clamped' = clamped + 1
    <3>1. Len(queue') = Len(queue) /\ Cardinality(Uncounted') = Cardinality(Uncounted)
      BY <2>3, <2>5
    <3>2. Cardinality(WorkersOwing) \in Nat
      BY Counted
    <3>3. Len(queue) + Cardinality(WorkersOwing') + FlusherOwes' + clamped'
            = Len(queue) + Cardinality(WorkersOwing) + FlusherOwes + clamped
      BY <1>1, <1>2, <2>2, <2>7, <3>2
    <3> QED
      BY <1>2, <2>7, <3>1, <3>3
  <2> QED
    BY <1>1, <2>3, <2>6, <2>7, DecrementBalance
<1>5. CASE \/ Load(w) \/ SelectStop(w) \/ SelectClosed(w) \/ Play(w) \/ CompareAndSwap(w)
           \/ (WorkerDrain(w) /\ queue = <<>>)
  <2>1. UNCHANGED <<queue, pending, clamped>> /\ Uncounted' = Uncounted
    BY <1>5 DEF Load, SelectStop, SelectClosed, Play, CompareAndSwap, WorkerDrain, DrainLeaves,
       chanVars, countVars, streamVars, Uncounted
  <2>2. WorkersOwing' = WorkersOwing
    BY <1>1, <1>5 DEF Load, SelectStop, SelectClosed, Play, CompareAndSwap, WorkerDrain, DrainNext,
       WorkersOwing, Typed, TypeOK, WorkerTypes
  <2> QED
    BY <1>1, <1>2, <2>1, <2>2
<1> QED
  BY <1>3, <1>4, <1>5 DEF Worker

LEMMA AccountingCaller ==
  ASSUME Typed, Accounting, Flush \/ ReadLoop \/ ResumeOutput \/ Disconnect \/ Closer
  PROVE  Accounting'
<1> SUFFICES ASSUME ~closed'
             PROVE  pending' + Cardinality(Uncounted')
                      = Len(queue') + Cardinality(WorkersOwing') + FlusherOwes' + clamped'
  BY DEF Accounting
<1>1. ~closed /\ WorkersOwing' = WorkersOwing
  BY DEF Flush, ReadLoop, FlushDrain, FlushDrained, PauseOutput, ResumeOutput, Disconnect,
     Closer, Stop, Join, chanVars, workerVars, WorkersOwing
<1>2. /\ pending \in Nat /\ clamped \in Nat /\ Len(queue) \in Nat
      /\ pending + Cardinality(Uncounted)
            = Len(queue) + Cardinality(WorkersOwing) + FlusherOwes + clamped
  BY <1>1 DEF Typed, TypeOK, CountTypes, ChannelTypes, Accounting
<1>3. CASE FlushDrain
  <2>1. UNCHANGED <<pending, clamped>> /\ Uncounted' = Uncounted
    BY <1>3 DEF FlushDrain, countVars, streamVars, Uncounted
  <2>2. CASE queue = <<>>
    <3>1. UNCHANGED queue /\ FlusherOwes' = FlusherOwes
      BY <1>1, <1>3, <2>2 DEF FlushDrain, DrainNext, DrainLeaves, FlusherOwes
    <3> QED
      BY <1>1, <1>2, <2>1, <3>1
  <2>3. CASE queue # <<>>
    <3>1. Len(queue) = Len(queue') + 1 /\ Len(queue') \in Nat
      BY <1>3, <2>3 DEF FlushDrain, DrainLeaves, Typed, TypeOK, ChannelTypes
    <3>2. FlusherOwes' = 1 /\ FlusherOwes = 0
      BY <1>3, <2>3 DEF FlushDrain, DrainNext, FlusherOwes
    <3> QED
      BY <1>1, <1>2, <2>1, <3>1, <3>2, Counted
  <2> QED
    BY <2>2, <2>3
<1>4. CASE FlushDrained
  <2>1. UNCHANGED queue /\ DecrementPending /\ FlusherOwes = 1 /\ FlusherOwes' = 0
    BY <1>1, <1>4 DEF FlushDrained, chanVars, FlusherOwes, Typed
  <2>2. pending' \in Nat /\ clamped' \in Nat
    BY TypedCaller, <1>4 DEF ReadLoop, Typed, TypeOK, CountTypes
  <2>3. CASE pending = pending' + 1 /\ clamped' = clamped
    BY <1>1, <1>2, <2>1, <2>2, <2>3, Counted, DecrementBalance
  <2>4. CASE pending' = pending /\ clamped' = clamped + 1
    BY <1>1, <1>2, <2>1, <2>2, <2>4, Counted, DecrementBalance
  <2> QED
    BY <1>1, <2>1, <2>3, <2>4, DecrementBalance
<1>5. CASE Flush \/ PauseOutput \/ ResumeOutput \/ Disconnect \/ Closer
  <2>1. /\ UNCHANGED <<queue, pending, clamped>> /\ Uncounted' = Uncounted
        /\ FlusherOwes' = FlusherOwes
    BY <1>5 DEF Flush, PauseOutput, ResumeOutput, Disconnect, Closer, Stop, Join, chanVars,
       countVars, streamVars, loopVars, Uncounted, FlusherOwes
  <2> QED
    BY <1>1, <1>2, <2>1
<1> QED
  BY <1>3, <1>4, <1>5 DEF ReadLoop

\* For any number of streams and workers, while the channel is open the pending
\* counter exceeds the frames in the channel and in hand by exactly the clamped
\* decrements: it never undercounts a frame whose increment was made.
THEOREM AccountsAreExact == Spec => []Accounting
<1>1. Init => Accounting
  <2> SUFFICES ASSUME Init PROVE Accounting
    OBVIOUS
  <2>1. Uncounted = {} /\ WorkersOwing = {} /\ FlusherOwes = 0 /\ Len(queue) = 0
    BY DEF Init, Uncounted, WorkersOwing, FlusherOwes
  <2> QED
    BY <2>1, FS_EmptySet DEF Init, Accounting
<1>2. Typed /\ Accounting /\ [Next]_vars => Accounting'
  <2> SUFFICES ASSUME Typed, Accounting, [Next]_vars PROVE Accounting'
    OBVIOUS
  <2>1. CASE UNCHANGED vars
    BY <2>1 DEF vars, chanVars, countVars, streamVars, workerVars, loopVars, Accounting, Uncounted,
       WorkersOwing, FlusherOwes
  <2>2. CASE Connects
    <3>1. /\ UNCHANGED <<queue, closed, pending, clamped>> /\ Uncounted' = Uncounted
          /\ WorkersOwing' = WorkersOwing /\ FlusherOwes' = FlusherOwes
      BY <2>2, ConnectKeeps DEF chanVars, countVars, streamVars, loopVars, Uncounted,
         WorkersOwing, FlusherOwes
    <3> QED
      BY <3>1 DEF Accounting
  <2> QED
    BY <2>1, <2>2, AccountingStream, AccountingWorker, AccountingCaller DEF Next, Connects
<1> QED
  BY <1>1, <1>2, TypedAlways, PTL DEF Spec

-----------------------------------------------------------------------------
(* WaitForDrain *)

\* A worker has a frame in hand only between the receive and the write.
HandsEmpty == \A w \in Workers : wpc[w] # "got" => hand[w] = NoFrame

\* Once a stream has returned there is no frame left that it could have sent.
Gone ==
    ~closed => \A t \in Streams : spc[t] = "returned" =>
        queue = <<>> /\ \A w \in Workers : wpc[w] # "got"

DrainInv == Typed /\ Accounting /\ HandsEmpty /\ Gone

LEMMA HandsStep == ASSUME Typed, HandsEmpty, [Next]_vars PROVE HandsEmpty'
<1>1. ASSUME NEW w \in Workers, Worker(w) PROVE HandsEmpty'
  <2>1. CASE SelectFrame(w)
    BY <2>1 DEF SelectFrame, HandsEmpty, Typed, TypeOK, WorkerTypes
  <2>2. CASE Play(w)
    BY <2>2 DEF Play, HandsEmpty, Typed, TypeOK, WorkerTypes
  <2>3. CASE ~SelectFrame(w) /\ ~Play(w)
    <3>1. UNCHANGED hand /\ wpc[w] # "got" /\ \A v \in Workers \ {w} : wpc'[v] = wpc[v]
      BY <1>1, <2>3 DEF Worker, Load, SelectStop, SelectClosed, Played, WorkerDrain, WorkerDrained,
         CompareAndSwap, Typed, TypeOK, WorkerTypes
    <3> QED
      BY <3>1 DEF HandsEmpty
  <2> QED
    BY <2>1, <2>2, <2>3
<1>2. ASSUME UNCHANGED workerVars PROVE HandsEmpty'
  BY <1>2 DEF HandsEmpty, workerVars
<1>3. ASSUME NEW t \in Streams, Stream(t) PROVE HandsEmpty'
  BY <1>2, <1>3 DEF Stream, SendAudio, Enqueue, CountFrame, FinishSending, WaitForDrain
<1>4. CASE Flush \/ ReadLoop \/ ResumeOutput \/ Disconnect \/ Closer \/ UNCHANGED vars
  BY <1>2, <1>4 DEF Flush, ReadLoop, FlushDrain, FlushDrained, PauseOutput, ResumeOutput, Disconnect,
     Closer, Stop, Join, vars
<1>5. CASE Connects
  BY <1>5, ConnectKeeps DEF HandsEmpty
<1> QED
  BY <1>1, <1>3, <1>4, <1>5 DEF Next, Connects

\* A broadcast wakes streams and makes none return.
LEMMA NobodyReturns ==
  ASSUME Typed, DecrementPending, NEW t \in Streams, spc'[t] = "returned"
  PROVE  spc[t] = "returned"
  BY DEF Typed, TypeOK, StreamTypes, DecrementPending

\* When the only stream finds the counter at zero, every frame has been played
\* or thrown away: the counter never undercounts.
LEMMA ZeroMeansGone ==
  ASSUME Typed, Accounting, NEW t, Streams = {t}, spc[t] # "pushed", pending = 0, ~closed
  PROVE  queue = <<>> /\ \A w \in Workers : wpc[w] # "got"
<1>1. Uncounted = {}
  BY DEF Uncounted
<1>2. /\ Cardinality(Uncounted) = 0 /\ Cardinality(WorkersOwing) \in Nat
      /\ Len(queue) \in Nat /\ FlusherOwes \in Nat /\ clamped \in Nat
  BY <1>1, FS_EmptySet, Counted DEF FlusherOwes, Typed, TypeOK, ChannelTypes, CountTypes
<1>3. 0 + 0 = Len(queue) + Cardinality(WorkersOwing) + FlusherOwes + clamped
  BY <1>2 DEF Accounting
<1>4. Len(queue) = 0 /\ Cardinality(WorkersOwing) = 0
  BY <1>2, <1>3
<1>5. WorkersOwing = {}
  BY <1>4, Counted, FS_EmptySet
<1>6. queue = <<>>
  BY <1>4 DEF Typed, TypeOK, ChannelTypes
<1> QED
  BY <1>5, <1>6 DEF WorkersOwing

LEMMA GoneStep ==
  ASSUME NEW t, Streams = {t}, DrainInv, [Next]_vars
  PROVE  Gone'
<1> SUFFICES ASSUME ~closed', spc'[t] = "returned"
             PROVE  queue' = <<>> /\ \A w \in Workers : wpc'[w] # "got"
  BY DEF Gone
<1> USE DEF DrainInv
<1>1. ~closed
  BY DEF Next, Stream, SendAudio, Enqueue, CountFrame, FinishSending, WaitForDrain, Worker, Load,
     SelectStop, SelectFrame, SelectClosed, Play, Played, WorkerDrain, WorkerDrained, CompareAndSwap,
     Flush, ReadLoop, FlushDrain, FlushDrained, PauseOutput, ResumeOutput, Disconnect, Closer, Stop,
     Join, PeerConnected, ChannelOpens, vars, chanVars
<1>2. ASSUME spc[t] = "returned" PROVE queue = <<>> /\ \A w \in Workers : wpc[w] # "got"
  BY <1>1, <1>2 DEF Gone
<1>3. ASSUME Stream(t) PROVE queue' = <<>> /\ \A w \in Workers : wpc'[w] # "got"
  <2>1. WaitForDrain(t) /\ spc[t] # "pushed" /\ ~(pending > 0)
    BY <1>3 DEF Stream, SendAudio, Enqueue, CountFrame, FinishSending, WaitForDrain, StaysWaiting,
       Typed, TypeOK, StreamTypes
  <2>2. pending = 0
    BY <2>1 DEF Typed, TypeOK, CountTypes
  <2>3. UNCHANGED <<queue, wpc>>
    BY <2>1 DEF WaitForDrain, chanVars, workerVars
  <2> QED
    BY <1>1, <2>1, <2>2, <2>3, ZeroMeansGone
<1>4. ASSUME NEW w \in Workers, Worker(w) PROVE queue' = <<>> /\ \A v \in Workers : wpc'[v] # "got"
  <2>1. spc[t] = "returned"
    BY <1>4, NobodyReturns DEF Worker, Load, SelectStop, SelectFrame, SelectClosed, Play, Played,
       WorkerDrain, WorkerDrained, CompareAndSwap, streamVars
  <2>2. queue = <<>> /\ \A v \in Workers : wpc[v] # "got"
    BY <1>2, <2>1
  <2>3. queue' = <<>>
    BY <1>4, <2>2 DEF Worker, Load, SelectStop, SelectFrame, SelectClosed, Play, Played, WorkerDrain,
       WorkerDrained, CompareAndSwap, chanVars, DrainLeaves
  <2>4. \A v \in Workers : wpc'[v] # "got"
    BY <1>4, <2>2 DEF Worker, Load, SelectStop, SelectFrame, SelectClosed, Play, Played, WorkerDrain,
       WorkerDrained, CompareAndSwap, DrainNext, Typed, TypeOK, WorkerTypes
  <2> QED
    BY <2>3, <2>4
<1>5. CASE Flush \/ ReadLoop \/ ResumeOutput \/ Disconnect \/ Closer \/ UNCHANGED vars
  <2>1. spc[t] = "returned" /\ UNCHANGED wpc
    BY <1>5, NobodyReturns DEF Flush, ReadLoop, FlushDrain, FlushDrained, PauseOutput, ResumeOutput,
       Disconnect, Closer, Stop, Join, vars, streamVars, workerVars
  <2>2. queue = <<>> /\ \A w \in Workers : wpc[w] # "got"
    BY <1>2, <2>1
  <2>3. queue' = <<>>
    BY <1>5, <2>2 DEF Flush, ReadLoop, FlushDrain, FlushDrained, PauseOutput, ResumeOutput,
       Disconnect, Closer, Stop, Join, vars, chanVars, DrainLeaves
  <2> QED
    BY <2>1, <2>2, <2>3
<1>6. CASE Connects
  BY <1>2, <1>6, ConnectKeeps DEF chanVars, streamVars
<1> QED
  BY <1>3, <1>4, <1>5, <1>6 DEF Next, Connects

\* For any number of workers, any capacity and any flushes: a synthesis that is
\* alone on the connection, as the speech queue runs them, is told that its
\* audio has drained only when none of its frames is left anywhere.
THEOREM DrainIsReal ==
  ASSUME NEW t, Streams = {t}
  PROVE  Spec => []DrainedMeansGone
<1> DEFINE Rest == HandsEmpty /\ Gone
<1>1. Init => Rest
  BY DEF Init, HandsEmpty, Gone
<1>2. Typed /\ Accounting /\ Rest /\ [Next]_vars => Rest'
  BY HandsStep, GoneStep DEF DrainInv
<1>3. Typed /\ Rest => DrainedMeansGone
  <2> SUFFICES ASSUME Typed, Rest PROVE DrainedMeansGone
    OBVIOUS
  <2> QED
    BY OutputAssumption DEF DrainedMeansGone, Gone, HandsEmpty
<1> QED
  BY <1>1, <1>2, <1>3, TypedAlways, AccountsAreExact, PTL DEF Spec

-----------------------------------------------------------------------------
(* RealtimeCall: a failed call holds nothing *)

OfferPC == {"idle", "noPeer", "peer", "session", "answer", "stt", "tts", "ok", "failing", "failed"}

CallTyped ==
    /\ offer \in [Calls -> OfferPC]
    /\ conn \in [Calls -> {"none", "open", "closing", "closed"}]

\* What HandleOffer may hold for a call where it stands: nothing is acquired
\* early, and an error path leads on only once it has given back what the
\* steps before it took.
Acquired(c) ==
    /\ c \in registered => offer[c] \notin {"idle", "noPeer", "peer", "failed"}
    /\ c \in stt => offer[c] \in {"stt", "tts", "ok"} \/ c \in unconfigured
    /\ c \in tts => offer[c] \in {"tts", "ok"}
    /\ c \in subscribed \cup voice => offer[c] = "ok"

\* The Conn is made with the session, and closes the peer connection last.
PeerOwned(c) ==
    /\ offer[c] \in {"idle", "noPeer", "peer"} => conn[c] = "none"
    /\ offer[c] = "idle" \/ conn[c] = "closed" => c \notin peers
    /\ offer[c] = "failed" => conn[c] \in {"none", "closed"} /\ c \notin peers

CallInv == CallTyped /\ \A c \in Calls : Acquired(c) /\ PeerOwned(c)

\* A step of one call leaves the others alone.
OthersKept(c) ==
    /\ \A d \in Calls \ {c} : offer'[d] = offer[d] /\ conn'[d] = conn[d]
    /\ \A d \in Calls \ {c} :
         /\ d \in registered' <=> d \in registered
         /\ d \in stt' <=> d \in stt
         /\ d \in unconfigured' <=> d \in unconfigured
         /\ d \in tts' <=> d \in tts
         /\ d \in subscribed' <=> d \in subscribed
         /\ d \in voice' <=> d \in voice
         /\ d \in peers' <=> d \in peers

LEMMA OneCallMoves ==
  ASSUME CallInv, NEW c \in Calls, OthersKept(c), CallTyped', Acquired(c)', PeerOwned(c)'
  PROVE  CallInv'
<1>1. ASSUME NEW d \in Calls \ {c} PROVE Acquired(d)' /\ PeerOwned(d)'
  BY <1>1 DEF CallInv, OthersKept, Acquired, PeerOwned
<1> QED
  BY <1>1 DEF CallInv

\* A step of HandleOffer.
LEMMA OfferKeeps ==
  ASSUME CallInv, NEW c \in Calls, OfferStep(c)
  PROVE  CallInv'
<1> USE DEF CallInv, CallTyped, OfferPC, At, Goto
<1>0. Acquired(c) /\ PeerOwned(c)
  OBVIOUS
<1>1. CASE RejectOffer(c) \/ NewPeerFails(c) \/ HandleOffer(c) \/ SetOfferFails(c)
  <2> USE <1>1 DEF RejectOffer, NewPeerFails, HandleOffer, SetOfferFails, NewPeer, connVars
  <2>1. OthersKept(c) /\ CallTyped'
    BY DEF OthersKept
  <2>2. Acquired(c)' /\ PeerOwned(c)'
    BY <1>0 DEF Acquired, PeerOwned
  <2> QED
    BY <2>1, <2>2, OneCallMoves
<1>2. ASSUME NEW kinds \in SUBSET {"camera", "screen"}, CreateSession(c, kinds)
      PROVE  CallInv'
  <2> USE <1>2 DEF CreateSession, NewConn, NewSession
  <2>1. OthersKept(c) /\ CallTyped'
    BY DEF OthersKept
  <2>2. Acquired(c)' /\ PeerOwned(c)'
    BY <1>0 DEF Acquired, PeerOwned
  <2> QED
    BY <2>1, <2>2, OneCallMoves
<1>3. CASE CreateAnswerFails(c) \/ CreateAnswer(c) \/ RemoveSession(c)
  <2> USE <1>3 DEF CreateAnswerFails, CreateAnswer, RemoveSession, connVars
  <2>1. OthersKept(c) /\ CallTyped'
    BY DEF OthersKept
  <2>2. Acquired(c)' /\ PeerOwned(c)'
    BY <1>0 DEF Acquired, PeerOwned
  <2> QED
    BY <2>1, <2>2, OneCallMoves
<1>4. CASE NewSTT(c) \/ NewTTS(c)
  <2> USE <1>4 DEF NewSTT, NewTTS, connVars
  <2>1. OthersKept(c) /\ CallTyped'
    BY DEF OthersKept
  <2>2. Acquired(c)' /\ PeerOwned(c)'
    BY <1>0 DEF Acquired, PeerOwned
  <2> QED
    BY <2>1, <2>2, OneCallMoves
<1>5. CASE AnswerOffer(c) \/ SubscribeFails(c)
  <2> USE <1>5 DEF AnswerOffer, SubscribeFails, StartSession, connVars
  <2>1. OthersKept(c) /\ CallTyped'
    BY DEF OthersKept
  <2>2. Acquired(c)' /\ PeerOwned(c)'
    BY <1>0 DEF Acquired, PeerOwned
  <2> QED
    BY <2>1, <2>2, OneCallMoves
<1> QED
  BY <1>1, <1>2, <1>3, <1>4, <1>5 DEF OfferStep

\* A step of the Conn or of one of pion's callbacks.
LEMMA ConnKeeps ==
  ASSUME CallInv, NEW c \in Calls, ConnStep(c)
  PROVE  CallInv'
<1> USE DEF CallInv, CallTyped, OfferPC
<1>1. CASE BeginClose(c) \/ EndClose(c)
  <2> USE <1>1 DEF BeginClose, EndClose, Live, At, offerVars
  <2>1. OthersKept(c) /\ CallTyped'
    BY DEF OthersKept
  <2>2. Acquired(c)' /\ PeerOwned(c)'
    BY DEF Acquired, PeerOwned
  <2> QED
    BY <2>1, <2>2, OneCallMoves
<1>2. CASE ~(BeginClose(c) \/ EndClose(c))
  <2>1. UNCHANGED <<offer, peers, conn, registered, stt, tts, unconfigured, subscribed, voice>>
    BY <1>2 DEF ConnStep, OnConnected, OnOpen, HandleICECandidate, HandleMessage, OnAudio,
       AudioInLoop, HandleRenegotiationOffer, HandleVideoTrack, offerVars, connVars
  <2> QED
    BY <2>1 DEF Acquired, PeerOwned
<1> QED
  BY <1>1, <1>2

LEMMA CallStep == CallInv /\ [CallNext]_callVars => CallInv'
<1> SUFFICES ASSUME CallInv, [CallNext]_callVars PROVE CallInv'
  OBVIOUS
<1>1. ASSUME NEW c \in Calls, OfferStep(c) \/ ConnStep(c) PROVE CallInv'
  BY <1>1, OfferKeeps, ConnKeeps
<1>2. CASE UNCHANGED <<offer, peers, conn, registered, stt, tts, unconfigured, subscribed, voice>>
  BY <1>2 DEF CallInv, CallTyped, Acquired, PeerOwned
<1>3. ASSUME NEW c \in Calls, \/ SendICE(c) \/ ICEStreamStep(c)
                              \/ \E u \in Users : HandleICEStream(u, c) \/ PostICECandidate(u, c)
      PROVE  UNCHANGED <<offer, peers, conn, registered, stt, tts, unconfigured, subscribed, voice>>
  BY <1>3 DEF SendICE, ICEStreamStep, HandleICEStream, PostICECandidate, offerVars, connVars
<1>4. CASE UNCHANGED callVars
  BY <1>2, <1>4 DEF callVars, offerVars, connVars
<1> QED
  BY <1>1, <1>2, <1>3, <1>4 DEF CallNext

\* Whichever step of HandleOffer fails, for any number of calls at once and
\* with pion's callbacks closing Conns at any moment: a call that was answered
\* with an error is in no table and holds no synthesis client, no subscription
\* and, unless sendConfig is what failed, no connection for transcription.
THEOREM FailureLeavesNothing == CallSpec => []FailedCallHoldsNothing
<1>1. CallInit => CallInv
  BY DEF CallInit, CallInv, CallTyped, OfferPC, Acquired, PeerOwned
<1>2. CallInv => FailedCallHoldsNothing
  BY DEF CallInv, Acquired, PeerOwned, FailedCallHoldsNothing, At
<1> QED
  BY <1>1, <1>2, CallStep, PTL DEF CallSpec

-----------------------------------------------------------------------------
(* Vision: what is left of a closed session *)

\* The capturer of a session is stopped from Stop on, for good.
CapturerStopped ==
    /\ phase \in [Sessions -> {"none", "open", "stopped", "closed"}]
    /\ \A s \in Sessions : phase[s] \in {"stopped", "closed"} => s \in stopped

\* The session is closed, no frame of it is on its way and none is stored.
NothingLeft(s) == phase[s] = "closed" /\ s \notin capturing /\ s \notin frames

\* A step after which nothing is left of a session still, if nothing was.
StaysAway == \A s \in Sessions : NothingLeft(s) => NothingLeft(s)'

\* The frames of a session are stored by its own capturer only, which takes none
\* once it is stopped.
LEMMA FrameStepSafe ==
  ASSUME CapturerStopped, NEW s \in Sessions, FrameStep(s)
  PROVE  CapturerStopped' /\ StaysAway
<1> USE DEF NothingLeft, StaysAway, CapturerStopped
<1>1. CASE NewFrameCapturer(s)
  BY <1>1 DEF NewFrameCapturer, frameVars
<1>2. CASE StopCapturer(s)
  BY <1>2 DEF StopCapturer
<1>3. CASE Cleanup(s)
  BY <1>3 DEF Cleanup
<1>4. ASSUME NEW mimeType \in CreateSampleBuilder, HandleRTPPacket(s, mimeType)
      PROVE  CapturerStopped' /\ StaysAway
  BY <1>4 DEF HandleRTPPacket, Captures
<1>5. CASE ProcessFrame(s)
  BY <1>5 DEF ProcessFrame, StoreFrame
<1>6. CASE FramesExpire(s)
  BY <1>6 DEF FramesExpire
<1> QED
  BY <1>1, <1>2, <1>3, <1>4, <1>5, <1>6 DEF FrameStep

LEMMA VisionStepSafe == CapturerStopped /\ [VisionNext]_visionVars => CapturerStopped' /\ StaysAway
<1> SUFFICES ASSUME CapturerStopped, [VisionNext]_visionVars PROVE CapturerStopped' /\ StaysAway
  OBVIOUS
<1>1. CASE UNCHANGED <<phase, frames, capturing, stopped>>
  BY <1>1 DEF CapturerStopped, StaysAway, NothingLeft
<1>2. CASE AnalysisStep
  BY <1>1, <1>2 DEF AnalysisStep, FetchFrame, StoreResult, AnalysisDone, frameVars
<1>3. ASSUME NEW s \in Sessions, TurnStep(s) PROVE CapturerStopped' /\ StaysAway
  BY <1>1, <1>3 DEF TurnStep, StartAnalysis, OnTranscript, GetResult, Reset, Publish, frameVars
<1>4. CASE UNCHANGED visionVars
  BY <1>1, <1>4 DEF visionVars, frameVars
<1> QED
  BY <1>2, <1>3, <1>4, FrameStepSafe DEF VisionNext

\* The safety half of ClosedLeavesNoFrames, for any sessions and analyses: a frame
\* that was on its way when VoiceSession.Close stopped the capturer may be stored
\* after the frames were deleted, but when it is gone too no frame comes back.
THEOREM FramesStayAway == VisionSpec => [][StaysAway]_visionVars
<1>1. VisionInit => CapturerStopped
  BY DEF VisionInit, CapturerStopped
<1> QED
  BY <1>1, VisionStepSafe, PTL DEF VisionSpec

=============================================================================
