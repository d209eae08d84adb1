------------------------- MODULE TTSPlaybackProofs -------------------------
(***************************************************************************)
(* Proofs about TTSPlayback, for any number of sentences, complete         *)
(* responses and interruptions.                                            *)
(***************************************************************************)
EXTENDS TTSPlayback, FiniteSetTheorems, TLAPS

-----------------------------------------------------------------------------
(* Type correctness *)

\* TypeOK alone is not inductive: that clears stays below turns needs to know
\* that each call of Clear has an interruption of its own.
Typed == TypeOK /\ (sttPc = "clear" => clears < turns)

LEMMA TypedInit == Init => Typed
<1> SUFFICES ASSUME Init PROVE Typed
  OBVIOUS
<1> USE BoundsAssumption DEF Init, Nil
<1>1. QueueTypes
  BY DEF QueueTypes
<1>2. ProcTypes
  BY DEF ProcTypes, ProcPC
<1>3. BridgeTypes
  BY DEF BridgeTypes
<1>4. ReplyTypes
  BY DEF ReplyTypes
<1>5. UserTypes
  BY DEF UserTypes, SpeechState, SttPC
<1>6. FlagTypes
  BY DEF FlagTypes
<1> QED
  BY <1>1, <1>2, <1>3, <1>4, <1>5, <1>6 DEF Typed, TypeOK

\* The types of what the STT read loop does.
LEMMA TypedReadLoop ==
  ASSUME Typed, SpeechStart \/ SpeechEnd \/ BargeIn
  PROVE  Typed'
<1> USE BoundsAssumption DEF Typed, TypeOK
<1>1. ProcTypes'
  BY DEF ProcTypes, procVars, BargeIn, SpeechStart, SpeechEnd, Clear, BridgeStop,
     ClearOnEnd, ConnStop, PauseOutput, ResumeOutput
<1>5. FlagTypes'
  BY DEF FlagTypes, bridgeVars, queueVars, userVars, connVars, GoIdle, BargeIn, SpeechStart,
     SpeechEnd, Clear, BridgeStop, ClearOnEnd, ConnStop, PauseOutput, ResumeOutput
<1>2. CASE SpeechStart \/ SpeechEnd
  <2>1. QueueTypes' /\ BridgeTypes' /\ ReplyTypes'
    BY <1>2 DEF SpeechStart, SpeechEnd, queueVars, bridgeVars, replyVars,
       QueueTypes, BridgeTypes, ReplyTypes
  <2>2. UserTypes' /\ (sttPc' = "clear" => clears' < turns')
    BY <1>2 DEF SpeechStart, SpeechEnd, OnUserSpeechStart, UserTypes, QueueTypes,
       SpeechState, SttPC, connVars, queueVars
  <2> QED
    BY <1>1, <1>5, <2>1, <2>2
<1>3. CASE Clear
  <2>1. QueueTypes'
    BY <1>3 DEF Clear, GoIdle, ClearedContexts, Nil, QueueTypes
  <2>2. BridgeTypes' /\ ReplyTypes'
    BY <1>3 DEF Clear, bridgeVars, replyVars, BridgeTypes, ReplyTypes
  <2>3. UserTypes' /\ sttPc' # "clear"
    BY <1>3 DEF Clear, connVars, UserTypes, QueueTypes, SttPC
  <2> QED
    BY <1>1, <1>5, <2>1, <2>2, <2>3
<1>4. CASE BridgeStop \/ ClearOnEnd \/ ConnStop \/ PauseOutput \/ ResumeOutput
  <2> USE DEF BridgeStop, ClearOnEnd, ConnStop, PauseOutput, ResumeOutput
  <2>1. QueueTypes' /\ UNCHANGED spawned
    BY <1>4 DEF queueVars, QueueTypes
  <2>2. BridgeTypes'
    BY <1>4 DEF bridgeVars, BridgeTypes, CancelStream
  <2>3. ReplyTypes'
    BY <1>4 DEF replyVars, ReplyTypes
  <2>4. UserTypes' /\ sttPc' # "clear"
    BY <1>4, <2>1 DEF connVars, UserTypes, OnTTSAudioEnd, SpeechState, SttPC
  <2> QED
    BY <1>1, <1>5, <2>1, <2>2, <2>3, <2>4
<1> QED
  BY <1>2, <1>3, <1>4 DEF BargeIn

\* The types of what a processQueue goroutine does.
LEMMA TypedProc ==
  ASSUME Typed, NEW p \in Procs, Proc(p)
  PROVE  Typed'
<1> USE BoundsAssumption DEF Typed, TypeOK, Proc, ProcBegin, ProcOnStart, ProcDequeue,
        ProcEmpty, ProcOnEnd, StartStream, ProcDone, ProcCancelled
<1>1. QueueTypes'
  <2>1. CASE ProcDequeue(p)
    BY <2>1 DEF AfterDequeue, QueueTypes
  <2>2. CASE ProcBegin(p) \/ ProcEmpty(p)
    BY <2>2 DEF QueueTypes
  <2>4. CASE ProcCancelled(p)
    BY <2>4 DEF QueueTypes
  <2>3. CASE ProcOnStart(p) \/ ProcOnEnd(p) \/ StartStream(p) \/ ProcDone(p)
    BY <2>3 DEF queueVars, QueueTypes
  <2> QED
    BY <2>1, <2>2, <2>3, <2>4
<1>2. ProcTypes'
  <2>1. CASE ProcDequeue(p)
    <3>1. Head(queue) \in Sentences /\ qctx \in Procs \union {Nil}
      BY <2>1 DEF QueueTypes, Procs, Nil
    <3> QED
      BY <2>1, <3>1 DEF ProcTypes, ProcPC, ActivePC
  <2>2. CASE ~ProcDequeue(p)
    BY <2>2 DEF ProcTypes, ProcPC, ActivePC
  <2> QED
    BY <2>1, <2>2
<1>3. BridgeTypes'
  <2>1. CASE StartStream(p)
    BY <2>1 DEF CancelStream, StreamParent, BridgeTypes, ProcTypes
  <2>2. CASE ~StartStream(p)
    BY <2>2 DEF bridgeVars, BridgeTypes
  <2> QED
    BY <2>1, <2>2
<1>4. ReplyTypes'
  BY DEF replyVars, ReplyTypes
<1>5. UserTypes' /\ UNCHANGED sttPc /\ UNCHANGED clears /\ UNCHANGED turns
  <2>1. UNCHANGED <<userVars, connVars, spawned>>
    BY DEF queueVars
  <2>2. speech' \in SpeechState
    BY DEF OnTTSAudioStart, OnTTSAudioEnd, SpeechState, UserTypes
  <2> QED
    BY <2>1, <2>2 DEF userVars, connVars, UserTypes
<1>6. FlagTypes'
  BY DEF FlagTypes, bridgeVars, queueVars, userVars, connVars, GoIdle
<1> QED
  BY <1>1, <1>2, <1>3, <1>4, <1>5, <1>6

LEMMA TypedStep == Typed /\ [Next]_vars => Typed'
<1> SUFFICES ASSUME Typed, [Next]_vars PROVE Typed'
  OBVIOUS
<1> USE BoundsAssumption
<1>1. CASE Enqueue
  <2> USE <1>1 DEF Typed, TypeOK, Enqueue
  <2>1. enqueued + 1 \in Sentences /\ spawned + 1 \in Procs
    BY DEF Sentences, Procs, QueueTypes
  <2>2. QueueTypes'
    BY <2>1 DEF QueueTypes
  <2>3. ProcTypes'
    BY <2>1 DEF ProcTypes, ProcPC, ActivePC
  <2>4. BridgeTypes' /\ ReplyTypes'
    BY DEF bridgeVars, BridgeTypes, replyVars, ReplyTypes
  <2>5. UserTypes' /\ UNCHANGED sttPc /\ UNCHANGED clears /\ UNCHANGED turns
    BY DEF UserTypes, QueueTypes, userVars, connVars
  <2>6. FlagTypes'
    BY DEF FlagTypes, bridgeVars, userVars, connVars
  <2> QED
    BY <2>2, <2>3, <2>4, <2>5, <2>6
<1>2. ASSUME NEW p \in Procs, Proc(p) PROVE Typed'
  BY <1>2, TypedProc
<1>3. ASSUME NEW s \in Sentences, Stream(s) \/ Hang(s) PROVE Typed'
  <2> USE <1>3 DEF Stream, Notify, CloseDone, Hang
  <2>1. UNCHANGED <<queueVars, procVars, replyVars, speech, connVars, userVars>>
    OBVIOUS
  <2>2. BridgeTypes'
    BY DEF Typed, TypeOK, BridgeTypes, Nil
  <2>3. FlagTypes'
    BY DEF Typed, TypeOK, FlagTypes, queueVars, bridgeVars, connVars, userVars
  <2> QED
    BY <2>1, <2>2, <2>3 DEF Typed, TypeOK, QueueTypes, ProcTypes, ReplyTypes, UserTypes,
       queueVars, procVars, replyVars, connVars, userVars
<1>4. ASSUME NEW r \in Replies, HandleCompleteResponse(r) \/ Reply(r) PROVE Typed'
  <2> USE <1>4 DEF HandleCompleteResponse, Reply, ReplyStart, ReplyEnd, ReplyError, ReplyFail,
     ReplyReturned
  <2>1. UNCHANGED <<queueVars, procVars, bridgeVars, connVars, userVars>>
    OBVIOUS
  <2>2. ReplyTypes'
    BY DEF Typed, TypeOK, ReplyTypes, replyVars
  <2>3. speech' \in SpeechState
    BY DEF Typed, TypeOK, UserTypes, SpeechState, OnTTSAudioStart, OnTTSAudioEnd
  <2>4. FlagTypes'
    BY <2>1 DEF Typed, TypeOK, FlagTypes, queueVars, bridgeVars, connVars, userVars
  <2> QED
    BY <2>1, <2>2, <2>3, <2>4 DEF Typed, TypeOK, QueueTypes, ProcTypes, BridgeTypes, UserTypes,
       queueVars, procVars, bridgeVars, connVars, userVars
<1>5. CASE SpeechStart \/ SpeechEnd \/ BargeIn
  BY <1>5, TypedReadLoop
<1>6. CASE UNCHANGED vars
  BY <1>6 DEF vars, Typed, TypeOK, FlagTypes, QueueTypes, ProcTypes, BridgeTypes, ReplyTypes, UserTypes,
     queueVars, procVars, bridgeVars, replyVars, connVars, userVars
<1> QED
  BY <1>1, <1>2, <1>3, <1>4, <1>5, <1>6 DEF Next

\* Every variable keeps its type and every counter its bound, whatever the
\* interleaving of the read loop, the processors and the streams.
THEOREM TypeCorrect == Spec => []TypeOK
<1>1. Spec => []Typed
  BY TypedInit, TypedStep, PTL DEF Spec
<1>2. Typed => TypeOK
  BY DEF Typed
<1> QED
  BY <1>1, <1>2, PTL

-----------------------------------------------------------------------------
(* The strengthenings of the safety invariants *)

\* A processor holds a sentence exactly while it starts or awaits its stream,
\* and no processor is at work before it was started.
Holding ==
    \A p \in Procs : /\ pc[p] \in {"stream", "wait"} <=> item[p] # Nil
                     /\ p > spawned => pc[p] = "none"

\* Sentences wait in the order of their Enqueue, behind every sentence a
\* processor holds, and no two processors hold the same one.
Ordered ==
    /\ \A i \in DOMAIN queue : queue[i] <= enqueued
    /\ \A i, j \in DOMAIN queue : i < j => queue[i] < queue[j]
    /\ \A p \in Procs : item[p] <= enqueued
    /\ \A p \in Procs, i \in DOMAIN queue : item[p] < queue[i]
    /\ \A p, q \in Procs : item[p] = item[q] /\ item[p] # Nil => p = q

\* The stream a processor waits for was derived from the context it read.
Derived ==
    \A p \in Procs :
        pc[p] = "wait" /\ stream[item[p]] = "open" => sctx[item[p]] = pctx[p]

\* ProcessorBound with the processor the next Enqueue will start.
RoomForOne == Cardinality(Active) + (IF WasEmpty THEN 1 ELSE 0) <= 1 + clears

\* Up to the first Clear every processor works under the queue's context; from
\* then on the contexts made before it are cancelled where they are still used.
Separated ==
    /\ clears = 0 => /\ cutoff = 0
                     /\ \A p \in Procs : pc[p] \in {"stream", "wait"} => pctx[p] = qctx
    /\ clears = 1 => /\ qctx = Nil \/ qctx > cutoff
                     /\ \A p \in Procs : pc[p] \in {"stream", "wait"} =>
                            pctx[p] > cutoff \/ pctx[p] \in dead

-----------------------------------------------------------------------------
(* The steps that matter to them *)

QueueAndProcs == <<queueVars, procVars, clears, cutoff>>

\* Only Enqueue, Clear and the processors touch the queue or a processor.
LEMMA QueueSteps ==
  ASSUME [Next]_vars
  PROVE  \/ Enqueue \/ Clear \/ (\E p \in Procs : Proc(p))
         \/ UNCHANGED QueueAndProcs
<1> USE DEF QueueAndProcs, userVars
<1>1. ASSUME NEW s \in Sentences, Stream(s) \/ Hang(s) PROVE UNCHANGED QueueAndProcs
  BY <1>1 DEF Stream, Notify, CloseDone, Hang
<1>2. ASSUME NEW r \in Replies, HandleCompleteResponse(r) \/ Reply(r)
      PROVE  UNCHANGED QueueAndProcs
  BY <1>2 DEF HandleCompleteResponse, Reply, ReplyStart, ReplyEnd, ReplyError, ReplyFail,
     ReplyReturned
<1>3. CASE SpeechStart \/ SpeechEnd
  BY <1>3 DEF SpeechStart, SpeechEnd
<1>4. CASE BridgeStop \/ ClearOnEnd \/ ConnStop \/ PauseOutput \/ ResumeOutput
  BY <1>4 DEF BridgeStop, ClearOnEnd, ConnStop, PauseOutput, ResumeOutput
<1>5. CASE UNCHANGED vars
  BY <1>5 DEF vars
<1> QED
  BY <1>1, <1>2, <1>3, <1>4, <1>5 DEF Next, BargeIn

-----------------------------------------------------------------------------
(* ContextLive *)

LEMMA ContextLiveStep == Typed /\ ContextLive /\ [Next]_vars => ContextLive'
<1> SUFFICES ASSUME Typed, ContextLive, [Next]_vars PROVE ContextLive'
  OBVIOUS
<1> USE DEF Typed, TypeOK, QueueTypes, ProcTypes, ContextLive, Nil
<1>1. CASE Enqueue
  <2>1. queue' # <<>> /\ UNCHANGED <<playing, dead, pctx>>
    BY <1>1 DEF Enqueue
  <2>2. qctx' # Nil /\ qctx' \notin dead
    BY <1>1 DEF Enqueue, WasEmpty
  <2>3. ASSUME NEW p \in Procs, pc'[p] \in {"stream", "wait"} PROVE pctx'[p] # Nil
    BY <1>1, <2>1, <2>3 DEF Enqueue
  <2> QED
    BY <2>1, <2>2, <2>3
<1>2. CASE Clear
  BY <1>2 DEF Clear, GoIdle, procVars
<1>3. ASSUME NEW p \in Procs, Proc(p) PROVE ContextLive'
  <2>1. CASE ProcDequeue(p)
    BY <2>1 DEF ProcDequeue
  <2>2. CASE ProcEmpty(p) \/ ProcCancelled(p)
    BY <2>2 DEF ProcEmpty, ProcCancelled, GoIdle
  <2>3. CASE ProcBegin(p) \/ ProcOnStart(p) \/ ProcOnEnd(p) \/ StartStream(p) \/ ProcDone(p)
    BY <2>3 DEF ProcBegin, ProcOnStart, ProcOnEnd, StartStream, ProcDone, queueVars
  <2> QED
    BY <1>3, <2>1, <2>2, <2>3 DEF Proc
<1>4. CASE UNCHANGED QueueAndProcs
  BY <1>4 DEF QueueAndProcs, queueVars, procVars
<1> QED
  BY <1>1, <1>2, <1>3, <1>4, QueueSteps

\* While the queue holds or plays a sentence it has a context that is not
\* cancelled, so StartStream never sees a nil context and no sentence enqueued
\* after an interruption is started under the context that one cancelled.
THEOREM ContextIsLive == Spec => []ContextLive
<1>1. Init => ContextLive
  BY DEF Init, ContextLive
<1>2. Spec => []Typed
  BY TypedInit, TypedStep, PTL DEF Spec
<1> QED
  BY <1>1, <1>2, ContextLiveStep, PTL DEF Spec

-----------------------------------------------------------------------------
(* NoLostWakeup *)

LEMMA NoLostWakeupStep == Typed /\ NoLostWakeup /\ [Next]_vars => NoLostWakeup'
<1> SUFFICES ASSUME Typed, NoLostWakeup, [Next]_vars PROVE NoLostWakeup'
  OBVIOUS
<1> USE DEF Typed, TypeOK, QueueTypes, ProcTypes, NoLostWakeup
<1>1. CASE Enqueue
  <2>1. CASE WasEmpty
    <3>1. spawned + 1 \in Procs
      BY <1>1, BoundsAssumption DEF Enqueue, Procs
    <3>2. spawned + 1 \in Active'
      BY <1>1, <2>1, <3>1 DEF Enqueue, Active, ActivePC
    <3> QED
      BY <3>2
  <2>2. CASE ~WasEmpty
    <3>1. UNCHANGED pc /\ Active # {}
      BY <1>1, <2>2 DEF Enqueue, WasEmpty
    <3> QED
      BY <3>1 DEF Active
  <2> QED
    BY <2>1, <2>2
<1>2. CASE Clear
  BY <1>2 DEF Clear, GoIdle
<1>3. ASSUME NEW p \in Procs, Proc(p) PROVE NoLostWakeup'
  <2>1. CASE ProcEmpty(p) \/ ProcCancelled(p)
    BY <2>1 DEF ProcEmpty, ProcCancelled, GoIdle
  <2>2. CASE ProcOnEnd(p)
    <3>1. UNCHANGED <<queue, playing>>
      BY <2>2 DEF ProcOnEnd, queueVars
    <3>2. ASSUME NEW q \in Active PROVE q \in Active'
      BY <2>2, <3>2 DEF ProcOnEnd, Active, ActivePC
    <3> QED
      BY <3>1, <3>2
  <2>3. CASE \/ ProcBegin(p) \/ ProcOnStart(p) \/ ProcDequeue(p)
             \/ StartStream(p) \/ ProcDone(p)
    <3>1. p \in Active'
      BY <2>3 DEF ProcBegin, ProcOnStart, ProcDequeue, StartStream, ProcDone, Active, ActivePC
    <3> QED
      BY <3>1
  <2> QED
    BY <1>3, <2>1, <2>2, <2>3 DEF Proc
<1>4. CASE UNCHANGED QueueAndProcs
  BY <1>4 DEF QueueAndProcs, queueVars, procVars, Active
<1> QED
  BY <1>1, <1>2, <1>3, <1>4, QueueSteps

\* Enqueue starts no processor for a queue in use, and never has to: while the
\* queue holds or plays a sentence some processor is still to look at it.
THEOREM WakeupIsNeverLost == Spec => []NoLostWakeup
<1>1. Init => NoLostWakeup
  BY DEF Init, NoLostWakeup
<1>2. Spec => []Typed
  BY TypedInit, TypedStep, PTL DEF Spec
<1> QED
  BY <1>1, <1>2, NoLostWakeupStep, PTL DEF Spec

-----------------------------------------------------------------------------
(* ProcessorBound *)

LEMMA ActiveFinite == ASSUME Typed PROVE IsFiniteSet(Active) /\ Cardinality(Active) \in Nat
<1>1. IsFiniteSet(Procs)
  BY FS_Interval, BoundsAssumption DEF Procs
<1>2. Active \subseteq Procs
  BY DEF Active
<1> QED
  BY <1>1, <1>2, FS_Subset, FS_CardinalityType

LEMMA RoomForOneStep == Typed /\ RoomForOne /\ [Next]_vars => RoomForOne'
<1> SUFFICES ASSUME Typed, RoomForOne, [Next]_vars PROVE RoomForOne'
  OBVIOUS
<1>0. /\ IsFiniteSet(Active) /\ Cardinality(Active) \in Nat
      /\ Cardinality(Active') \in Nat /\ clears \in Nat
  <2>1. IsFiniteSet(Procs) /\ Active \subseteq Procs /\ Active' \subseteq Procs
    BY FS_Interval, BoundsAssumption DEF Procs, Active
  <2> QED
    BY <2>1, FS_Subset, FS_CardinalityType, BoundsAssumption DEF Typed, TypeOK, UserTypes
<1>1. CASE Enqueue
  <2>1. ~WasEmpty' /\ UNCHANGED clears
    BY <1>1 DEF Enqueue, WasEmpty, Typed, TypeOK, QueueTypes, userVars
  <2>2. CASE WasEmpty
    <3>1. Active' = Active \union {spawned + 1}
      <4>1. spawned + 1 \in Procs
        BY <1>1, BoundsAssumption DEF Enqueue, Procs, Typed, TypeOK, QueueTypes
      <4> QED
        BY <1>1, <2>2, <4>1 DEF Enqueue, Active, ActivePC, Typed, TypeOK, ProcTypes
    <3>2. Cardinality(Active') <= Cardinality(Active) + 1
      BY <1>0, <3>1, FS_AddElement
    <3> QED
      BY <1>0, <2>1, <2>2, <3>2 DEF RoomForOne
  <2>3. CASE ~WasEmpty
    <3>1. Active' = Active
      BY <1>1, <2>3 DEF Enqueue, Active
    <3> QED
      BY <1>0, <2>1, <2>3, <3>1 DEF RoomForOne
  <2> QED
    BY <2>2, <2>3
<1>2. CASE Clear
  <2>1. Active' = Active /\ clears' = clears + 1
    BY <1>2 DEF Clear, procVars, Active
  <2> QED
    BY <1>0, <2>1 DEF RoomForOne
<1>3. ASSUME NEW p \in Procs, Proc(p) PROVE RoomForOne'
  <2>0. UNCHANGED clears
    BY <1>3 DEF Proc, ProcBegin, ProcOnStart, ProcDequeue, ProcEmpty, ProcOnEnd,
       StartStream, ProcDone, ProcCancelled, userVars
  <2>1. CASE ProcEmpty(p) \/ ProcCancelled(p)
    <3>1. p \in Active /\ Active' = Active \ {p}
      BY <2>1 DEF ProcEmpty, ProcCancelled, Active, ActivePC, Typed, TypeOK, ProcTypes
    <3>2. Cardinality(Active') = Cardinality(Active) - 1
      BY <1>0, <3>1, FS_RemoveElement
    <3> QED
      BY <1>0, <2>0, <3>2 DEF RoomForOne
  <2>2. CASE ~(ProcEmpty(p) \/ ProcCancelled(p))
    <3>1. Active' = Active
      BY <1>3, <2>2 DEF Proc, ProcBegin, ProcOnStart, ProcDequeue, ProcOnEnd,
         StartStream, ProcDone, Active, ActivePC, Typed, TypeOK, ProcTypes
    <3>2. WasEmpty' => WasEmpty
      BY <1>3, <2>2 DEF Proc, ProcBegin, ProcOnStart, ProcDequeue, ProcOnEnd,
         StartStream, ProcDone, WasEmpty, queueVars
    <3> QED
      BY <1>0, <2>0, <3>1, <3>2 DEF RoomForOne
  <2> QED
    BY <2>1, <2>2
<1>4. CASE UNCHANGED QueueAndProcs
  BY <1>4 DEF QueueAndProcs, queueVars, procVars, Active, WasEmpty, RoomForOne
<1> QED
  BY <1>1, <1>2, <1>3, <1>4, QueueSteps

LEMMA RoomForOneAlways == Spec => [](Typed /\ RoomForOne)
<1>1. Init => RoomForOne
  <2>1. Init => Active = {} /\ clears = 0
    BY DEF Init, Active, ActivePC
  <2> QED
    BY <2>1, FS_EmptySet DEF RoomForOne
<1> QED
  BY <1>1, TypedInit, TypedStep, RoomForOneStep, PTL DEF Spec

\* At most one processor more than there were calls of Clear: two processors
\* never run over a queue that was not interrupted.
THEOREM ProcessorsAreBounded == Spec => []ProcessorBound
<1>1. Typed /\ RoomForOne => ProcessorBound
  <2> SUFFICES ASSUME Typed, RoomForOne PROVE ProcessorBound
    OBVIOUS
  <2>1. Cardinality(Active) \in Nat /\ clears \in Nat
    BY ActiveFinite, BoundsAssumption DEF Typed, TypeOK, UserTypes
  <2> QED
    BY <2>1 DEF RoomForOne, ProcessorBound
<1> QED
  BY <1>1, RoomForOneAlways, PTL

-----------------------------------------------------------------------------
(* Who holds which sentence *)

LEMMA HoldingStep == Typed /\ Holding /\ [Next]_vars => Holding'
<1> SUFFICES ASSUME Typed, Holding, [Next]_vars PROVE Holding'
  OBVIOUS
<1> USE DEF Typed, TypeOK, QueueTypes, ProcTypes, Holding, Nil
<1>1. CASE Enqueue
  <2>1. CASE WasEmpty
    <3>1. spawned + 1 \in Procs /\ spawned' = spawned + 1 /\ UNCHANGED item
      BY <1>1, <2>1, BoundsAssumption DEF Enqueue, Procs
    <3>2. pc[spawned + 1] = "none" /\ item[spawned + 1] = Nil
      BY <3>1 DEF Procs
    <3>3. pc' = [pc EXCEPT ![spawned + 1] = "spawned"]
      BY <1>1, <2>1 DEF Enqueue
    <3>4. ASSUME NEW q \in Procs
          PROVE  /\ pc'[q] \in {"stream", "wait"} <=> item'[q] # Nil
                 /\ q > spawned' => pc'[q] = "none"
      <4>1. CASE q = spawned + 1
        BY <3>1, <3>2, <3>3, <4>1
      <4>2. CASE q # spawned + 1
        BY <3>1, <3>3, <4>2 DEF Procs
      <4> QED
        BY <4>1, <4>2
    <3> QED
      BY <3>4
  <2>2. CASE ~WasEmpty
    BY <1>1, <2>2 DEF Enqueue
  <2> QED
    BY <2>1, <2>2
<1>2. CASE Clear
  BY <1>2 DEF Clear, procVars
<1>3. ASSUME NEW p \in Procs, Proc(p) PROVE Holding'
  <2>1. CASE ProcDequeue(p)
    <3>1. Head(queue) \in Sentences
      BY <2>1 DEF ProcDequeue
    <3> QED
      BY <2>1, <3>1 DEF ProcDequeue, Sentences, Procs
  <2>2. CASE ~ProcDequeue(p)
    BY <1>3, <2>2 DEF Proc, ProcBegin, ProcOnStart, ProcEmpty, ProcOnEnd,
       StartStream, ProcDone, ProcCancelled, queueVars, Procs
  <2> QED
    BY <2>1, <2>2
<1>4. CASE UNCHANGED QueueAndProcs
  BY <1>4 DEF QueueAndProcs, queueVars, procVars
<1> QED
  BY <1>1, <1>2, <1>3, <1>4, QueueSteps

LEMMA OrderedStep == Typed /\ Holding /\ Ordered /\ [Next]_vars => Ordered'
<1> SUFFICES ASSUME Typed, Holding, Ordered, [Next]_vars PROVE Ordered'
  OBVIOUS
<1> USE DEF Typed, TypeOK, QueueTypes, ProcTypes, Ordered, Nil, Sentences
<1>0. /\ enqueued \in Nat /\ \A p \in Procs : item[p] \in Nat
      /\ Len(queue) \in Nat /\ DOMAIN queue = 1..Len(queue)
      /\ \A i \in DOMAIN queue : queue[i] \in Nat /\ queue[i] > 0
  BY BoundsAssumption
<1>1. CASE Enqueue
  <2>1. /\ queue' = Append(queue, enqueued + 1)
        /\ enqueued' = enqueued + 1 /\ item' = item
    BY <1>1 DEF Enqueue
  <2>2. \A i \in DOMAIN queue' :
            queue'[i] = IF i \in DOMAIN queue THEN queue[i] ELSE enqueued + 1
    BY <2>1
  <2>3. \A i \in DOMAIN queue' : i \notin DOMAIN queue => i = Len(queue) + 1
    BY <2>1
  <2>4. \A i \in DOMAIN queue' : queue'[i] <= enqueued'
    BY <1>0, <2>1, <2>2
  <2>5. \A i, j \in DOMAIN queue' : i < j => queue'[i] < queue'[j]
    BY <1>0, <2>2, <2>3
  <2>6. \A p \in Procs, i \in DOMAIN queue' : item'[p] < queue'[i]
    BY <1>0, <2>1, <2>2
  <2> QED
    BY <1>0, <2>1, <2>4, <2>5, <2>6
<1>2. CASE Clear
  BY <1>2 DEF Clear, procVars
<1>3. ASSUME NEW p \in Procs, Proc(p) PROVE Ordered'
  <2>1. CASE ProcDequeue(p)
    <3>1. /\ queue # <<>> /\ queue' = Tail(queue) /\ UNCHANGED enqueued
          /\ item' = [item EXCEPT ![p] = queue[1]]
      BY <2>1 DEF ProcDequeue, AfterDequeue
    <3>2. /\ 1 \in DOMAIN queue
          /\ \A i \in DOMAIN queue' : i + 1 \in DOMAIN queue /\ queue'[i] = queue[i + 1]
      BY <3>1
    <3>3. /\ \A i \in DOMAIN queue' : queue'[i] <= enqueued'
          /\ \A i, j \in DOMAIN queue' : i < j => queue'[i] < queue'[j]
      BY <3>1, <3>2
    <3>4. /\ \A q \in Procs : item'[q] <= enqueued'
          /\ \A q \in Procs, i \in DOMAIN queue' : item'[q] < queue'[i]
      BY <3>1, <3>2
    <3>5. \A q \in Procs : item[q] < queue[1]
      BY <3>2
    <3>6. \A q, r \in Procs : item'[q] = item'[r] /\ item'[q] # Nil => q = r
      BY <1>0, <3>1, <3>5
    <3> QED
      BY <3>3, <3>4, <3>6
  <2>2. CASE ProcDone(p) \/ ProcCancelled(p)
    <3>1. /\ queue' = queue \/ queue' = <<>>
          /\ UNCHANGED enqueued /\ item' = [item EXCEPT ![p] = Nil]
      BY <2>2 DEF ProcDone, ProcCancelled, queueVars
    <3>2. \A i \in DOMAIN queue' : i \in DOMAIN queue /\ queue'[i] = queue[i] /\ queue[i] > 0
      <4>1. CASE queue' = <<>>
        BY <4>1
      <4>2. CASE queue' = queue
        BY <1>0, <4>2
      <4> QED
        BY <3>1, <4>1, <4>2
    <3> QED
      BY <1>0, <3>1, <3>2
  <2>3. CASE ProcBegin(p) \/ ProcOnStart(p) \/ ProcEmpty(p) \/ ProcOnEnd(p) \/ StartStream(p)
    BY <2>3 DEF ProcBegin, ProcOnStart, ProcEmpty, ProcOnEnd, StartStream, queueVars
  <2> QED
    BY <1>3, <2>1, <2>2, <2>3 DEF Proc
<1>4. CASE UNCHANGED QueueAndProcs
  BY <1>4 DEF QueueAndProcs, queueVars, procVars
<1> QED
  BY <1>1, <1>2, <1>3, <1>4, QueueSteps

-----------------------------------------------------------------------------
(* LiveStreamOwned *)

\* A step that touches neither the queue nor a processor nor a stream; it may
\* cancel streams.
Elsewhere ==
    /\ UNCHANGED <<queueVars, procVars, stream, sctx, clears, cutoff>>
    /\ cut \subseteq cut'

LEMMA StreamSteps ==
  ASSUME [Next]_vars
  PROVE  \/ Enqueue \/ Clear \/ (\E p \in Procs : Proc(p))
         \/ (\E s \in Sentences : Stream(s)) \/ Elsewhere
<1> USE DEF Elsewhere, userVars, bridgeVars
<1>1. ASSUME NEW r \in Replies, HandleCompleteResponse(r) \/ Reply(r) PROVE Elsewhere
  BY <1>1 DEF HandleCompleteResponse, Reply, ReplyStart, ReplyEnd, ReplyError, ReplyFail,
     ReplyReturned
<1>2. CASE SpeechStart \/ SpeechEnd
  BY <1>2 DEF SpeechStart, SpeechEnd
<1>3. CASE BridgeStop \/ ClearOnEnd \/ ConnStop \/ PauseOutput \/ ResumeOutput
  BY <1>3 DEF BridgeStop, ClearOnEnd, ConnStop, PauseOutput, ResumeOutput
<1>4. CASE UNCHANGED vars
  BY <1>4 DEF vars
<1>5. ASSUME NEW s \in Sentences, Hang(s) PROVE Elsewhere
  BY <1>5 DEF Hang
<1> QED
  BY <1>1, <1>2, <1>3, <1>4, <1>5 DEF Next, BargeIn

\* Only a Notify ends the open state of a stream, only StartStream begins it.
LEMMA DerivedStep == Typed /\ Holding /\ Ordered /\ Derived /\ [Next]_vars => Derived'
<1> SUFFICES ASSUME Typed, Holding, Ordered, Derived, [Next]_vars,
                    NEW q \in Procs, pc'[q] = "wait", stream'[item'[q]] = "open"
             PROVE  sctx'[item'[q]] = pctx'[q]
  BY DEF Derived
<1> USE DEF Typed, TypeOK, QueueTypes, ProcTypes, BridgeTypes, Derived
<1>1. CASE Enqueue
  BY <1>1 DEF Enqueue, bridgeVars
<1>2. CASE Clear
  BY <1>2 DEF Clear, procVars, bridgeVars
<1>3. ASSUME NEW p \in Procs, Proc(p) PROVE sctx'[item'[q]] = pctx'[q]
  <2>1. CASE StartStream(p)
    <3>1. item[p] \in Sentences /\ UNCHANGED <<item, pctx>>
      BY <2>1 DEF StartStream, Holding, Nil
    <3>2. CASE q = p
      BY <2>1, <3>1, <3>2 DEF StartStream, StreamParent
    <3>3. CASE q # p
      <4>1. pc[q] = "wait" /\ item[q] # item[p]
        BY <2>1, <3>1, <3>3 DEF StartStream, Holding, Ordered
      <4> QED
        BY <2>1, <3>1, <4>1 DEF StartStream
    <3> QED
      BY <3>2, <3>3
  <2>2. CASE ~StartStream(p)
    <3>1. UNCHANGED <<stream, sctx>> /\ q # p
      BY <1>3, <2>2 DEF Proc, ProcBegin, ProcOnStart, ProcDequeue, ProcEmpty, ProcOnEnd,
         ProcDone, ProcCancelled, bridgeVars
    <3>2. pc'[q] = pc[q] /\ item'[q] = item[q] /\ pctx'[q] = pctx[q]
      BY <1>3, <2>2, <3>1 DEF Proc, ProcBegin, ProcOnStart, ProcDequeue, ProcEmpty, ProcOnEnd,
         ProcDone, ProcCancelled
    <3> QED
      BY <3>1, <3>2
  <2> QED
    BY <2>1, <2>2
<1>4. ASSUME NEW s \in Sentences, Stream(s) PROVE sctx'[item'[q]] = pctx'[q]
  <2>1. UNCHANGED <<pc, item, pctx>>
    BY <1>4 DEF Stream, Notify, CloseDone, procVars
  <2>2. item[q] \in Sentences
    BY <2>1 DEF Holding
  <2>3. item[q] # s /\ stream'[item[q]] = stream[item[q]] /\ sctx'[item[q]] = sctx[item[q]]
    BY <1>4, <2>1, <2>2 DEF Stream, Notify, CloseDone
  <2> QED
    BY <2>1, <2>3
<1>5. CASE Elsewhere
  BY <1>5 DEF Elsewhere, procVars
<1> QED
  BY <1>1, <1>2, <1>3, <1>4, <1>5, StreamSteps

LEMMA LiveStreamOwnedStep ==
  Typed /\ Holding /\ Ordered /\ Derived /\ LiveStreamOwned /\ [Next]_vars => LiveStreamOwned'
<1> SUFFICES ASSUME Typed, Holding, Ordered, Derived, LiveStreamOwned, [Next]_vars,
                    NEW s \in Sentences, Alive(s)'
             PROVE  \E p \in Procs : pc'[p] = "wait" /\ item'[p] = s
  BY DEF LiveStreamOwned
<1> USE DEF Typed, TypeOK, QueueTypes, ProcTypes, BridgeTypes
<1>0. ASSUME Alive(s)
      PROVE  \E p \in Procs : pc[p] = "wait" /\ item[p] = s
  BY <1>0 DEF LiveStreamOwned
<1>1. CASE Enqueue
  <2>1. Alive(s) /\ UNCHANGED item
    BY <1>1 DEF Enqueue, bridgeVars, Alive
  <2>2. PICK p \in Procs : pc[p] = "wait" /\ item[p] = s
    BY <1>0, <2>1
  <2>3. p # spawned + 1
    BY <2>2 DEF Holding
  <2>4. pc'[p] = pc[p]
    BY <1>1, <2>3 DEF Enqueue
  <2> QED
    BY <2>1, <2>2, <2>4
<1>2. CASE Clear
  <2>1. Alive(s) /\ UNCHANGED <<pc, item>>
    BY <1>2 DEF Clear, procVars, bridgeVars, Alive
  <2> QED
    BY <1>0, <2>1
<1>3. ASSUME NEW q \in Procs, Proc(q)
      PROVE  \E p \in Procs : pc'[p] = "wait" /\ item'[p] = s
  <2>1. CASE StartStream(q)
    <3>1. CASE s = item[q]
      BY <2>1, <3>1 DEF StartStream
    <3>2. CASE s # item[q]
      <4>1. Alive(s)
        BY <2>1, <3>2 DEF StartStream, Alive, queueVars
      <4>2. PICK p \in Procs : pc[p] = "wait" /\ item[p] = s
        BY <1>0, <4>1
      <4> QED
        BY <2>1, <4>2 DEF StartStream
    <3> QED
      BY <3>1, <3>2
  <2>2. CASE ~StartStream(q)
    <3>1. Alive(s)
      BY <1>3, <2>2 DEF Proc, ProcBegin, ProcOnStart, ProcDequeue, ProcEmpty, ProcOnEnd,
         ProcDone, ProcCancelled, bridgeVars, queueVars, Alive
    <3>2. PICK p \in Procs : pc[p] = "wait" /\ item[p] = s
      BY <1>0, <3>1
    <3>3. p # q
      BY <1>3, <2>2, <3>1, <3>2 DEF Proc, ProcBegin, ProcOnStart, ProcDequeue, ProcEmpty,
         ProcOnEnd, ProcDone, ProcCancelled, Alive, Derived
    <3>4. pc'[p] = pc[p] /\ item'[p] = item[p]
      BY <1>3, <2>2, <3>3 DEF Proc, ProcBegin, ProcOnStart, ProcDequeue, ProcEmpty,
         ProcOnEnd, ProcDone, ProcCancelled
    <3> QED
      BY <3>2, <3>4
  <2> QED
    BY <2>1, <2>2
<1>4. ASSUME NEW t \in Sentences, Stream(t)
      PROVE  \E p \in Procs : pc'[p] = "wait" /\ item'[p] = s
  <2>1. Alive(s) /\ UNCHANGED <<pc, item>>
    BY <1>4 DEF Stream, Notify, CloseDone, procVars, queueVars, Alive
  <2> QED
    BY <1>0, <2>1
<1>5. CASE Elsewhere
  <2>1. Alive(s) /\ UNCHANGED <<pc, item>>
    BY <1>5 DEF Elsewhere, procVars, queueVars, Alive
  <2> QED
    BY <1>0, <2>1
<1> QED
  BY <1>1, <1>2, <1>3, <1>4, <1>5, StreamSteps

\* What a processor holds, and the stream it waits for.
Owning == Typed /\ Holding /\ Ordered /\ Derived /\ LiveStreamOwned

LEMMA OwningAlways == Spec => []Owning
<1>1. Init => Owning
  <2> SUFFICES ASSUME Init PROVE Owning
    OBVIOUS
  <2>1. Holding /\ Derived /\ LiveStreamOwned
    BY DEF Init, Holding, Derived, LiveStreamOwned, Alive
  <2>2. Ordered
    BY DEF Init, Ordered, Nil
  <2> QED
    BY <2>1, <2>2, TypedInit DEF Owning
<1>2. Owning /\ [Next]_vars => Owning'
  BY TypedStep, HoldingStep, OrderedStep, DerivedStep, LiveStreamOwnedStep DEF Owning
<1> QED
  BY <1>1, <1>2, PTL DEF Spec

\* However processors overlap after interruptions, a stream that can still send
\* audio has a processor that waits for it: none plays on unattended.
THEOREM LiveStreamsAreOwned == Spec => []LiveStreamOwned
<1>1. Owning => LiveStreamOwned
  BY DEF Owning
<1> QED
  BY <1>1, OwningAlways, PTL

-----------------------------------------------------------------------------
(* SilencedByBargeIn *)

LEMMA SeparatedStep ==
  Typed /\ ContextLive /\ RoomForOne /\ Separated /\ [Next]_vars => Separated'
<1> SUFFICES ASSUME Typed, ContextLive, RoomForOne, Separated, [Next]_vars PROVE Separated'
  OBVIOUS
<1> USE DEF Typed, TypeOK, QueueTypes, ProcTypes, UserTypes, Separated, Nil
<1>0. clears \in Nat /\ cutoff \in Nat /\ spawned \in Nat /\ cutoff <= spawned
  BY BoundsAssumption
<1>1. CASE Enqueue
  <2>1. UNCHANGED <<clears, cutoff, pctx, dead>>
    BY <1>1 DEF Enqueue, userVars
  <2>2. CASE WasEmpty
    <3>1. qctx' = spawned + 1 /\ pc' = [pc EXCEPT ![spawned + 1] = "spawned"]
      BY <1>1, <2>2 DEF Enqueue
    <3>2. ASSUME clears = 0, NEW p \in Procs PROVE pc[p] \notin {"stream", "wait"}
      <4>1. Cardinality(Active) = 0
        BY <1>0, <2>2, <3>2, ActiveFinite DEF RoomForOne
      <4>2. Active = {}
        BY <4>1, ActiveFinite, FS_EmptySet
      <4> QED
        BY <4>2 DEF Active, ActivePC
    <3> QED
      BY <1>0, <2>1, <3>1, <3>2
  <2>3. CASE ~WasEmpty
    BY <1>1, <2>1, <2>3 DEF Enqueue
  <2> QED
    BY <2>2, <2>3
<1>2. CASE Clear
  <2>1. /\ clears' = clears + 1 /\ qctx' = Nil /\ UNCHANGED <<pc, pctx>>
        /\ dead' = dead \union ({qctx} \ {Nil})
    BY <1>2 DEF Clear, procVars, ClearedContexts
  <2>2. ASSUME clears = 0, NEW p \in Procs, pc[p] \in {"stream", "wait"} PROVE pctx[p] \in dead'
    BY <2>1, <2>2 DEF ContextLive
  <2> QED
    BY <1>0, <2>1, <2>2
<1>3. ASSUME NEW p \in Procs, Proc(p) PROVE Separated'
  <2>1. UNCHANGED <<clears, cutoff, qctx, dead>>
    BY <1>3 DEF Proc, ProcBegin, ProcOnStart, ProcDequeue, ProcEmpty, ProcOnEnd,
       StartStream, ProcDone, ProcCancelled, queueVars, userVars
  <2>2. CASE ProcDequeue(p)
    <3>1. qctx # Nil /\ pctx' = [pctx EXCEPT ![p] = qctx]
      BY <2>2 DEF ProcDequeue, ContextLive
    <3>2. \A q \in Procs : q # p => pc'[q] = pc[q]
      BY <2>2 DEF ProcDequeue
    <3> QED
      BY <2>1, <3>1, <3>2
  <2>3. CASE ~ProcDequeue(p)
    <3>1. \A q \in Procs : pc'[q] \in {"stream", "wait"} =>
                 pc[q] \in {"stream", "wait"} /\ pctx'[q] = pctx[q]
      BY <1>3, <2>3 DEF Proc, ProcBegin, ProcOnStart, ProcEmpty, ProcOnEnd,
         StartStream, ProcDone, ProcCancelled
    <3> QED
      BY <2>1, <3>1
  <2> QED
    BY <2>2, <2>3
<1>4. CASE UNCHANGED QueueAndProcs
  BY <1>4 DEF QueueAndProcs, queueVars, procVars
<1> QED
  BY <1>1, <1>2, <1>3, <1>4, QueueSteps

\* Once the first interruption has cleared the queue, no stream under a context
\* made before it can still send audio, whatever its processor was doing at
\* that moment.
THEOREM BargeInSilences == Spec => []SilencedByBargeIn
<1>1. Spec => []Separated
  <2>1. Init => Separated
    BY DEF Init, Separated
  <2> QED
    BY <2>1, ContextIsLive, RoomForOneAlways, SeparatedStep, PTL DEF Spec
<1>2. Owning /\ ContextLive /\ Separated => SilencedByBargeIn
  <2> SUFFICES ASSUME Owning, ContextLive, Separated, clears <= 1,
                      NEW s \in Sentences, Alive(s)
               PROVE  sctx[s] > cutoff
    BY DEF SilencedByBargeIn
  <2>1. PICK p \in Procs : pc[p] = "wait" /\ item[p] = s
    BY DEF Owning, LiveStreamOwned
  <2>2. sctx[s] = pctx[p] /\ pctx[p] \notin dead
    BY <2>1 DEF Owning, Derived, Alive
  <2>3. pctx[p] \in Nat \ {0}
    BY <2>1 DEF ContextLive, Nil, Owning, Typed, TypeOK, ProcTypes, Procs
  <2>4. clears = 0 \/ clears = 1
    BY BoundsAssumption DEF Owning, Typed, TypeOK, UserTypes
  <2> QED
    BY <2>1, <2>2, <2>3, <2>4 DEF Separated
<1> QED
  BY <1>1, <1>2, OwningAlways, ContextIsLive, PTL

-----------------------------------------------------------------------------
(* ControllerSettles *)

\* Before the first Clear no context is cancelled, and a processor that has
\* begun has left its mark for that Clear to read.
Marked ==
    clears = 0 => /\ dead = {}
                  /\ \A p \in Procs : pc[p] \in ActivePC \ {"spawned"} => started

\* Somebody still has to call OnTTSAudioEnd: a processor that will reach its
\* own end, a complete response, or a Clear that found the queue started.
Owed ==
    \/ \E p \in Procs : \/ pc[p] \in {"loop", "ending"}
                        \/ pc[p] \in {"stream", "wait"} /\ pctx[p] \notin dead
    \/ \E r \in Replies : reply[r] = "open"
    \/ sttPc = "onEnd"
    \/ sttPc = "stop" /\ wasStarted

\* What ControllerSettles says of the states where work is left.
EndOwed == clears <= 1 /\ speech \in {"speaking", "interrupted"} => Owed

\* On a queue that was never interrupted one processor at most is at work, and
\* none when the next Enqueue would start one.
LEMMA LoneProcessor ==
  ASSUME Typed, RoomForOne, clears = 0, NEW p \in Active, NEW q \in Active
  PROVE  p = q /\ ~WasEmpty
<1>1. IsFiniteSet(Active) /\ Cardinality(Active) \in Nat
  BY ActiveFinite
<1>2. Cardinality({p}) = 1 /\ IsFiniteSet({p})
  BY FS_Singleton
<1>3. Cardinality({p}) <= Cardinality(Active)
  BY <1>1, FS_Subset
<1>4. ~WasEmpty
  BY <1>1, <1>2, <1>3 DEF RoomForOne
<1>5. ASSUME p # q PROVE FALSE
  <2>1. Cardinality({p} \union {q}) = 2
    BY <1>2, <1>5, FS_AddElement
  <2>2. Cardinality({p} \union {q}) <= Cardinality(Active)
    BY <1>1, FS_Subset
  <2> QED
    BY <1>1, <1>4, <2>1, <2>2 DEF RoomForOne
<1> QED
  BY <1>4, <1>5

LEMMA MarkedStep ==
  ASSUME Typed, RoomForOne, Marked, [Next]_vars
  PROVE  Marked'
<1> SUFFICES ASSUME clears' = 0
             PROVE  /\ dead' = {}
                    /\ \A p \in Procs : pc'[p] \in ActivePC \ {"spawned"} => started'
  BY DEF Marked
<1> USE DEF Typed, TypeOK, ProcTypes
<1>1. CASE Enqueue
  <2>1. clears = 0 /\ dead' = {}
    BY <1>1 DEF Enqueue, userVars, Marked
  <2>2. ASSUME NEW p \in Procs, pc'[p] \in ActivePC \ {"spawned"} PROVE started'
    <3>1. pc[p] \in ActivePC \ {"spawned"} /\ p \in Active
      BY <1>1, <2>2 DEF Enqueue, Active
    <3>2. ~WasEmpty
      BY <2>1, <3>1, LoneProcessor
    <3> QED
      BY <1>1, <2>1, <3>1, <3>2 DEF Enqueue, Marked
  <2> QED
    BY <2>1, <2>2
<1>2. CASE Clear
  BY <1>2, BoundsAssumption DEF Clear, UserTypes
<1>3. ASSUME NEW p \in Procs, Proc(p)
      PROVE  /\ dead' = {}
             /\ \A q \in Procs : pc'[q] \in ActivePC \ {"spawned"} => started'
  <2>1. clears = 0 /\ UNCHANGED dead
    BY <1>3 DEF Proc, ProcBegin, ProcOnStart, ProcDequeue, ProcEmpty, ProcOnEnd,
       StartStream, ProcDone, ProcCancelled, queueVars, userVars
  <2>2. CASE ProcBegin(p)
    BY <2>1, <2>2 DEF ProcBegin, Marked
  <2>3. CASE ProcEmpty(p)
    <3>1. ASSUME NEW q \in Procs, pc'[q] \in ActivePC PROVE FALSE
      <4>1. p \in Active /\ q \in Active /\ q # p
        BY <2>3, <3>1 DEF ProcEmpty, Active, ActivePC
      <4> QED
        BY <2>1, <4>1, LoneProcessor
    <3> QED
      BY <2>1, <3>1 DEF Marked
  <2>4. CASE ProcCancelled(p)
    BY <2>1, <2>4 DEF ProcCancelled, Marked
  <2>5. CASE ProcOnStart(p) \/ ProcDequeue(p) \/ ProcOnEnd(p) \/ StartStream(p) \/ ProcDone(p)
    <3>1. UNCHANGED started
      BY <2>5 DEF ProcOnStart, ProcDequeue, ProcOnEnd, StartStream, ProcDone, queueVars
    <3>2. ASSUME NEW q \in Procs, pc'[q] \in ActivePC \ {"spawned"}
          PROVE  pc[q] \in ActivePC \ {"spawned"}
      BY <2>5, <3>2 DEF ProcOnStart, ProcDequeue, ProcOnEnd, StartStream, ProcDone, ActivePC
    <3> QED
      BY <2>1, <3>1, <3>2 DEF Marked
  <2> QED
    BY <1>3, <2>2, <2>3, <2>4, <2>5 DEF Proc
<1>4. CASE UNCHANGED QueueAndProcs
  BY <1>4 DEF QueueAndProcs, queueVars, procVars, Marked
<1> QED
  BY <1>1, <1>2, <1>3, <1>4, QueueSteps

\* A processor's step ends the speech, or leaves the call of OnTTSAudioEnd with
\* the processor.
LEMMA EndOwedProc ==
  ASSUME Typed, ContextLive, EndOwed, NEW p \in Procs, Proc(p)
  PROVE  EndOwed'
<1> USE DEF Typed, TypeOK, ProcTypes
<1>1. CASE ProcOnStart(p)
  BY <1>1 DEF ProcOnStart, EndOwed, Owed
<1>2. CASE ProcOnEnd(p)
  BY <1>2 DEF ProcOnEnd, OnTTSAudioEnd, EndOwed
<1>3. CASE \/ ProcBegin(p) \/ ProcDequeue(p) \/ ProcEmpty(p) \/ StartStream(p)
           \/ ProcDone(p) \/ ProcCancelled(p)
  <2>1. UNCHANGED <<speech, clears, dead, reply, sttPc, wasStarted>>
    BY <1>3 DEF ProcBegin, ProcDequeue, ProcEmpty, StartStream, ProcDone, ProcCancelled,
       queueVars, replyVars, userVars
  <2>2. ASSUME NEW q \in Procs, \/ pc[q] \in {"loop", "ending"}
                                \/ pc[q] \in {"stream", "wait"} /\ pctx[q] \notin dead
        PROVE  \/ pc'[q] \in {"loop", "ending"}
               \/ pc'[q] \in {"stream", "wait"} /\ pctx'[q] \notin dead'
    <3>1. CASE q # p
      BY <1>3, <2>1, <2>2, <3>1 DEF ProcBegin, ProcDequeue, ProcEmpty, StartStream, ProcDone,
         ProcCancelled
    <3>2. CASE q = p
      BY <1>3, <2>1, <2>2, <3>2 DEF ProcBegin, ProcDequeue, ProcEmpty, StartStream, ProcDone,
         ProcCancelled, ContextLive
    <3> QED
      BY <3>1, <3>2
  <2> QED
    BY <2>1, <2>2 DEF EndOwed, Owed
<1> QED
  BY <1>1, <1>2, <1>3 DEF Proc

LEMMA EndOwedStep ==
  ASSUME Typed, Holding, ContextLive, Marked, EndOwed, [Next]_vars
  PROVE  EndOwed'
<1> USE DEF Typed, TypeOK
<1>1. CASE Enqueue
  <2>1. UNCHANGED <<speech, clears, dead, reply, sttPc, wasStarted, pctx>>
    BY <1>1 DEF Enqueue, replyVars, userVars
  <2>2. ASSUME NEW q \in Procs, pc[q] # "none" PROVE pc'[q] = pc[q]
    <3>1. q # spawned + 1
      BY <2>2, BoundsAssumption DEF Holding, QueueTypes, Procs
    <3> QED
      BY <1>1, <3>1 DEF Enqueue, ProcTypes
  <2> QED
    BY <2>1, <2>2 DEF EndOwed, Owed
<1>2. ASSUME NEW p \in Procs, Proc(p) PROVE EndOwed'
  BY <1>2, EndOwedProc
<1>3. ASSUME NEW s \in Sentences, Stream(s) \/ Hang(s) PROVE EndOwed'
  BY <1>3 DEF Stream, Notify, CloseDone, Hang, queueVars, procVars, replyVars, userVars,
     EndOwed, Owed
<1>4. ASSUME NEW r \in Replies, HandleCompleteResponse(r) \/ Reply(r) PROVE EndOwed'
  <2>1. UNCHANGED <<clears, dead, pc, pctx, sttPc, wasStarted>>
    BY <1>4 DEF HandleCompleteResponse, Reply, ReplyStart, ReplyEnd, ReplyError, ReplyFail,
       ReplyReturned, queueVars, procVars, userVars
  <2>2. CASE ReplyEnd(r) \/ ReplyError(r) \/ ReplyFail(r)
    BY <2>2 DEF ReplyEnd, ReplyError, ReplyFail, OnTTSAudioEnd, EndOwed
  <2>3. CASE ReplyStart(r)
    BY <2>3 DEF ReplyStart, ReplyTypes, EndOwed, Owed
  <2>4. CASE HandleCompleteResponse(r) \/ ReplyReturned(r)
    <3>1. UNCHANGED speech /\ \A q \in Replies : reply[q] = "open" => reply'[q] = "open"
      BY <2>4 DEF HandleCompleteResponse, ReplyReturned, ReplyTypes
    <3> QED
      BY <2>1, <3>1 DEF EndOwed, Owed
  <2> QED
    BY <1>4, <2>2, <2>3, <2>4 DEF Reply
<1>5. CASE SpeechStart \/ SpeechEnd
  <2>1. UNCHANGED <<clears, dead, pc, pctx, reply>> /\ sttPc = "idle"
    BY <1>5 DEF SpeechStart, SpeechEnd, queueVars, procVars, replyVars
  <2>2. speech' \in {"speaking", "interrupted"} => speech \in {"speaking", "interrupted"}
    BY <1>5 DEF SpeechStart, SpeechEnd, OnUserSpeechStart
  <2> QED
    BY <2>1, <2>2 DEF EndOwed, Owed
<1>6. CASE Clear
  <2> SUFFICES ASSUME clears' <= 1, speech' \in {"speaking", "interrupted"} PROVE Owed'
    BY DEF EndOwed
  <2>1. /\ clears = 0 /\ UNCHANGED <<speech, pc, pctx, reply>>
        /\ sttPc = "clear" /\ sttPc' = "stop" /\ wasStarted' = started
    BY <1>6, BoundsAssumption DEF Clear, UserTypes, procVars, replyVars
  <2>2. Owed
    BY <2>1 DEF EndOwed
  <2>3. CASE \E p \in Procs : pc[p] \in {"stream", "wait"}
    <3>1. started
      BY <2>1, <2>3 DEF Marked, ActivePC
    <3> QED
      BY <2>1, <3>1 DEF Owed
  <2>4. CASE ~\E p \in Procs : pc[p] \in {"stream", "wait"}
    BY <2>1, <2>2, <2>4 DEF Owed
  <2> QED
    BY <2>3, <2>4
<1>7. CASE BridgeStop
  BY <1>7 DEF BridgeStop, ReportEnd, queueVars, procVars, replyVars, EndOwed, Owed
<1>8. CASE ClearOnEnd
  BY <1>8 DEF ClearOnEnd, OnTTSAudioEnd, EndOwed
<1>9. CASE ConnStop \/ PauseOutput \/ ResumeOutput
  BY <1>9 DEF ConnStop, PauseOutput, ResumeOutput, queueVars, procVars, replyVars, EndOwed, Owed
<1>10. CASE UNCHANGED vars
  BY <1>10 DEF vars, queueVars, procVars, replyVars, userVars, EndOwed, Owed
<1> QED
  BY <1>1, <1>2, <1>3, <1>4, <1>5, <1>6, <1>7, <1>8, <1>9, <1>10 DEF Next, BargeIn

\* Up to and including the first barge-in every OnTTSAudioStart finds its
\* OnTTSAudioEnd, from the processor, the complete response or Clear: when all
\* synthesis is over the controller is not left speaking or interrupted.
THEOREM ControllerComesToRest == Spec => []ControllerSettles
<1>1. Spec => []Marked
  <2>1. Init => Marked
    BY DEF Init, Marked, ActivePC
  <2> QED
    BY <2>1, RoomForOneAlways, MarkedStep, PTL DEF Spec
<1>2. Spec => []EndOwed
  <2>1. Init => EndOwed
    BY DEF Init, EndOwed
  <2>2. Owning => Typed /\ Holding
    BY DEF Owning
  <2> QED
    BY <1>1, <2>1, <2>2, OwningAlways, ContextIsLive, EndOwedStep, PTL DEF Spec
<1>3. Typed /\ EndOwed => ControllerSettles
  BY DEF Typed, TypeOK, UserTypes, SpeechState, EndOwed, Owed, ControllerSettles, AtRest
<1> QED
  BY <1>2, <1>3, RoomForOneAlways, PTL

-----------------------------------------------------------------------------
(* TTSPlayback implements SentenceLife *)

\* A sentence whose stream was started is out of the queue for good; a
\* processor starts the stream of what it holds once, and then waits for it.
Progressed ==
    /\ \A s \in Sentences : stream[s] # "none" => s <= enqueued /\ s \notin InQueue
    /\ \A p \in Procs : pc[p] = "stream" => stream[item[p]] = "none"
    /\ \A p \in Procs : pc[p] = "wait" => stream[item[p]] # "none"

LEMMA ProgressedStep == Owning /\ Progressed /\ [Next]_vars => Progressed'
<1> SUFFICES ASSUME Owning, Progressed, [Next]_vars PROVE Progressed'
  OBVIOUS
<1> USE DEF Owning, Typed, TypeOK, QueueTypes, ProcTypes, BridgeTypes, Progressed, InQueue
<1>1. CASE Enqueue
  <2>1. /\ UNCHANGED <<stream, item>> /\ enqueued' = enqueued + 1
        /\ queue' = Append(queue, enqueued + 1)
    BY <1>1 DEF Enqueue, bridgeVars
  <2>2. ASSUME NEW s \in Sentences, stream[s] # "none" PROVE s <= enqueued' /\ s \notin InQueue'
    BY <2>1, <2>2, BoundsAssumption DEF Sentences
  <2>3. ASSUME NEW p \in Procs, pc'[p] # "spawned" PROVE pc'[p] = pc[p]
    BY <1>1, <2>3 DEF Enqueue
  <2> QED
    BY <2>1, <2>2, <2>3
<1>2. CASE Clear
  BY <1>2 DEF Clear, procVars, bridgeVars
<1>3. ASSUME NEW p \in Procs, Proc(p) PROVE Progressed'
  <2>1. CASE ProcDequeue(p)
    <3>1. /\ queue # <<>> /\ queue' = Tail(queue) /\ UNCHANGED <<enqueued, stream>>
          /\ item' = [item EXCEPT ![p] = queue[1]] /\ pc' = [pc EXCEPT ![p] = "stream"]
      BY <2>1 DEF ProcDequeue, AfterDequeue, bridgeVars
    <3>2. ASSUME NEW s \in Sentences, s \in InQueue' PROVE s \in InQueue
      BY <3>1, <3>2
    <3>3. queue[1] \in InQueue /\ queue[1] \in Sentences
      BY <3>1
    <3> QED
      BY <3>1, <3>2, <3>3
  <2>2. CASE StartStream(p)
    <3>1. /\ item[p] \in Sentences /\ UNCHANGED <<queue, enqueued, item>>
          /\ stream' = [stream EXCEPT ![item[p]] = "open"]
          /\ pc' = [pc EXCEPT ![p] = "wait"]
      BY <2>2 DEF StartStream, queueVars, Holding, Nil
    <3>2. item[p] <= enqueued /\ item[p] \notin InQueue
      BY <3>1 DEF Ordered, Sentences
    <3>3. ASSUME NEW q \in Procs, q # p, pc[q] = "stream" PROVE item[q] # item[p]
      BY <3>1, <3>3 DEF Holding, Ordered
    <3> QED
      BY <3>1, <3>2, <3>3
  <2>3. CASE ~ProcDequeue(p) /\ ~StartStream(p)
    <3>1. /\ queue' = queue \/ queue' = <<>>
          /\ UNCHANGED <<enqueued, stream>>
      BY <1>3, <2>3 DEF Proc, ProcBegin, ProcOnStart, ProcEmpty, ProcOnEnd, ProcDone,
         ProcCancelled, queueVars, bridgeVars
    <3>2. ASSUME NEW q \in Procs, pc'[q] \in {"stream", "wait"}
          PROVE  pc'[q] = pc[q] /\ item'[q] = item[q]
      BY <1>3, <2>3, <3>2 DEF Proc, ProcBegin, ProcOnStart, ProcEmpty, ProcOnEnd, ProcDone,
         ProcCancelled
    <3>3. \A s \in Sentences : s \in InQueue' => s \in InQueue
      BY <3>1
    <3> QED
      BY <3>1, <3>2, <3>3
  <2> QED
    BY <2>1, <2>2, <2>3
<1>4. ASSUME NEW s \in Sentences, Stream(s) PROVE Progressed'
  <2>1. /\ UNCHANGED <<queue, enqueued, pc, item>>
        /\ \A t \in Sentences : stream'[t] = "none" <=> stream[t] = "none"
    BY <1>4 DEF Stream, Notify, CloseDone, MayNotify, queueVars, procVars
  <2>2. \A p \in Procs : pc[p] \in {"stream", "wait"} => item[p] \in Sentences
    BY DEF Holding
  <2> QED
    BY <2>1, <2>2
<1>5. CASE Elsewhere
  BY <1>5 DEF Elsewhere, queueVars, procVars
<1> QED
  BY <1>1, <1>2, <1>3, <1>4, <1>5, StreamSteps

\* A step that leaves each sentence's place alone is a stutter of SentenceLife.
LEMMA LifeStutter ==
  ASSUME UNCHANGED <<enqueued, clears>>,
         \A s \in Sentences : /\ s \in InQueue' <=> s \in InQueue
                              /\ stream'[s] = "none" <=> stream[s] = "none"
                              /\ stream[s] = "none" => (s \in Held' <=> s \in Held)
  PROVE  UNCHANGED Life!vars
<1>1. ASSUME NEW s \in Sentences PROVE LifeOf'[s] = LifeOf[s]
  BY <1>1 DEF LifeOf
<1>2. UNCHANGED LifeOf
  BY <1>1 DEF LifeOf
<1> QED
  BY <1>2 DEF Life!vars

\* Emptying the queue is a Drop, by an interruption or in its wake.
LEMMA LifeDrop ==
  ASSUME Owning, Progressed, queue' = <<>>, UNCHANGED enqueued,
         clears' \in {clears, clears + 1},
         \A s \in Sentences : /\ stream'[s] = "none" <=> stream[s] = "none"
                              /\ stream[s] = "none" => (s \in Held' <=> s \in Held)
  PROVE  Life!Next
<1> USE DEF Owning, Typed, TypeOK, QueueTypes, ProcTypes
<1>1. \A s \in Sentences : s \notin InQueue'
  BY DEF InQueue
<1>2. ASSUME NEW s \in Sentences, s \in InQueue
      PROVE  s <= enqueued /\ stream[s] = "none" /\ s \notin Held
  BY <1>2 DEF InQueue, Held, Ordered, Progressed, Sentences
<1>3. ASSUME NEW s \in Sentences PROVE s \in InQueue <=> LifeOf[s] = "queued"
  BY <1>2, <1>3, BoundsAssumption DEF LifeOf, Sentences
<1>4. ASSUME NEW s \in Sentences
      PROVE  LifeOf'[s] = IF LifeOf[s] = "queued" THEN "dropped" ELSE LifeOf[s]
  BY <1>1, <1>2, <1>3, <1>4, BoundsAssumption DEF LifeOf, Sentences
<1>5. LifeOf' = [s \in Life!Sentences |->
                    IF s \in Life!Queued THEN "dropped" ELSE LifeOf[s]]
  BY <1>4 DEF LifeOf, Sentences, Life!Sentences, Life!Queued
<1> QED
  BY <1>5 DEF Life!Drop, Life!Next

\* The sentences that are taken and not yet started are held by processors, one
\* each, so those before the one a processor starts are at most as many as the
\* other processors.
LEMMA FewOvertaken ==
  ASSUME Owning, Progressed, RoomForOne, NEW p \in Procs, pc[p] = "stream"
  PROVE  Cardinality({t \in Life!Claimed : t < item[p]}) <= clears
<1> DEFINE Before == {t \in Life!Claimed : t < item[p]}
<1> DEFINE Others == Active \ {p}
<1> USE DEF Owning, Typed, TypeOK
<1>1. /\ IsFiniteSet(Active) /\ p \in Active
      /\ Cardinality(Active) \in Nat /\ clears \in Nat
  BY ActiveFinite, BoundsAssumption DEF Active, ActivePC, UserTypes
<1>2. IsFiniteSet(Others) /\ Cardinality(Others) = Cardinality(Active) - 1
  BY <1>1, FS_RemoveElement
<1>3. Cardinality(Active) <= 1 + clears
  BY <1>1 DEF RoomForOne
<1>4. ASSUME NEW t \in Before PROVE \E q \in Others : item[q] = t
  <2>1. t \in Sentences /\ LifeOf[t] = "claimed" /\ t < item[p]
    BY DEF Life!Claimed, Life!Sentences, Sentences
  <2>2. t \in Held
    BY <2>1 DEF LifeOf
  <2>3. PICK q \in Procs : item[q] = t
    BY <2>2 DEF Held
  <2>4. item[q] # Nil /\ q # p
    BY <2>1, <2>3, BoundsAssumption DEF Sentences, Nil, ProcTypes
  <2>5. q \in Others
    BY <2>4 DEF Holding, Active, ActivePC
  <2> QED
    BY <2>3, <2>5
<1>5. IsFiniteSet({item[q] : q \in Others}) /\ Cardinality({item[q] : q \in Others}) <= Cardinality(Others)
  <2> DEFINE f == [q \in Others |-> item[q]]
  <2>1. f \in Surjection(Others, {item[q] : q \in Others})
    BY DEF Surjection
  <2> QED
    BY <1>2, <2>1, FS_Surjection
<1>6. Before \subseteq {item[q] : q \in Others}
  BY <1>4
<1>7. IsFiniteSet(Before) /\ Cardinality(Before) <= Cardinality({item[q] : q \in Others})
  BY <1>5, <1>6, FS_Subset
<1>8. Cardinality(Before) \in Nat /\ Cardinality({item[q] : q \in Others}) \in Nat
  BY <1>5, <1>7, FS_CardinalityType
<1> QED
  BY <1>1, <1>2, <1>3, <1>5, <1>7, <1>8

\* SentenceLife counts with the same operator.
LEMMA SameCardinality == \A S : Life!Cardinality(S) = Cardinality(S)
  BY DEF Life!Cardinality, Cardinality, Life!IsFiniteSet, IsFiniteSet

LEMMA LifeStep ==
  Owning /\ Progressed /\ RoomForOne /\ [Next]_vars => [Life!Next]_(Life!vars)
<1> SUFFICES ASSUME Owning, Progressed, RoomForOne, [Next]_vars
             PROVE  [Life!Next]_(Life!vars)
  OBVIOUS
<1> USE DEF Owning, Typed, TypeOK, QueueTypes, ProcTypes, BridgeTypes
<1>1. CASE Enqueue
  <2> DEFINE n == enqueued + 1
  <2>1. /\ n \in Sentences /\ UNCHANGED <<stream, item, clears>> /\ enqueued' = n
        /\ queue' = Append(queue, n)
    BY <1>1, BoundsAssumption DEF Enqueue, bridgeVars, userVars, Sentences
  <2>2. \A s \in Sentences : s \in InQueue' <=> s \in InQueue \/ s = n
    <3>1. queue' = Append(queue, n) /\ n \in Sentences /\ queue \in Seq(Sentences)
      BY <2>1
    <3>2. /\ DOMAIN queue' = DOMAIN queue \union {Len(queue) + 1}
          /\ queue'[Len(queue) + 1] = n
          /\ \A i \in DOMAIN queue : queue'[i] = queue[i]
      BY <3>1
    <3> QED
      BY <3>2 DEF InQueue
  <2>3. ASSUME NEW s \in Sentences
        PROVE  LifeOf'[s] = IF s = n THEN "queued" ELSE LifeOf[s]
    BY <2>1, <2>2, <2>3, BoundsAssumption DEF LifeOf, Held, Sentences
  <2>4. LifeOf' = [LifeOf EXCEPT ![n] = "queued"]
    BY <2>1, <2>3 DEF LifeOf
  <2>5. LifeOf[n] = "new" /\ \A t \in 1..(n - 1) : LifeOf[t] # "new"
    BY <2>1, BoundsAssumption DEF LifeOf, Sentences
  <2> QED
    BY <2>1, <2>4, <2>5 DEF Life!Accept, Life!Next, Life!Sentences, Sentences
<1>2. CASE Clear
  BY <1>2, LifeDrop DEF Clear, procVars, bridgeVars, Held
<1>3. ASSUME NEW p \in Procs, Proc(p) PROVE [Life!Next]_(Life!vars)
  <2>1. CASE ProcDequeue(p)
    <3> DEFINE h == queue[1]
    <3>1. /\ queue # <<>> /\ queue' = Tail(queue) /\ UNCHANGED <<enqueued, stream, clears>>
          /\ item' = [item EXCEPT ![p] = h] /\ h \in Sentences
      BY <2>1 DEF ProcDequeue, AfterDequeue, bridgeVars, userVars
    <3>2. item[p] = Nil
      BY <2>1 DEF ProcDequeue, Holding
    <3>3. h \in InQueue /\ h \notin InQueue' /\ h <= enqueued /\ stream[h] = "none" /\ h \in Held'
      BY <3>1 DEF InQueue, Held, Ordered, Progressed, Sentences
    <3>4. ASSUME NEW s \in Sentences, s # h PROVE s \in InQueue' <=> s \in InQueue
      <4>1. ASSUME s \in InQueue PROVE s \in InQueue'
        <5>1. PICK i \in DOMAIN queue : queue[i] = s
          BY <4>1 DEF InQueue
        <5>2. i - 1 \in DOMAIN queue' /\ queue'[i - 1] = s
          BY <3>1, <3>4, <5>1
        <5> QED
          BY <5>2 DEF InQueue
      <4>2. ASSUME s \in InQueue' PROVE s \in InQueue
        BY <3>1, <4>2 DEF InQueue
      <4> QED
        BY <4>1, <4>2
    <3>5. ASSUME NEW s \in Sentences, s # h PROVE s \in Held' <=> s \in Held
      BY <3>1, <3>2, <3>5 DEF Held, Sentences, Nil
    <3>6. ASSUME NEW s \in Sentences
          PROVE  LifeOf'[s] = IF s = h THEN "claimed" ELSE LifeOf[s]
      BY <3>1, <3>3, <3>4, <3>5, <3>6, BoundsAssumption DEF LifeOf, Sentences
    <3>7. LifeOf' = [LifeOf EXCEPT ![h] = "claimed"]
      BY <3>1, <3>6 DEF LifeOf
    <3>8. LifeOf[h] = "queued"
      BY <3>1, <3>3, BoundsAssumption DEF LifeOf, Sentences
    <3>9. ASSUME NEW t \in Sentences, LifeOf[t] = "queued" PROVE h <= t
      <4>1. t \in InQueue
        BY <3>9 DEF LifeOf
      <4>2. PICK i \in DOMAIN queue : queue[i] = t
        BY <4>1 DEF InQueue
      <4>3. 1 \in DOMAIN queue /\ i \in Nat /\ (i = 1 \/ 1 < i)
        BY <3>1, <4>2
      <4>4. i = 1 \/ h < t
        BY <4>2, <4>3 DEF Ordered
      <4>5. h \in Nat /\ t \in Nat /\ (t = h \/ h < t)
        BY <3>1, <4>2, <4>4 DEF Sentences
      <4> QED
        BY <4>5
    <3> QED
      BY <3>1, <3>7, <3>8, <3>9 DEF Life!Claim, Life!Queued, Life!Next, Life!Sentences, Sentences
  <2>2. CASE StartStream(p)
    <3> DEFINE h == item[p]
    <3>1. /\ h \in Sentences /\ UNCHANGED <<queue, enqueued, item, clears>>
          /\ stream' = [stream EXCEPT ![h] = "open"] /\ stream[h] = "none"
      BY <2>2 DEF StartStream, queueVars, userVars, Holding, Nil, Progressed
    <3>2. h <= enqueued /\ h \notin InQueue /\ h \in Held
      BY <3>1 DEF Ordered, InQueue, Held, Sentences
    <3>3. \A s \in Sentences : (s \in InQueue' <=> s \in InQueue) /\ (s \in Held' <=> s \in Held)
      BY <3>1 DEF InQueue, Held
    <3>4. ASSUME NEW s \in Sentences
          PROVE  LifeOf'[s] = IF s = h THEN "spoken" ELSE LifeOf[s]
      BY <3>1, <3>2, <3>3, <3>4, BoundsAssumption DEF LifeOf, Sentences
    <3>5. LifeOf' = [LifeOf EXCEPT ![h] = "spoken"]
      BY <3>1, <3>4 DEF LifeOf
    <3>6. LifeOf[h] = "claimed"
      BY <3>1, <3>2, BoundsAssumption DEF LifeOf, Sentences
    <3>7. Cardinality({t \in Life!Claimed : t < h}) <= clears
      BY <2>2, FewOvertaken DEF StartStream
    <3>8. h \in Life!Claimed /\ h \in Life!Sentences
      BY <3>1, <3>6 DEF Life!Claimed, Life!Sentences, Sentences
    <3>9. Life!Speak(h)
      BY <3>1, <3>5, <3>7, <3>8, SameCardinality DEF Life!Speak
    <3> QED
      BY <3>8, <3>9 DEF Life!Next
  <2>3. CASE ProcDone(p) \/ ProcCancelled(p)
    <3>1. UNCHANGED <<enqueued, stream, clears>> /\ item' = [item EXCEPT ![p] = Nil] /\ pc[p] = "wait"
      BY <2>3 DEF ProcDone, ProcCancelled, queueVars, bridgeVars, userVars
    <3>2. ASSUME NEW s \in Sentences, stream[s] = "none" PROVE s \in Held' <=> s \in Held
      BY <3>1, <3>2 DEF Held, Progressed, Sentences, Nil
    <3>3. CASE ProcDone(p)
      <4>1. \A s \in Sentences : s \in InQueue' <=> s \in InQueue
        BY <3>3 DEF ProcDone, queueVars, InQueue
      <4> QED
        BY <3>1, <3>2, <4>1, LifeStutter
    <3>4. CASE ProcCancelled(p)
      <4>1. queue' = <<>>
        BY <3>4 DEF ProcCancelled
      <4> QED
        BY <3>1, <3>2, <4>1, LifeDrop
    <3> QED
      BY <2>3, <3>3, <3>4
  <2>4. CASE ProcBegin(p) \/ ProcOnStart(p) \/ ProcEmpty(p) \/ ProcOnEnd(p)
    <3>1. UNCHANGED <<enqueued, queue, stream, item, clears>>
      BY <2>4 DEF ProcBegin, ProcOnStart, ProcEmpty, ProcOnEnd, queueVars, bridgeVars, userVars
    <3> QED
      BY <3>1, LifeStutter DEF InQueue, Held
  <2> QED
    BY <1>3, <2>1, <2>2, <2>3, <2>4 DEF Proc
<1>4. ASSUME NEW s \in Sentences, Stream(s) PROVE [Life!Next]_(Life!vars)
  <2>1. /\ UNCHANGED <<queue, enqueued, item, clears>>
        /\ \A t \in Sentences : stream'[t] = "none" <=> stream[t] = "none"
    BY <1>4 DEF Stream, Notify, CloseDone, MayNotify, queueVars, procVars, userVars
  <2> QED
    BY <2>1, LifeStutter DEF InQueue, Held
<1>5. CASE Elsewhere
  <2>1. UNCHANGED <<queue, enqueued, item, stream, clears>>
    BY <1>5 DEF Elsewhere, queueVars, procVars
  <2> QED
    BY <2>1, LifeStutter DEF InQueue, Held
<1> QED
  BY <1>1, <1>2, <1>3, <1>4, <1>5, StreamSteps

\* The queue, its processors and the bridge implement SentenceLife: a sentence
\* is taken from the front of the queue and started, each at most once, or
\* dropped with all that waits with it and then never started; and when it is
\* started, the earlier ones that are taken and not yet started are at most as
\* many as there were interruptions, so none on an uninterrupted queue.
THEOREM Refinement == Spec => ImplementsSentenceLife
<1>1. Init => Progressed /\ Life!Init
  <2> SUFFICES ASSUME Init PROVE Progressed /\ Life!Init
    OBVIOUS
  <2>1. Progressed
    BY DEF Init, Progressed
  <2>2. \A s \in Sentences : s > enqueued
    BY BoundsAssumption DEF Init, Sentences
  <2>3. LifeOf = [s \in Life!Sentences |-> "new"]
    BY <2>2 DEF LifeOf, Life!Sentences, Sentences
  <2> QED
    BY <2>1, <2>3 DEF Init, Life!Init
<1>2. Spec => []Progressed
  BY <1>1, OwningAlways, ProgressedStep, PTL DEF Spec
<1> QED
  BY <1>1, <1>2, OwningAlways, RoomForOneAlways, LifeStep, PTL DEF Spec, ImplementsSentenceLife, Life!Spec

=============================================================================
