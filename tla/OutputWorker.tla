---------------------------- MODULE OutputWorker ----------------------------
(***************************************************************************)
(* The audio output of a realtime connection: the frame channel, the       *)
(* worker that paces it onto the RTP track, Flush and its stop channel,    *)
(* the pending counter behind WaitForDrain, Pause, Resume and Stop, called *)
(* by the goroutines that share them:                                      *)
(*   - Streams: the receive goroutine of one synthesis, which sends its    *)
(*     frames through SendAudio and then waits for the drain;              *)
(*   - Workers: one run goroutine per opening of the data channel;         *)
(*   - the callbacks of the peer connection, which say that it is         *)
(*     connected, and of the data channel, which start a worker;           *)
(*   - the STT read loop, which flushes, pauses and resumes;               *)
(*   - the closer of the connection, which stops the worker.               *)
(***************************************************************************)
EXTENDS Naturals, Sequences, FiniteSets

CONSTANTS Streams, Workers,
          Frames,      \* frames each stream sends
          BufferSize,  \* capacity of the frame channel
          MaxFlushes,  \* flushes by the read loop
          MayClose     \* whether the connection is closed in this instance

NoFrame == 0

ASSUME OutputAssumption ==
    /\ IsFiniteSet(Streams)
    /\ IsFiniteSet(Workers)
    /\ Streams \intersect Workers = {} /\ NoFrame \notin Streams
    /\ Frames \in Nat
    /\ BufferSize \in Nat \ {0}
    /\ MaxFlushes \in Nat
    /\ MayClose \in BOOLEAN

StreamPC  == {"send", "checked", "pushed", "enter", "waiting", "woken", "returned"}
WorkerPC  == {"new", "load", "select", "got", "owe", "drain", "drainOwe", "drainSpin", "cas", "exited"}
FlusherPC == {"idle", "drain", "drainOwe", "drainSpin", "pause"}

VARIABLES
    queue,     \* the frame channel: who sent each frame
    closed,    \* the channel was closed by Stop
    pending,   \* OutputWorker.pending
    stopId,    \* which channel stopCh points to; every earlier one is closed
    wstop,     \* the stop channel each worker loaded
    paused,    \* Conn.paused and OutputWorker.paused
    muted,     \* Conn.ttsStopped
    connected, \* Conn.connected
    spc,       \* where each stream is
    left,      \* frames it still has to send
    wpc,       \* where each worker is
    hand,      \* the frame a worker took from the channel
    fpc,       \* where the read loop is
    flushes,   \* flushes so far
    cpc,       \* where Conn.Close is
    panicked,  \* a send on the closed channel ended the process: whatever the
               \* model does after it is not looked at
    clamped    \* decrements that found pending at zero, on the open channel
               \* (history)

chanVars   == <<queue, closed>>
countVars  == <<pending, clamped>>
flagVars   == <<paused, muted, connected>>
streamVars == <<spc, left>>
workerVars == <<wstop, wpc, hand>>
loopVars   == <<fpc, flushes>>
closeVars  == <<cpc, panicked>>
vars == <<chanVars, countVars, flagVars, streamVars,
          workerVars, loopVars, closeVars, stopId>>

-----------------------------------------------------------------------------
(* The pending counter *)

\* Mutant: a frame is taken off the counter twice.
DecrementTwice == IF pending > 1 THEN pending - 2 ELSE 0

\* decrementPending clamps at zero.
Decremented == IF pending > 0 THEN pending - 1 ELSE 0

\* Whether decrementPending broadcasts.
Broadcasts == Decremented = 0

\* decrementPending, with the effect of its Broadcast on the waiting streams.
DecrementPending ==
    /\ pending' = Decremented
    /\ clamped' = IF pending = 0 /\ ~closed THEN clamped + 1 ELSE clamped
    /\ spc' = IF Broadcasts
              THEN [t \in Streams |-> IF spc[t] = "waiting" THEN "woken" ELSE spc[t]]
              ELSE spc

-----------------------------------------------------------------------------
(* SendAudio, Enqueue and WaitForDrain *)

\* SendAudio reads the flags under the lock and goes on without it; a frame it
\* drops counts as sent.
SendAudio(t) ==
    /\ spc[t] = "send"
    /\ left[t] > 0
    /\ IF connected /\ ~paused /\ ~muted
       THEN spc' = [spc EXCEPT ![t] = "checked"] /\ UNCHANGED left
       ELSE left' = [left EXCEPT ![t] = @ - 1] /\ UNCHANGED spc
    /\ UNCHANGED <<stopId, chanVars, countVars, flagVars, workerVars, loopVars,
                   closeVars>>

\* The channel send of Enqueue: a full channel drops the frame, a closed one
\* panics.
Enqueue(t) ==
    /\ spc[t] = "checked"
    /\ left' = [left EXCEPT ![t] = @ - 1]
    /\ panicked' = (panicked \/ closed)
    /\ IF ~closed /\ Len(queue) < BufferSize
       THEN queue' = Append(queue, t) /\ spc' = [spc EXCEPT ![t] = "pushed"]
       ELSE UNCHANGED queue /\ spc' = [spc EXCEPT ![t] = "send"]
    /\ UNCHANGED <<closed, stopId, cpc, countVars, flagVars, workerVars,
                   loopVars>>

\* The increment comes after the send.
CountFrame(t) ==
    /\ spc[t] = "pushed"
    /\ pending' = pending + 1
    /\ spc' = [spc EXCEPT ![t] = "send"]
    /\ UNCHANGED <<stopId, left, clamped, chanVars, flagVars, workerVars,
                   loopVars, closeVars>>

FinishSending(t) ==
    /\ spc[t] = "send"
    /\ left[t] = 0
    /\ spc' = [spc EXCEPT ![t] = "enter"]
    /\ UNCHANGED <<stopId, left, chanVars, countVars, flagVars, workerVars,
                   loopVars, closeVars>>

\* The loop condition of WaitForDrain.
StaysWaiting(t) == pending > 0

WaitForDrain(t) ==
    /\ spc[t] \in {"enter", "woken"}
    /\ spc' = [spc EXCEPT ![t] = IF StaysWaiting(t) THEN "waiting" ELSE "returned"]
    /\ UNCHANGED <<stopId, left, chanVars, countVars, flagVars, workerVars,
                   loopVars, closeVars>>

-----------------------------------------------------------------------------
(* Connecting: frames are accepted from here on *)

\* The peer connection is up: no worker is started for that.  It may come up
\* again, and after Close.
PeerConnected ==
    /\ ~connected
    /\ connected' = TRUE
    /\ UNCHANGED <<stopId, paused, muted, chanVars, countVars, streamVars,
                   workerVars, loopVars, closeVars>>

\* A data channel opens, which starts a worker.
ChannelOpens(w) ==
    /\ wpc[w] = "new"
    /\ connected' = TRUE
    /\ wpc' = [wpc EXCEPT ![w] = "load"]
    /\ UNCHANGED <<stopId, paused, muted, wstop, hand, chanVars, countVars,
                   streamVars, loopVars, closeVars>>

-----------------------------------------------------------------------------
(* The worker *)

Load(w) ==
    /\ wpc[w] = "load"
    /\ wstop' = [wstop EXCEPT ![w] = stopId]
    /\ wpc' = [wpc EXCEPT ![w] = "select"]
    /\ UNCHANGED <<stopId, hand, chanVars, countVars, flagVars, streamVars,
                   loopVars, closeVars>>

SelectStop(w) ==
    /\ wpc[w] = "select"
    /\ wstop[w] < stopId
    /\ wpc' = [wpc EXCEPT ![w] = "drain"]
    /\ UNCHANGED <<stopId, wstop, hand, chanVars, countVars, flagVars,
                   streamVars, loopVars, closeVars>>

SelectFrame(w) ==
    /\ wpc[w] = "select"
    /\ queue # <<>>
    /\ queue' = Tail(queue)
    /\ hand' = [hand EXCEPT ![w] = Head(queue)]
    /\ wpc' = [wpc EXCEPT ![w] = "got"]
    /\ UNCHANGED <<closed, stopId, wstop, countVars, flagVars, streamVars,
                   loopVars, closeVars>>

\* Mutant: the worker does not ask whether the channel was closed.
SelectClosedUnchecked(w) ==
    /\ wpc[w] = "select"
    /\ queue = <<>> /\ closed
    /\ wpc' = [wpc EXCEPT ![w] = "load"]
    /\ UNCHANGED <<stopId, wstop, hand, chanVars, countVars, flagVars,
                   streamVars, loopVars, closeVars>>

SelectClosed(w) ==
    /\ wpc[w] = "select"
    /\ queue = <<>>
    /\ closed
    /\ wpc' = [wpc EXCEPT ![w] = "exited"]
    /\ UNCHANGED <<stopId, wstop, hand, chanVars, countVars, flagVars,
                   streamVars, loopVars, closeVars>>

\* Written to the track, or dropped when paused; either way still pending.
Play(w) ==
    /\ wpc[w] = "got"
    /\ hand' = [hand EXCEPT ![w] = NoFrame]
    /\ wpc' = [wpc EXCEPT ![w] = "owe"]
    /\ UNCHANGED <<stopId, wstop, chanVars, countVars, flagVars, streamVars,
                   loopVars, closeVars>>

Played(w) ==
    /\ wpc[w] = "owe"
    /\ DecrementPending
    /\ wpc' = [wpc EXCEPT ![w] = "load"]
    /\ UNCHANGED <<stopId, wstop, left, hand, chanVars, flagVars, loopVars,
                   closeVars>>

-----------------------------------------------------------------------------
(* drain, which the worker and Flush both run *)

\* Mutant: drain waits for the next frame instead of stopping at none.
DrainNextBlocking(at) ==
    IF queue # <<>> THEN "drainOwe" ELSE "drain"

\* Mutant: the worker returns after a flush instead of going on.
DrainNextReturns(at) ==
    CASE queue # <<>>           -> "drainOwe"
      [] queue = <<>> /\ closed -> "drainSpin"
      [] OTHER                  -> IF at = "cas" THEN "exited" ELSE at

\* Mutant: a frame is thrown away without being taken off the counter.
DrainNextUncounted(at) ==
    CASE queue # <<>>           -> "drain"
      [] queue = <<>> /\ closed -> "drainSpin"
      [] OTHER                  -> at

\* Where one iteration of drain leads: a frame taken, a zero value received
\* from the closed channel, or the end of the loop, which leads to `at'.
DrainNext(at) ==
    CASE queue # <<>>           -> "drainOwe"
      [] queue = <<>> /\ closed -> "drainSpin"
      [] OTHER                  -> at

\* What is left in the channel after the receive.
DrainLeaves == IF queue # <<>> THEN Tail(queue) ELSE queue

WorkerDrain(w) ==
    /\ wpc[w] = "drain"
    /\ queue' = DrainLeaves
    /\ wpc' = [wpc EXCEPT ![w] = DrainNext("cas")]
    /\ UNCHANGED <<closed, stopId, wstop, hand, countVars, flagVars,
                   streamVars, loopVars, closeVars>>

WorkerDrained(w) ==
    /\ wpc[w] \in {"drainOwe", "drainSpin"}
    /\ DecrementPending
    /\ wpc' = [wpc EXCEPT ![w] = "drain"]
    /\ UNCHANGED <<stopId, wstop, left, hand, chanVars, flagVars, loopVars,
                   closeVars>>

\* The swap succeeds only on the channel the worker loaded.
CompareAndSwap(w) ==
    /\ wpc[w] = "cas"
    /\ stopId' = IF stopId = wstop[w] THEN stopId + 1 ELSE stopId
    /\ wpc' = [wpc EXCEPT ![w] = "load"]
    /\ UNCHANGED <<wstop, hand, chanVars, countVars, flagVars, streamVars,
                   loopVars, closeVars>>

\* The end of stopTTS: StopTTS, then Flush, which replaces and closes the stop
\* channel and drains.
Flush ==
    /\ fpc = "idle"
    /\ flushes < MaxFlushes
    /\ flushes' = flushes + 1
    /\ muted' = TRUE
    /\ stopId' = stopId + 1
    /\ fpc' = "drain"
    /\ UNCHANGED <<paused, connected, chanVars, countVars, streamVars,
                   workerVars, closeVars>>

FlushDrain ==
    /\ fpc = "drain"
    /\ queue' = DrainLeaves
    /\ fpc' = DrainNext("pause")
    /\ UNCHANGED <<closed, stopId, flushes, countVars, flagVars, streamVars,
                   workerVars, closeVars>>

FlushDrained ==
    /\ fpc \in {"drainOwe", "drainSpin"}
    /\ DecrementPending
    /\ fpc' = "drain"
    /\ UNCHANGED <<stopId, left, flushes, chanVars, flagVars, workerVars,
                   closeVars>>

\* The last of the barge-in actions.
PauseOutput ==
    /\ fpc = "pause"
    /\ paused' = TRUE
    /\ fpc' = "idle"
    /\ UNCHANGED <<stopId, muted, connected, flushes, chanVars, countVars,
                   streamVars, workerVars, closeVars>>

\* The user stopped speaking.
ResumeOutput ==
    /\ fpc = "idle"
    /\ paused
    /\ paused' = FALSE
    /\ muted' = FALSE
    /\ UNCHANGED <<stopId, connected, chanVars, countVars, streamVars,
                   workerVars, loopVars, closeVars>>

-----------------------------------------------------------------------------
(* Conn.Close *)

Disconnect ==
    /\ MayClose
    /\ cpc = "open"
    /\ connected' = FALSE
    /\ cpc' = "stop"
    /\ UNCHANGED <<stopId, paused, muted, panicked, chanVars, countVars,
                   streamVars, workerVars, loopVars>>

Stop ==
    /\ cpc = "stop"
    /\ closed' = TRUE
    /\ cpc' = "join"
    /\ UNCHANGED <<queue, stopId, panicked, countVars, flagVars, streamVars,
                   workerVars, loopVars>>

\* wg.Wait, for the workers that were started.
Join ==
    /\ cpc = "join"
    /\ \A w \in Workers : wpc[w] \in {"new", "exited"}
    /\ cpc' = "closed"
    /\ UNCHANGED <<stopId, panicked, chanVars, countVars, flagVars, streamVars,
                   workerVars, loopVars>>

-----------------------------------------------------------------------------
Init ==
    /\ queue = <<>>
    /\ closed = FALSE
    /\ pending = 0
    /\ stopId = 0
    /\ wstop = [w \in Workers |-> 0]
    /\ paused = FALSE
    /\ muted = FALSE
    /\ connected = FALSE
    /\ spc = [t \in Streams |-> "send"]
    /\ left = [t \in Streams |-> Frames]
    /\ wpc = [w \in Workers |-> "new"]
    /\ hand = [w \in Workers |-> NoFrame]
    /\ fpc = "idle"
    /\ flushes = 0
    /\ cpc = "open"
    /\ panicked = FALSE
    /\ clamped = 0

Stream(t) ==
    SendAudio(t) \/ Enqueue(t) \/ CountFrame(t) \/ FinishSending(t) \/ WaitForDrain(t)

Worker(w) ==
    \/ Load(w) \/ SelectStop(w) \/ SelectFrame(w) \/ SelectClosed(w) \/ Play(w)
    \/ Played(w) \/ WorkerDrain(w) \/ WorkerDrained(w) \/ CompareAndSwap(w)

ReadLoop == FlushDrain \/ FlushDrained \/ PauseOutput

Closer == Stop \/ Join

Next ==
    \/ \E t \in Streams : Stream(t)
    \/ \E w \in Workers : ChannelOpens(w) \/ Worker(w)
    \/ PeerConnected
    \/ Flush \/ ReadLoop \/ ResumeOutput
    \/ Disconnect \/ Closer

Spec == Init /\ [][Next]_vars

\* Every goroutine that can run eventually runs; when and how often the user
\* interrupts, and whether the connection comes up or closes, is left open.
Fairness ==
    /\ \A t \in Streams : WF_vars(Stream(t))
    /\ \A w \in Workers : WF_vars(Worker(w))
    /\ WF_vars(ReadLoop)
    /\ WF_vars(Closer)

FairSpec == Spec /\ Fairness

-----------------------------------------------------------------------------
(* Properties *)

\* Sends whose increment is still to come, and frames taken from the channel
\* whose decrement is still to come.
Uncounted == {t \in Streams : spc[t] = "pushed"}
WorkersOwing == {w \in Workers : wpc[w] \in {"got", "owe", "drainOwe"}}
FlusherOwes == IF fpc = "drainOwe" THEN 1 ELSE 0

FlagTypes ==
    /\ closed \in BOOLEAN /\ paused \in BOOLEAN /\ muted \in BOOLEAN
    /\ connected \in BOOLEAN /\ panicked \in BOOLEAN

ChannelTypes == queue \in Seq(Streams) /\ Len(queue) <= BufferSize

CountTypes == pending \in Nat /\ clamped \in Nat /\ stopId \in Nat

StreamTypes == spc \in [Streams -> StreamPC] /\ left \in [Streams -> 0..Frames]

WorkerTypes ==
    /\ wstop \in [Workers -> Nat]
    /\ wpc \in [Workers -> WorkerPC]
    /\ hand \in [Workers -> Streams \union {NoFrame}]

CallerTypes ==
    /\ fpc \in FlusherPC
    /\ flushes \in 0..MaxFlushes
    /\ cpc \in {"open", "stop", "join", "closed"}

\* The channel respects its capacity, the counter stays natural and no stream
\* sends more than its frames.
TypeOK ==
    FlagTypes /\ ChannelTypes /\ CountTypes /\ StreamTypes /\ WorkerTypes /\ CallerTypes

\* The pending counter against what is really outstanding: until the channel
\* is closed it exceeds the frames in the channel and in somebody's hands by
\* exactly the decrements that were clamped, whatever the interleaving of
\* senders, workers and flushes.  So it never undercounts, and WaitForDrain
\* never returns over a frame that was counted.
Accounting ==
    ~closed =>
        pending + Cardinality(Uncounted)
            = Len(queue) + Cardinality(WorkersOwing) + FlusherOwes + clamped

\* With a single stream, WaitForDrain returns only when all its frames have
\* left the channel and the hands of the worker.
DrainedMeansGone ==
    ~closed => \A t \in Streams : spc[t] = "returned" =>
        /\ \A i \in DOMAIN queue : queue[i] # t
        /\ \A w \in Workers : hand[w] # t

\* The data channel has opened.
Started == \E w \in Workers : wpc[w] # "new"

\* Once a worker was started, whatever is in the channel is played or thrown
\* away, closed or not, unless a send on the closed channel has ended the
\* process.  A connection whose data channel never opens keeps its frames, and
\* who waits for the drain waits for ever.
QueueDrains == queue # <<>> /\ Started ~> queue = <<>> \/ panicked

\* Flush returns, unless the connection closes meanwhile: on the closed channel
\* drain receives zero values for ever.
FlushReturns == fpc = "drain" ~> fpc = "idle" \/ closed

\* Stop returns: closing the channel gets every worker out of its loop, unless
\* a worker was in drain, sent there by a flush, when it met the closed
\* channel: it receives zero values for ever.
StopCompletes ==
    cpc = "join" ~> cpc = "closed" \/ panicked \/ \E w \in Workers : wpc[w] = "drainSpin"

=============================================================================
