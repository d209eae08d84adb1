---------------------------- MODULE TTSPlayback ----------------------------
(***************************************************************************)
(* Speech output of one voice session: the sentence queue (TTSQueue), the  *)
(* synthesis bridge (TTSBridge, doneNotifier), the complete-response path  *)
(* (handleCompleteResponse, synthesizeResponse), the barge-in state        *)
(* machine (SpeechController) and the mute flags of the realtime           *)
(* connection, run by the goroutines that really share them:               *)
(*   - the STT read loop, which calls onSpeechStart and onSpeechEnd;       *)
(*   - the bridge subscription, which delivers agent responses;            *)
(*   - one processQueue goroutine per Enqueue on an idle queue;            *)
(*   - one Synthesize goroutine per sentence and per complete response.    *)
(* Every critical section of the code is one action; what a goroutine does *)
(* between two locks is a step of its own.                                 *)
(***************************************************************************)
EXTENDS Naturals, Sequences, FiniteSets

CONSTANTS MaxSentences,  \* sentences the agents produce in the session
          MaxReplies,    \* complete (unstreamed) responses
          MaxTurns       \* times the user starts to speak

ASSUME BoundsAssumption ==
    /\ MaxSentences \in Nat
    /\ MaxReplies \in Nat
    /\ MaxTurns \in Nat

\* A sentence is named by the order of its Enqueue.  A context made by Enqueue
\* and the processQueue goroutine started with it share one name.
Sentences == 1..MaxSentences
Procs     == 1..MaxSentences
Replies   == 1..MaxReplies
Nil       == 0

ActivePC == {"spawned", "starting", "loop", "stream", "wait"}
ProcPC   == {"none", "ending", "exited"} \union ActivePC
SttPC    == {"idle", "clear", "stop", "onEnd", "connStop", "pause", "resume"}
SpeechState == {"idle", "listening", "speaking", "interrupted"}

VARIABLES
    queue,      \* TTSQueue.queue
    qctx,       \* TTSQueue.ctx (and .cancel, which is nil exactly when ctx is)
    playing,    \* TTSQueue.playing
    started,    \* TTSQueue.started
    dead,       \* contexts made by Enqueue that were cancelled
    pc,         \* where each processQueue goroutine is
    item,       \* its local sentence
    pctx,       \* its local ctx
    spawned,    \* processQueue goroutines started so far
    enqueued,   \* sentences enqueued so far
    stream,     \* state of the synthesis of each sentence
    sctx,       \* the context an open stream was derived from
    cut,        \* open streams whose own context the bridge cancelled
    hung,       \* open streams whose end does not come by itself
    inFlight,   \* TTSBridge.inFlight
    bcancel,    \* the sentence TTSBridge.cancel belongs to, or Nil
    reply,      \* state of the synthesis of each complete response
    cancelCh,   \* the reply VoiceSession.ttsCancelCh belongs to, or Nil
    stopped,    \* replies whose cancel channel was closed
    speech,     \* SpeechController.state
    muted,      \* Conn.ttsStopped
    paused,     \* Conn.paused
    sttPc,      \* where the STT read loop is
    wasStarted, \* Clear's local wasStarted
    talking,    \* the user is between speech_started and speech_stopped
    turns,      \* times the user started to speak
    clears,     \* calls of TTSQueue.Clear so far (history)
    cutoff      \* contexts made before the last of them (history)

queueVars  == <<queue, qctx, playing, started, dead, spawned, enqueued>>
procVars   == <<pc, item, pctx>>
bridgeVars == <<stream, sctx, cut, hung, inFlight, bcancel>>
replyVars  == <<reply, cancelCh, stopped>>
userVars   == <<sttPc, wasStarted, talking, turns, clears, cutoff>>
connVars   == <<muted, paused>>
vars == <<queueVars, procVars, bridgeVars, replyVars, speech, connVars, userVars>>

-----------------------------------------------------------------------------
(* SpeechController *)

OnTTSAudioStart == speech' = "speaking"

OnTTSAudioEnd ==
    speech' = IF speech \in {"speaking", "interrupted"} THEN "idle" ELSE speech

\* AllowWhileSpeaking is set for every session by VoiceStarter.
OnUserSpeechStart ==
    speech' = CASE speech = "speaking" -> "interrupted"
                [] speech = "idle"     -> "listening"
                [] OTHER               -> speech

\* Whether OnUserSpeechEnd returns its actions or nil.
EndsUtterance == speech \notin {"interrupted", "speaking"}

-----------------------------------------------------------------------------
(* TTSQueue *)

\* Mutant: a sentence being played does not count as work on the queue.
NothingQueued == queue = <<>>

\* Whether Enqueue finds nobody at work on the queue.
WasEmpty == queue = <<>> /\ ~playing

\* Mutant: the playing flag survives the reset.
GoIdleStillPlaying == started' = FALSE /\ UNCHANGED playing

\* What every exit of a processor, and Clear, does to the flags.
GoIdle == started' = FALSE /\ playing' = FALSE

\* Append under the lock; on an idle queue also make a context and start a
\* processor.
Enqueue ==
    /\ enqueued < MaxSentences
    /\ enqueued' = enqueued + 1
    /\ queue' = Append(queue, enqueued + 1)
    /\ IF WasEmpty
       THEN /\ spawned' = spawned + 1
            /\ qctx' = spawned + 1
            /\ started' = FALSE
            /\ pc' = [pc EXCEPT ![spawned + 1] = "spawned"]
       ELSE UNCHANGED <<spawned, qctx, started, pc>>
    /\ UNCHANGED <<playing, dead, item, pctx, bridgeVars, replyVars, speech,
                   connVars, userVars>>

ProcBegin(p) ==
    /\ pc[p] = "spawned"
    /\ started' = TRUE
    /\ pc' = [pc EXCEPT ![p] = "starting"]
    /\ UNCHANGED <<queue, qctx, playing, dead, spawned, enqueued, item, pctx,
                   bridgeVars, replyVars, speech, connVars, userVars>>

ProcOnStart(p) ==
    /\ pc[p] = "starting"
    /\ OnTTSAudioStart
    /\ pc' = [pc EXCEPT ![p] = "loop"]
    /\ UNCHANGED <<queueVars, item, pctx, bridgeVars, replyVars, connVars, userVars>>

\* What is left in the queue once its head is taken.
AfterDequeue == Tail(queue)

ProcDequeue(p) ==
    /\ pc[p] = "loop"
    /\ queue # <<>>
    /\ queue' = AfterDequeue
    /\ playing' = TRUE
    /\ item' = [item EXCEPT ![p] = Head(queue)]
    /\ pctx' = [pctx EXCEPT ![p] = qctx]
    /\ pc' = [pc EXCEPT ![p] = "stream"]
    /\ UNCHANGED <<qctx, started, dead, spawned, enqueued, bridgeVars, replyVars,
                   speech, connVars, userVars>>

ProcEmpty(p) ==
    /\ pc[p] = "loop"
    /\ queue = <<>>
    /\ GoIdle
    /\ pc' = [pc EXCEPT ![p] = "ending"]
    /\ UNCHANGED <<queue, qctx, dead, spawned, enqueued, item, pctx, bridgeVars,
                   replyVars, speech, connVars, userVars>>

\* onEnd runs after the lock is released.
ProcOnEnd(p) ==
    /\ pc[p] = "ending"
    /\ OnTTSAudioEnd
    /\ pc' = [pc EXCEPT ![p] = "exited"]
    /\ UNCHANGED <<queueVars, item, pctx, bridgeVars, replyVars, connVars, userVars>>

\* The done branch of the select.
ProcDone(p) ==
    /\ pc[p] = "wait"
    /\ stream[item[p]] = "done"
    /\ pc' = [pc EXCEPT ![p] = "loop"]
    /\ item' = [item EXCEPT ![p] = Nil]
    /\ pctx' = [pctx EXCEPT ![p] = Nil]
    /\ UNCHANGED <<queueVars, bridgeVars, replyVars, speech, connVars, userVars>>

\* The ctx.Done branch: it empties the queue, whoever filled it.
ProcCancelled(p) ==
    /\ pc[p] = "wait"
    /\ pctx[p] \in dead
    /\ queue' = <<>>
    /\ GoIdle
    /\ pc' = [pc EXCEPT ![p] = "exited"]
    /\ item' = [item EXCEPT ![p] = Nil]
    /\ pctx' = [pctx EXCEPT ![p] = Nil]
    /\ UNCHANGED <<qctx, dead, spawned, enqueued, bridgeVars, replyVars, speech,
                   connVars, userVars>>

-----------------------------------------------------------------------------
(* TTSBridge *)

\* Calling TTSBridge.cancel, if it is set, ends the stream it belongs to.
CancelStream == {bcancel} \intersect {s \in Sentences : stream[s] = "open"}

\* A stream runs under a child of the context its processor read.
StreamParent(p) == pctx[p]

StartStream(p) ==
    /\ pc[p] = "stream"
    /\ cut' = IF inFlight THEN cut \union CancelStream ELSE cut
    /\ bcancel' = item[p]
    /\ inFlight' = TRUE
    /\ stream' = [stream EXCEPT ![item[p]] = "open"]
    /\ sctx' = [sctx EXCEPT ![item[p]] = StreamParent(p)]
    /\ pc' = [pc EXCEPT ![p] = "wait"]
    /\ UNCHANGED <<queueVars, item, pctx, hung, replyVars, speech, connVars, userVars>>

\* Mutant: only the stream the bridge knows as current reports its end.
MayNotifyIfCurrent(s) == stream[s] = "open" /\ bcancel = s

\* The notifier of a stream runs once, whether or not the stream is current.
MayNotify(s) == stream[s] = "open"

\* OnDone after the drain, OnError, or the return of Synthesize (its context
\* was cancelled): the first of them runs notify.
Notify(s) ==
    /\ MayNotify(s)
    /\ inFlight' = FALSE
    /\ stream' = [stream EXCEPT ![s] = "notifying"]
    /\ sctx' = [sctx EXCEPT ![s] = Nil]
    /\ cut' = cut \ {s}
    /\ hung' = hung \ {s}
    /\ UNCHANGED <<queueVars, procVars, bcancel, replyVars, speech,
                   connVars, userVars>>

\* WaitForAudioDrain in OnDone does not return, or the sidecar never ends the
\* synthesis.
Hang(s) ==
    /\ stream[s] = "open"
    /\ hung' = hung \union {s}
    /\ UNCHANGED <<queueVars, procVars, stream, sctx, cut, inFlight, bcancel, replyVars,
                   speech, connVars, userVars>>

CloseDone(s) ==
    /\ stream[s] = "notifying"
    /\ stream' = [stream EXCEPT ![s] = "done"]
    /\ UNCHANGED <<queueVars, procVars, sctx, cut, hung, inFlight, bcancel, replyVars,
                   speech, connVars, userVars>>

-----------------------------------------------------------------------------
(* Complete responses *)

HandleCompleteResponse(r) ==
    /\ reply[r] = "none"
    /\ cancelCh' = r
    /\ reply' = [reply EXCEPT ![r] = "spawned"]
    /\ UNCHANGED <<queueVars, procVars, bridgeVars, stopped, speech, connVars, userVars>>

ReplyStart(r) ==
    /\ reply[r] = "spawned"
    /\ OnTTSAudioStart
    /\ reply' = [reply EXCEPT ![r] = "open"]
    /\ UNCHANGED <<queueVars, procVars, bridgeVars, cancelCh, stopped, connVars, userVars>>

\* OnDone, or OnError for an error message of the sidecar.  Closing the cancel
\* channel makes Synthesize return but leaves the receiving goroutine, and
\* these callbacks, running under the session's context.
ReplyEnd(r) ==
    /\ reply[r] = "open"
    /\ OnTTSAudioEnd
    /\ reply' = [reply EXCEPT ![r] = "done"]
    /\ UNCHANGED <<queueVars, procVars, bridgeVars, cancelCh, stopped, connVars, userVars>>

\* A transport error: OnError, and then the error Synthesize returns ...
ReplyError(r) ==
    /\ reply[r] = "open"
    /\ OnTTSAudioEnd
    /\ reply' = [reply EXCEPT ![r] = "failed"]
    /\ UNCHANGED <<queueVars, procVars, bridgeVars, cancelCh, stopped, connVars, userVars>>

ReplyFail(r) ==
    /\ reply[r] = "failed"
    /\ OnTTSAudioEnd
    /\ reply' = [reply EXCEPT ![r] = "done"]
    /\ UNCHANGED <<queueVars, procVars, bridgeVars, cancelCh, stopped, connVars, userVars>>

\* ... unless it returned, or now returns, for the closed channel.
ReplyReturned(r) ==
    /\ reply[r] = "failed"
    /\ r \in stopped
    /\ reply' = [reply EXCEPT ![r] = "done"]
    /\ UNCHANGED <<queueVars, procVars, bridgeVars, cancelCh, stopped, speech, connVars, userVars>>

-----------------------------------------------------------------------------
(* The STT read loop: onSpeechStart, onSpeechEnd and their actions *)

SpeechStart ==
    /\ sttPc = "idle"
    /\ ~talking
    /\ turns < MaxTurns
    /\ turns' = turns + 1
    /\ talking' = TRUE
    /\ OnUserSpeechStart
    /\ sttPc' = IF speech = "speaking" THEN "clear" ELSE "idle"
    /\ UNCHANGED <<queueVars, procVars, bridgeVars, replyVars, connVars,
                   wasStarted, clears, cutoff>>

\* Mutant: Clear forgets the context without cancelling it.
ForgetContext == {}

\* The contexts Clear cancels.
ClearedContexts == {qctx} \ {Nil}

\* Mutant: Clear never reports the end of the audio.
NeverReportEnd == FALSE

\* Whether Clear calls onEnd.
ReportEnd == wasStarted

\* Clear, first its critical section...
Clear ==
    /\ sttPc = "clear"
    /\ wasStarted' = started
    /\ queue' = <<>>
    /\ dead' = dead \union ClearedContexts
    /\ qctx' = Nil
    /\ GoIdle
    /\ clears' = clears + 1
    /\ cutoff' = spawned
    /\ sttPc' = "stop"
    /\ UNCHANGED <<spawned, enqueued, procVars, bridgeVars, replyVars, speech,
                   connVars, talking, turns>>

\* ... then bridge.Stop ...
BridgeStop ==
    /\ sttPc = "stop"
    /\ cut' = cut \union CancelStream
    /\ bcancel' = Nil
    /\ inFlight' = FALSE
    /\ sttPc' = IF ReportEnd THEN "onEnd" ELSE "connStop"
    /\ UNCHANGED <<queueVars, procVars, stream, sctx, hung, replyVars, speech, connVars,
                   wasStarted, talking, turns, clears, cutoff>>

\* ... then onEnd.
ClearOnEnd ==
    /\ sttPc = "onEnd"
    /\ OnTTSAudioEnd
    /\ sttPc' = "connStop"
    /\ UNCHANGED <<queueVars, procVars, bridgeVars, replyVars, connVars,
                   wasStarted, talking, turns, clears, cutoff>>

\* The rest of stopTTS: the cancel channel of the latest reply, then the
\* connection.
ConnStop ==
    /\ sttPc = "connStop"
    /\ stopped' = stopped \union ({cancelCh} \ {Nil})
    /\ cancelCh' = Nil
    /\ muted' = TRUE
    /\ sttPc' = "pause"
    /\ UNCHANGED <<queueVars, procVars, bridgeVars, reply, speech, paused,
                   wasStarted, talking, turns, clears, cutoff>>

PauseOutput ==
    /\ sttPc = "pause"
    /\ paused' = TRUE
    /\ sttPc' = "idle"
    /\ UNCHANGED <<queueVars, procVars, bridgeVars, replyVars, speech, muted,
                   wasStarted, talking, turns, clears, cutoff>>

SpeechEnd ==
    /\ sttPc = "idle"
    /\ talking
    /\ talking' = FALSE
    /\ sttPc' = IF EndsUtterance THEN "resume" ELSE "idle"
    /\ UNCHANGED <<queueVars, procVars, bridgeVars, replyVars, speech, connVars,
                   wasStarted, turns, clears, cutoff>>

ResumeOutput ==
    /\ sttPc = "resume"
    /\ paused' = FALSE
    /\ muted' = FALSE
    /\ sttPc' = "idle"
    /\ UNCHANGED <<queueVars, procVars, bridgeVars, replyVars, speech,
                   wasStarted, talking, turns, clears, cutoff>>

-----------------------------------------------------------------------------
Init ==
    /\ queue = <<>>
    /\ qctx = Nil
    /\ playing = FALSE
    /\ started = FALSE
    /\ dead = {}
    /\ spawned = 0
    /\ enqueued = 0
    /\ pc = [p \in Procs |-> "none"]
    /\ item = [p \in Procs |-> Nil]
    /\ pctx = [p \in Procs |-> Nil]
    /\ stream = [s \in Sentences |-> "none"]
    /\ sctx = [s \in Sentences |-> Nil]
    /\ cut = {}
    /\ hung = {}
    /\ inFlight = FALSE
    /\ bcancel = Nil
    /\ reply = [r \in Replies |-> "none"]
    /\ cancelCh = Nil
    /\ stopped = {}
    /\ speech = "idle"
    /\ muted = FALSE
    /\ paused = FALSE
    /\ sttPc = "idle"
    /\ wasStarted = FALSE
    /\ talking = FALSE
    /\ turns = 0
    /\ clears = 0
    /\ cutoff = 0

Proc(p) ==
    \/ ProcBegin(p) \/ ProcOnStart(p) \/ ProcDequeue(p) \/ ProcEmpty(p)
    \/ ProcOnEnd(p) \/ StartStream(p) \/ ProcDone(p) \/ ProcCancelled(p)

Stream(s) == Notify(s) \/ CloseDone(s)

Reply(r) ==
    ReplyStart(r) \/ ReplyEnd(r) \/ ReplyError(r) \/ ReplyFail(r) \/ ReplyReturned(r)

BargeIn == Clear \/ BridgeStop \/ ClearOnEnd \/ ConnStop \/ PauseOutput \/ ResumeOutput

Next ==
    \/ Enqueue
    \/ \E p \in Procs : Proc(p)
    \/ \E s \in Sentences : Stream(s) \/ Hang(s)
    \/ \E r \in Replies : HandleCompleteResponse(r) \/ Reply(r)
    \/ SpeechStart \/ SpeechEnd \/ BargeIn

Spec == Init /\ [][Next]_vars

\* A stream that hangs, and that nobody has cancelled: a cancelled context makes
\* Synthesize return, and notify, whatever its callbacks wait for.
Stuck(s) == stream[s] = "open" /\ s \in hung \ cut /\ sctx[s] \notin dead

\* What goroutines and the read loop do by themselves.  The user, the agents and
\* complete responses owe nothing, and neither does a stream that is stuck.
Work ==
    \/ \E p \in Procs : Proc(p)
    \/ \E s \in Sentences : Stream(s) /\ ~Stuck(s)
    \/ BargeIn

\* As long as some goroutine can take a step, one of them does.  Each takes
\* finitely many steps here, so this is fair to every one of them.
Fairness == WF_vars(Work)

FairSpec == Spec /\ Fairness

-----------------------------------------------------------------------------
(* Properties *)

Active == {p \in Procs : pc[p] \in ActivePC}

\* A stream that can still send audio: neither its own context nor the one it
\* was derived from is cancelled.
Alive(s) == stream[s] = "open" /\ s \notin cut /\ sctx[s] \notin dead

FlagTypes ==
    /\ playing \in BOOLEAN /\ started \in BOOLEAN /\ inFlight \in BOOLEAN
    /\ muted \in BOOLEAN /\ paused \in BOOLEAN
    /\ wasStarted \in BOOLEAN /\ talking \in BOOLEAN

QueueTypes ==
    /\ queue \in Seq(Sentences)
    /\ enqueued \in 0..MaxSentences
    /\ spawned \in 0..enqueued
    /\ qctx \in 0..spawned
    /\ dead \in SUBSET (1..spawned)

ProcTypes ==
    /\ pc \in [Procs -> ProcPC]
    /\ item \in [Procs -> Sentences \union {Nil}]
    /\ pctx \in [Procs -> Procs \union {Nil}]

BridgeTypes ==
    /\ stream \in [Sentences -> {"none", "open", "notifying", "done"}]
    /\ sctx \in [Sentences -> Procs \union {Nil}]
    /\ cut \in SUBSET Sentences /\ hung \in SUBSET Sentences
    /\ bcancel \in Sentences \union {Nil}

ReplyTypes ==
    /\ reply \in [Replies -> {"none", "spawned", "open", "failed", "done"}]
    /\ cancelCh \in Replies \union {Nil}
    /\ stopped \in SUBSET Replies

UserTypes ==
    /\ speech \in SpeechState
    /\ sttPc \in SttPC
    /\ turns \in 0..MaxTurns
    /\ clears \in 0..turns
    /\ cutoff \in 0..spawned

\* Counters respect their bounds (a call of Clear belongs to a turn, a
\* processor and a context to an Enqueue) and variables their types.
TypeOK ==
    FlagTypes /\ QueueTypes /\ ProcTypes /\ BridgeTypes /\ ReplyTypes /\ UserTypes

\* Whenever the queue holds or plays a sentence its context is set and not
\* cancelled: processQueue never hands StartStream a nil context (which would
\* panic in context.WithCancel) and never starts a sentence that was enqueued
\* after an interruption under the context that interruption cancelled.
ContextLive ==
    /\ queue # <<>> \/ playing => qctx # Nil /\ qctx \notin dead
    /\ \A p \in Procs : pc[p] \in {"stream", "wait"} => pctx[p] # Nil

\* Enqueue starts no processor when it sees the queue in use, so somebody must
\* be left to take the sentence: while the queue holds or plays one, some
\* processQueue goroutine is before or in its loop, stale wipes included.
NoLostWakeup == queue # <<>> \/ playing => Active # {}

\* Two processors at once need an interruption between them: there is at most
\* one more of them than there were calls of Clear, so exactly one on a queue
\* that was never interrupted.
ProcessorBound == Cardinality(Active) <= 1 + clears

\* No stream outlives its processor: whoever can still send audio is waited
\* for by a processQueue goroutine, even when processors overlap.
LiveStreamOwned ==
    \A s \in Sentences : Alive(s) => \E p \in Procs : pc[p] = "wait" /\ item[p] = s

\* From the moment the first barge-in has cleared the queue, only streams under
\* a context made after it can still send audio: cancelling the context is
\* enough to silence a processor wherever it is, between taking a sentence and
\* starting its stream included.
SilencedByBargeIn ==
    clears <= 1 => \A s \in Sentences : Alive(s) => sctx[s] > cutoff

AtRest ==
    /\ sttPc = "idle"
    /\ \A p \in Procs : pc[p] \in {"none", "exited"}
    /\ \A r \in Replies : reply[r] \in {"none", "done"}

\* Once all synthesis is over, up to and including the first barge-in, the
\* controller takes the next user speech for an utterance and not for an
\* interruption: every OnTTSAudioStart found its OnTTSAudioEnd.
ControllerSettles == AtRest /\ clears <= 1 => speech \in {"idle", "listening"}

\* A processor that waits for a stuck stream.
Waits(p) == pc[p] = "wait" /\ Stuck(item[p])

\* Once the agents have nothing more to say, every processor that was started
\* has exited, or waits for a stream that hangs and that nobody has cancelled:
\* neither an interruption nor a superseded stream leaves a goroutine waiting
\* for a done that never closes.
ProcessorsExit ==
    <>[](\A p \in Procs : pc[p] \in {"none", "exited"} \/ Waits(p))

\* The queue does not stay filled in the end, unless a processor waits for a
\* stuck stream: a sentence is taken or dropped.
QueueDrains == <>[](queue = <<>> \/ \E p \in Procs : Waits(p))

InQueue == {queue[i] : i \in DOMAIN queue}
Held == {item[p] : p \in Procs}

\* The life of each sentence, as SentenceLife sees it.
LifeOf == [s \in Sentences |->
    IF s > enqueued THEN "new"
    ELSE IF s \in InQueue THEN "queued"
    ELSE IF stream[s] # "none" THEN "spoken"
    ELSE IF s \in Held THEN "claimed" ELSE "dropped"]

Life == INSTANCE SentenceLife WITH life <- LifeOf, cuts <- clears

\* Each sentence is taken from the front of the queue, started at most once and
\* never after it was dropped, and it overtakes at most as many earlier ones,
\* taken and not yet started, as there were interruptions: in order as long as
\* there was none.  The queue, its processors and the bridge together implement
\* SentenceLife.
ImplementsSentenceLife == Life!Spec

=============================================================================
