# Formal models of voice-backend

TLA+ models of the concurrent core of the voice backend, the TLC runs that check
them on small instances, and TLAPS proofs of their most important properties for
every value of the constants.  `PROJECT.json` lists the components, runs,
mutants, hazards and theorems, and maps every definition to the lines
of the source it models.

A run is `tlc -config <cfg> <module>`; a proof is `tlapm <module>.tla`.  An
operator whose comment begins with "Mutant:" is a plausible mistake in the
definition below it; no specification uses it, and each one makes a property
fail when it takes that definition's place.

## 1. The system

A browser opens a WebRTC connection to the Go server.  Its audio goes to a speech
recognition sidecar over gRPC; a final transcript is sent to one or more *agents*
over Redis; their answers come back over Redis, are cut into sentences,
synthesised by a second sidecar service and played on the connection.  The user
may interrupt at any moment (*barge-in*).

```
 peer/Conn --audio--> VoiceSession.audioInLoop --> STT client --> sidecar
                            |   ^ speech start/end, transcript (STT read loop)
   OutputWorker <--frames-- |   |
        ^                   v   |
        |              SpeechController, Arbiter, SentenceBuffer
        |                   |            ^ deltas, done, response
   TTSBridge <-- TTSQueue <-+            | (bridge subscription)
        |                                |
   TTS client --> sidecar          Bridge (Redis) <--> agent connections (WS, SSE)
```

### Inventory

| Component (source) | State | Operations | Shared with | Hard | What makes it correct |
|---|---|---|---|---|---|
| `TTSQueue` (`voicesession/tts_queue.go`) | queue, ctx, playing, started | Enqueue, processQueue, Clear | bridge subscription, one goroutine per processor, STT read loop | a processor between two critical sections while the queue is cleared and refilled | no sentence stranded, none spoken twice, order kept, no use of a dead context |
| `TTSBridge` (`tts_bridge.go`) | inFlight, cancel | StartStream, notify, Stop | processors, synthesis goroutines | notify of a superseded stream | every stream that can be heard is owned; every processor is woken |
| `SpeechController` (`speech.go`) | idle, listening, speaking, interrupted | four transitions | all of the above | starts and ends of overlapping syntheses | it ends up ready for the next utterance |
| `VoiceSession` (`session.go`) | activeAgents, ttsCancelCh | New, onSpeechStart/End, onTranscript, response handlers, stopTTS, Close | everything | handlers run on three kinds of goroutine | one voice per turn; data goes only where it was granted |
| `Arbiter` (`arbiter.go`) | active, winner, started | Start, Decide, Losers, Reset | subscription, read loop, synthesis callbacks | late resets | one voice per turn |
| `SentenceBuffer` (`sentence_buffer.go`) | text, emitted | Add, Flush, Reset | subscription, read loop | shared by all agents | text spoken once, in order |
| `OutputWorker` (`realtime/output.go`) | frame channel, pending, stop channel | Enqueue, run, Flush, WaitForDrain, Pause, Resume, Stop | synthesis goroutines, read loop, closer | atomic pointer swaps, a counter updated after the send | exact accounting; drains, flushes and stops return |
| Calls (`realtime/handler.go`, `connection.go`, `session.go`, `manager.go`, `peer.go`, `gateway/voice_handler.go`, `voicesession/manager.go`) | peer connection, Conn, table entries, clients, queues | offer, answer, candidates, renegotiation, Close | HTTP handlers, pion callbacks | a step fails while callbacks run | a failed call gives everything back |
| `Bridge` (`gateway/bridge.go`) | agent registry, session subscriptions, one response handler | Register, Unregister, Subscribe, Unsubscribe, clean-up, publish | HTTP handlers, sessions, Redis goroutines | replaced connections, one handler for all sessions | only the registered connection is fed; the last session has its answers |
| Agent connections (`ws_conn.go`, `sse_conn.go`, `sse_handler.go`) | send channel, closed, done, online | Send, Close, pumps, handlers | bridge subscription | Close against Send | no duplicate subscription |
| Router (`router/`) | one index for all sessions | Index, Route | sessions | an index made for another session | a session's own agents are asked |
| Vision (`vision/`) | frames in Redis, one last result | capture, store, analyse, take, reset | sessions | one analyser for all sessions | transcripts are not held up, frames do not stay |
| Transcription client (`transcription/client.go`) | stream, channels, reconnect state | send, readLoop, Reconnect, Close | read loop, callers | reconnect against read | one loop, no shared stream, callers return |
| Synthesis client, audio API (`synthesis/client.go`, `audio/`) | stream, pooled buffers | Synthesize, speech, transcription, voices | HTTP handlers, receivers | a receiver that outlives its handler | an answer holds its own audio |
| Agent store (`agent/`) | agents, installs, reviews, vector index | CRUD, publish, install, review, search | HTTP handlers | statements without transactions | counters agree with rows, only published agents are used |
| Users, keys, gateway auth (`user/`, `apikey/`, `auth/`, `gateway/auth.go`) | rows, prefixes | sync, become developer, create, validate | HTTP handlers | whole rows written back | live keys are recognised, roles are kept |
| Health, rate limiter (`health/`, `gateway/middleware.go`) | counters, limiter map | probe, limit, clean-up | requests | checks side by side, limiters thrown away | a truthful probe, a bounded rate |
| Session records (`session/`) | Redis keys | reads | | no production code writes them | |
| Sidecar (`sidecar/`) | engines, models, detector state | transcribe, synthesise | gRPC threads, timers | two locks, a TTL timer | a separate Python process |
| Wiring, shared types, example agents, generated code | none of their own | | | | |

`PROJECT.json` has the same list with the status of each part, and under
"hazards" the places, by line, that a test would hardly reach.

## 2. The modules

| Module | Models | Abstracts |
|---|---|---|
| `TTSPlayback` | `TTSQueue`, `TTSBridge`, `SpeechController`, the complete-response path and the mute flags of `Conn` | audio, text |
| `SentenceLife` | what the queue promises about each sentence | everything else |
| `OutputWorker` | `OutputWorker` and the parts of `Conn` that call it | frame contents and pacing |
| `AgentTurn` | `Arbiter`, `SentenceBuffer`, the handlers of `VoiceSession` | agents, text, speech |
| `AgentRegistry` | the agent registry of `Bridge`, both connection types, the agent subscription | requests, Redis |
| `VoiceSessions` | several sessions on one bridge and one router: subscriptions, answers, routing, scopes | words, Redis, agents |
| `RealtimeCall` | a call from its offer to its end: signalling, `Conn`, `Manager`s, the constructor of a session | SDP, packets |
| `Vision` | capturer, frame store, the shared analyser | images |
| `STTClient` | the transcription client with its reader and its reconnect loop | audio, transcripts |
| `AudioAPI` | speech requests on pooled buffers, `Synthesize`, transcription of files, voices | chunks by their owner |
| `Marketplace` | agents, installations, reviews and the vector index, a database statement at a time | columns no handler decides by |
| `Accounts` | users, API keys, the seed command, who may connect an agent | tokens, hashes |
| `HTTPService` | request counters, the readiness probe, the rate limiter | time |
| `MC...` | values of function constants and symmetry sets for TLC | |
| `TTSPlaybackProofs`, `AgentTurnProofs`, `AgentRegistryProofs`, `VoiceSessionsProofs`, `MarketplaceProofs` | theorems about the module of that name | |
| `RealtimeProofs` | theorems about `OutputWorker`, `RealtimeCall` and `Vision` | |
| `SidecarProofs` | theorems about `STTClient` and `AudioAPI` | |
| `ServerProofs` | theorems about `Accounts` and `HTTPService` | |

`RealtimeProofs`, `SidecarProofs` and `ServerProofs` extend components that live in the
same part of the server and share no name: the specifications of `RealtimeCall`,
`Vision`, `AudioAPI` and `HTTPService` are called `CallSpec`, `VisionSpec`, `AudioSpec` and
`HTTPSpec` for this reason (and likewise their initial states, next-state relations and
tuples of variables), those of the other modules `Spec`.

The models share boundaries: `TTSPlayback` receives sentences at any time where
`AgentTurn` decides when one is handed over; a stream of `TTSPlayback` ends where
a stream of `OutputWorker` returns from `WaitForDrain`; a message in `AgentTurn`
is one that `OnAgentResponse` of `VoiceSessions` has taken; a session of
`VoiceSessions` is opened by `AnswerOffer` of `RealtimeCall`; an agent in
`AgentRegistry` has passed `Connect` of `Accounts`; what `GetInstalledAgents` of
`Marketplace` returns is `Installed` of `VoiceSessions`.  Each side
over-approximates the other, so a property of one does not depend on the details
of the other.

### TTSPlayback

One action per critical section.  `Enqueue` is the whole of `TTSQueue.Enqueue`; a
processor goes through `ProcBegin`, `ProcOnStart`, and then the loop
(`ProcDequeue` or `ProcEmpty`, `StartStream`, and the two branches of the select,
`ProcDone` and `ProcCancelled`), with `ProcOnEnd` after the lock is released.
`Notify` and `CloseDone` are the two halves of `doneNotifier.notify`: whichever of
OnDone, OnError and the return of Synthesize comes first runs it.  A barge-in is
the sequence of the actions of `executeActions`: `Clear`, `BridgeStop`,
`ClearOnEnd`, `ConnStop`, `PauseOutput`.  A context is named by the `Enqueue`
that made it; `dead` is the set of cancelled ones, and a stream can be heard
(`Alive`) while neither its own context nor its parent is cancelled.

`Hang` is a stream whose end does not come by itself, because `WaitForAudioDrain`
in its OnDone does not return (section 6) or the sidecar never ends it; a stream is
`Stuck` when it hangs and nobody has cancelled it.  A cancelled context makes
Synthesize return, and notify, whatever its callbacks wait for.

`SentenceLife` is what this comes to for a sentence: it is accepted, taken from the
front and spoken, or dropped with all that waits.  Its `Speak` lets a sentence
overtake as many earlier ones, taken and not yet spoken, as there were interruptions
(`cuts`), because each may leave one processor over that shares the queue with the
next: without one, sentences are spoken in order.

Assumptions: `AllowWhileSpeaking` is true, as `VoiceStarter.applySessionConfig` sets it; the
recogniser reports speech starts and ends alternately.  `clears` and `cutoff` are
history.

### OutputWorker

A stream goes through the flag check of `SendAudio`, the channel send, the
increment of `pending` (a separate step, as in the code) and finally
`WaitForDrain`.  Stop channels are numbered: `stopId` is the current one, and all
earlier ones are closed, so "the channel I loaded is closed" is
`wstop[w] < stopId`.  A worker exists from the start and runs only from
`ChannelOpens` (`dc.OnOpen`), while `PeerConnected` alone already lets frames into
the channel.  `drain` is run by the worker and by `Flush`; on a closed
channel its receive yields zero values for ever (`drainSpin`).

### AgentTurn

The bridge subscription handles one message at a time, in the steps between the
critical sections of the arbiter and the buffer; the read loop asks and
interrupts; every complete response in synthesis may reset the arbiter when it
ends.  A delta is a numbered piece of text with its author.  The code segments the
whole text of the buffer anew at each `Add` and hands out the sentences beyond the
number already emitted, so a delta may end sentences anywhere in the text, and merge
ones that were handed out ("Dr." and "Smith"), after which the count of emitted
sentences exceeds the complete ones (`Segmentations`, `Added`, `NewComplete`).  The one
thing assumed of the `prose` library is that text once handed out is not split
further.  A piece that ends the text it comes with has `finished` its sentence.
Messages of several agents and
of earlier requests arrive in any order.  A request id is not compared by the
code, and `sub.round` is therefore the arbitration a decision was made in, which
the properties are about.  `StopTTS` is allowed whenever something was spoken,
which is more than the speech controller allows.  One session is modelled;
`VoiceSessions` has several beside each other.

### AgentRegistry

One agent id, since entries of different agents never meet.  A handler registers
(`HandleWebSocket`, or `HandleSSE` and `RegisterSSE`, which are two critical
sections), serves, closes (`Close`, `CloseSend`) and unregisters; the write pump
of a WebSocket may close it first.  A subscription goes through `LoopTop`,
`Receive` and the send of its connection: for a WebSocket the check of the closed
flag and the send are two steps, for SSE one select.  Redis broadcasts to whoever
is subscribed; `ReceiveMessage` may return a message although its context is
cancelled, which covers client versions that do not interrupt a read.  Nothing
depends on what a request says, so channels are counters.  `Bridge.Close` is
called by tests only and is left out.

### VoiceSessions

`New` overwrites the bridge's one response handler (`SetResponseHandler`) and
`SubscribeToSession` adds an entry to its bounded table or fails, in which case the
handler stays; `RemoveSession` and `EndClose` are the two halves of closing, which no
production code calls; `CleanupStale` is the 30-minute clean-up for one entry.  Any
connected agent may publish to any session (`PublishResponse`), asked or not.  The
reader of a subscription is `ReceiveMessage`, `OnAgentResponse` (it calls the
handler that is current, which takes the message only if it is its own) and
`ReaderReturns`; `missed` are the sessions whose answer another session's handler
dropped, `overtaken` those after which another one was opened.  A transcript is
`OnTranscript`, `Index` (the router's index is made once, from the agents of whoever
came first), `GetResult` and `PublishToAgents`, with the router's choice (`Route`,
`SelectByHealth`, `TargetAgents`) and the scope filter (`RelevantScopes`,
`BuildPayload`) as operators.  What an agent is shown is the last result of the
shared analyser, the view of any session (`sees`).  Which words match is any set of
agents.  `ReadPump` and `HandleEvent` are the message types that each transport
forwards.

### RealtimeCall

One action per step of `HandleOffer`, each with its failure and what the failure
gives back; beside it the callbacks of pion: connection state, data channel,
messages (the queue of events that nobody reads fills up and blocks the
callback), audio, video tracks, candidates, and `Close` in its two halves.
After two failures something stays open: the peer connection after `NewPeerFails`,
and after `NewSTT` the connection on which `sendConfig` failed (`unconfigured`).  One
call is modelled, because two calls share nothing but the tables, whose entries do
not meet.  The signalling manager's lock is held while `RemoveSession` closes a
connection; that other calls wait meanwhile is not followed.  A send on a closed
channel ends the process (`crashed`).

### Vision

A frame is known by the session it shows.  `ReadIncomingVideo`, `HandleRTPPacket`
and `Decode` are the guards of a capture; `ProcessFrame` stores it and starts its
TTL; `StopCapturer`, `Cleanup` are the end of a session, where a Redis error leaves
the frames to expire.  The analyser's flag, done channel
and last result are shared by all sessions: `StartAnalysis`, `FetchFrame`,
`StoreResult`, `AnalysisDone`.  The transcript waits (`GetResult`, which may always
time out), resets and is published.

### STTClient

`RecvReady`, `RecvEvent`, `RecvFails` and `ReportError` are the read loop, which
uses the stream and the channels that are current at each turn; `ReconnectSync`,
`WaitReconnect` and the loop from `AttemptFails` to `LeaveLoop` are reconnecting.
Nothing keeps a caller from reconnecting under a live reader: `OnError` runs before
the reader of a failed Recv returns, and for an error of the sidecar with the reader
going on.  `hasty` remembers that a loop was started while a reader was reading, `late`
that the Ready of a replaced stream was handled.  A caller reads `reconnectCh` once
and waits on what it read (`waits`); a channel carries one outcome, so whoever takes
it leaves other waiting callers to wait until `Close`.  A reader has `left` when it
returned or blocks in the send on `errCh`.  The sends of audio change nothing of the
client's state.  No production code reconnects.

### AudioAPI

A speech request is two goroutines: the handler (`HandleSpeech`,
`SynthesizeReturns`) and the receiver (`RecvAudio`, `OnAudio`, `OnDone` and the
failures, of which `SynthRecvFails` is the broken stream).  They meet in the select at the end of `Synthesize`, where a context
that ends lets the handler return, and its buffer go back to the pool, while the
receiver holds a chunk.  The mutex of the callbacks is the request's own, so that
`buf.Write` is two steps, `OnAudio` reading the buffer and `Write` storing into it;
when another receiver has used the buffer in between, `Raced` gives the results the
two writes can have.  A chunk is known by the request it was made for.
Transcriptions and cloned voices are requests of their own.

### Marketplace, Accounts

Every statement is a step, as no handler opens a transaction; a request carries
what it read, and `Abort` is a client that goes away between two statements.
`Save` writes every column of the row it was given (and inserts it when it is
gone).  `SeedUser`, `SeedAPIKey`, `SeedAgent` and `SeedInstall` are the seed command,
each of its statements a step: it installs an agent that is not published and counts
nothing.  `drifted`, `installed`, `everInstalled`, `published`, `claims`, `asked`,
`seeded` and `connected` are history.  `/store` is mounted without
`Authenticate`, so that the code as wired refuses every review; the constant
`ReviewsRouted` is TRUE so that the review handler is checked all the same.

### HTTPService

`Readiness` starts five checks; each reads its dependency at a moment of its own
(`CheckDone`), and `Respond` computes the status once all are there.  An event
passes `GetLimiter`, `MakeLimiter` (two critical sections) and `Allow`; `CleanupLoop`
throws all limiters away, also ones that a request already holds.  `Refill` is what
time gives back.

## 3. The runs

| Run | Instance | Distinct states | Shows |
|---|---|---|---|
| `tts_playback` | 3 sentences, 1 complete response, 1 user turn, fair | 1,163,840 | `ContextLive`, `NoLostWakeup`, `SilencedByBargeIn`, `ControllerSettles`, `ImplementsSentenceLife`, `ProcessorsExit`, `QueueDrains` |
| `output_worker` | 1 stream of 3 frames, channel of 2, 2 flushes, close, fair | 61,514 | `Accounting`, `DrainedMeansGone`, `QueueDrains`, `FlushReturns`, `StopCompletes` |
| `agent_turn` | 2 agents, 2 turns, 3 deltas, 1 barge-in | 1,698,434 | `OneVoicePerTurn`, `WinnerIsNotCancelled`, `AtMostOneStraggler`, `SpokenOnceInOrder` |
| `agent_registry` | 1 WebSocket, 2 SSE connections, 2 requests, channel of 1 | 3,819,234 | `FedIsRegistered`, `AtMostOneAfterCancel`, `OrphansAreAccounted` |
| `voice_sessions` | 2 sessions, 3 agents, table of 1, 2 answers | 667,557 | `AnswersMissedOnlyByOvertaken`, `SubscriptionsAreServed`, `OnlyGrantedIsHeard` |
| `realtime_call` | 1 call, 2 users, queues of 1, 4 inputs, fair | 33,868 | `FailedCallHoldsNothing`, `OffersAreAnswered` |
| `vision` | 2 sessions, 1 transcript each, 2 analyses, fair | 202,705 | `ClosedLeavesNoFrames`, `TranscriptsAreSent` |
| `stt_client` | 2 callers, 2 reconnections of 2 attempts, 3 streams, fair | 338,623 | `OneLoopPerClient`, `ReadyClosedOnce`, `OneReaderPerStream`, `ReconnectsSettle` |
| `audio_api` | 2 speech requests, 2 buffers, 2 chunks at most | 710,460 | `OwnAudioWhole`, `ForeignAudioOnlyFromCutOff` |
| `marketplace` | 2 users, 1 agent and the seeded one, 5 requests, 2 at once | 2,176,668 | `CountersExact`, `RatingsAreEarned`, `OnlyPublishedIsUsed` |
| `accounts` | 2 users, 3 secrets of which 2 share a prefix, 3 requests, 2 at once, the seed command | 3,080,998 | `ValidateIsExact`, `StableClaimsKeepStatus`, `OnlySeededKeysConnect` |
| `http_service` | 1 probe, 2 changes, 4 events, 2 at once, 1 clean-up | 978,000 | `ProbeIsTruthful`, `WithinBudget` |

Why the bounds are enough: three sentences and a barge-in give two processors at
once that share a queue of two, and a stale one that wipes the queue of a newer one
(the safety properties with more interruptions are covered by the theorems, and the
same run with two sentences and two turns passes as well); three frames on a channel
of two fill it and drop one;
two turns give a reset that belongs to the turn before, and three deltas a
sentence of two pieces next to a rest; three connections give a late
unregistration and a connection accepted beside the orphan; a table of one
subscription is full with one session, and the clean-up still lets a second one
open beside it; three streams give a reconnection that follows a reconnection;
two chunks are the limit of an answer, so a third overflows; five requests give an
install, its removal and a stale save between them; one clean-up separates two
periods of a limiter.  The invariants that are also proved hold for all bounds.
Deadlock checking is off because each instance stops when its bounded inputs are
used up.

Fairness.  `TTSPlayback`: as long as a processor, a barge-in action or a stream that is
not stuck can take a step, one of them does, because they are goroutines that run
until they block.  A stream that is stuck, and the complete responses, owe nothing.
`OutputWorker`: streams, workers, the rest of a flush and the
closer, for the same reason.  `RealtimeCall`: the steps of `HandleOffer` and of
`Close`; opening a stream ends, because gRPC bounds a connection attempt and the
client does not ask it to wait until the sidecar is ready.  `Vision`: the clean-up, the store, the wait of a
transcript (it has a timeout) and the TTL of frames whose session has ended; the
analysis itself need not end.  `STTClient`: the reconnect loop, the failing
receive of a cancelled stream and the waiting callers.  Nothing is asked of the
user, the agents, the sidecar or the moment a connection closes.

Some properties carry a condition that the code needs.  `SilencedByBargeIn` and
`ControllerSettles` are stated up to the first `Clear`: with a second one in the
same session a processor of before the first can have read a newer context, and
be heard, or report its start last.  `ProcessorsExit` and the `QueueDrains` of
`TTSPlayback` except a processor that waits for a stuck stream; the `QueueDrains` of
`OutputWorker` a connection whose data channel never opens; `FlushReturns` a connection
that closes; `StopCompletes` a worker that was in `drain` when it met the closed
channel; and `OutputWorker`'s liveness ends with a send on the closed channel, which
ends the process.  `OneVoicePerTurn` does not cover unfinished text: what a loser has
left in the shared buffer is spoken inside the winner's next sentence.
`AnswersMissedOnlyByOvertaken` gives up the sessions after which another was opened,
and `OnlyGrantedIsHeard` does not say whose camera an agent with the grant of vision
is shown.  `ReadyClosedOnce` excepts the late Ready of a replaced stream,
`OneReaderPerStream` a reconnection that was asked for under a live reader,
`ReconnectsSettle` a caller whose outcome another has taken.  `OwnAudioWhole` and
`ForeignAudioOnlyFromCutOff` except the requests into whose buffer a receiver wrote
that was left by the context of its own request.  `CountersExact` excepts the agents
whose counter a stale save, a clamped decrement, an abandoned request or the seed
command has shifted, `OnlyPublishedIsUsed` the seeded installation,
`StableClaimsKeepStatus` the users whose claims changed, and `FailedCallHoldsNothing`
the connections of a failing `NewPeer` and of a failing `sendConfig`.  Each exception
is something the code does.

## 4. The proofs

All theorems hold for any number of sentences, turns, streams, workers, agents,
connections, users, keys or requests; they assume only the named assumptions of the
modules: bounds are naturals, the sets that are counted are finite and disjoint where
they are of different kinds, and the value that stands for "no row", "no limiter" or "no
frame" is none of the rows, limiters or streams.  The one
further hypothesis is that of `DrainIsReal`, a single stream, which is the
property's own condition.

* `TTSPlaybackProofs`: `TypeCorrect`, `ContextIsLive`, `WakeupIsNeverLost`,
  `ProcessorsAreBounded`, `LiveStreamsAreOwned`, `BargeInSilences`,
  `ControllerComesToRest`, `Refinement`.
  `ContextLive` and `NoLostWakeup` are inductive with the types.
  `ProcessorBound` is not: an `Enqueue` on an idle queue adds a processor, so the
  induction needs room for one more when the queue is idle (`RoomForOne`).
  `LiveStreamOwned` needs that processors hold different sentences, in the state
  their position says (`Holding`), that the queue is ordered and lies behind what
  is held (`Ordered`), and that a stream runs under the context of its processor
  (`Derived`).  `SilencedByBargeIn` needs that before the second `Clear` a
  context made before the first one is cancelled (`Separated`).  `ControllerSettles`
  speaks of states where all work is over, and says nothing on the way there; the
  invariant `EndOwed` says who still has to report an end while the controller is
  speaking or interrupted: a processor that will reach its own end, a complete
  response, or a `Clear` that found the queue started.  That the first `Clear` does
  find it started when it cancels a processor is `Marked`, from `RoomForOne`.  The refinement
  needs in addition that what was started is out of the queue for good (`Progressed`),
  and `FewOvertaken`: the sentences that are taken and not yet started are held by
  processors, one each, so `RoomForOne` bounds how many a sentence overtakes.
* `RealtimeProofs`, on `OutputWorker`: `TypeCorrect`, `AccountsAreExact` and
  `DrainIsReal`.  The argument for the second is that each step changes at most one member of one of
  the counted sets (`Counted`) and that a decrement either balances a debt or is
  clamped and counted as such (`DecrementBalance`).  `DrainIsReal` follows from it:
  when the only stream has counted its frames, a counter of zero leaves none in the
  channel or in a hand (`ZeroMeansGone`), and a stream that has returned sends no
  more (`Gone`).  It covers any number of workers.
* `RealtimeProofs`, on `RealtimeCall`: `FailureLeavesNothing`.  The invariant `CallInv`
  says for every position of `HandleOffer` what a call may hold there (`Acquired`): an
  error path moves on only when it has given back what the steps before it took, also
  while the callbacks of pion run and close the connection themselves; and that the
  peer connection is closed with its `Conn`, which exists from the session on
  (`PeerOwned`).  A transcription client that stays is one that was never configured.
* `RealtimeProofs`, on `Vision`: `FramesStayAway`, the safety half of
  `ClosedLeavesNoFrames`: once a session is closed and nothing of it is on its way or
  stored, this stays so.  It needs that the capturer of a session on its way out is
  stopped (`CapturerStopped`), since `processFrame` itself does not ask.
* `AgentTurnProofs`: `TypeCorrect`, `OneVoice`, `WinnerIsSafe`, `BargeInCloses`,
  `NothingTwice`.
  The invariant `Arbitrated` adds to the types that a handler past its receipt
  has an agent (`Named`), that a turn with a winner has exactly the winner its
  history says (`Settled`), that whoever is about to speak has won the turn he
  was decided in (`Entitled`), and that the finished sentences in his hand are his own
  (`Owned`): no finished sentence waits in the buffer, since it was handed out with
  the delta that finished it.  `WinnerIsSafe` also needs that no loser is
  cancelled before somebody wins (`NoEarlyLosers`), `BargeInCloses` that an
  interrupted turn has at most one answer in hand (`Shut`).  `NothingTwice` follows
  the pieces of a text through the buffer (`Ordered`): the buffer is increasing, what
  was spoken is increasing, what a handler has in hand is later than that, and what
  the buffer has not handed out is later than both (`RestIsLater`).  What is handed out
  lies between two end marks, that of the emitted sentences and the last; the lemmas
  `EndSplits`, `EndGrows`, `MoreEndLater` and `EndsAreComplete` say how these move with
  each delta, for any segmentation.
* `AgentRegistryProofs`: `TypeCorrect`, `OnlyRegisteredIsFed`,
  `CancelledIsSpent`, `OrphansHaveACause`.  The types need that whoever is about
  to close a send channel has closed the done channel (`Closing`);
  `AtMostOneAfterCancel` that a subscription that took a request after its
  cancellation is not waiting for another (`Spent`); `OrphansAreAccounted` that a
  served SSE connection is online (`ServedIsOnline`), because that is what makes
  `RegisterAgent` refuse a second one.
* `VoiceSessionsProofs`: `AnswersReachTheLastSession`, `SubscriptionsServed`,
  `GrantedIsHeard`, for any sessions, agents, grants and size of the table.  The first
  rests on the handler being that of the last session opened (`HandlerIsLast`): every
  other session that has a reader is overtaken.  `SubscriptionsServed` needs
  that a session that has not subscribed has no reader and was not cancelled
  (`Fresh`), so that an entry is always new (`Served`), and the bound follows from
  the cardinality lemmas of finite sets (`Bounded`).  `GrantedIsHeard` rests on three
  facts: a session's agents are its user's installations (`OwnAgents`), the router
  names none but them whatever the shared index holds (`TargetsAreOwn`), and a
  payload holds what its scopes allow (`PayloadIsGranted`).
* `SidecarProofs`, on `STTClient`: `TypeCorrect`, `LoopsAreExclusive`,
  `ReadersAreExclusive`, `ReadyOnce`.  The strengthening is `Alone`:
  until a loop was started under a live reader, a reader that receives does so on the
  current stream, and only while no loop is about to replace it.  The
  loop's moves keep exactly one position occupied (`MoveKeepsOne`), whoever reads.
  `ReadyOnce` does not need `Alone`: without a late Ready, `readyCh` is closed only by
  the Ready of the current stream (`ReadyIsSent`), which comes once.
* `SidecarProofs`, on `AudioAPI`: `AnswersAreWhole`, `ForeignAudioHasACause`.  Both follow
  from `AudioInv`.  A handler in `Synthesize` has its buffer to itself as far as handlers
  and the pool go, and a receiver that still runs belongs to such a handler or was left
  by one (`Private`).  As long as no left receiver has written into the buffer, a
  `Write` stores into what it has read, and the buffer holds its handler's chunks and
  no others (`Known`), counted by the positions they stand at (`Own`, `OwnAppend`):
  `Whole` equates the count with what was received, less the chunk in the callback's
  hands, while the handler collects (`Collected`) and in the answer (`Given`).
* `MarketplaceProofs`: `RatingsEarned`, `PublishedFirst`, `CountersAlwaysExact`.  A
  request carries a row it read long ago and saves it whole, so the invariant has to
  speak of the rows in the hands of requests as well as of the tables: `RowSound`
  holds of both (its rating counts existing reviews, it is public only after a
  publication), `Sound` says what each request has established before its next
  statement, and `Grows` that reviews, publications and the record of installations
  are never taken back, which is what keeps a stale row sound.  `CountersAlwaysExact`
  adds that nothing concerns an agent before it is created (`CreatedFirst`) and then
  follows, by the cardinalities of the requests between their two statements, every
  statement that moves a counter, a table or a request (`Exact`).
* `ServerProofs`, on `Accounts`: `LookupExact`, `ConnectionsSeeded`, `StatusSafe`.  The
  first rests on the unique index over prefixes (`UniquePrefix`), kept by every insertion; the second
  on `AgentKeysSeeded`, that no handler gives a key to an agent.  `StatusSafe` needs
  that every profile in a row, or in a row some request has read, came with a token
  of that user (`ProfilesClaimed`): when all tokens agree no request finds a
  difference to write back, so the flag stays (`StatusKept`).

* `ServerProofs`, on `HTTPService`: `ProbesTellTheTruth`, `BudgetIsKept`.  For the first,
  while a probe runs its history holds the present state of each critical dependency,
  and so also every state that a check has reported (`Witnessed`); only the transcription
  check may report what is not so, and it is not critical (`CriticalCheck`).  For the
  second, tokens are counted one by one: those the limiters have left (`LeftOf`), with
  those taken, are a burst for each limiter made and what was given back
  (`TokensAccounted`; `TokenTaken`, `TokenGiven` and `BurstAdded` follow each step by the
  cardinality lemmas).  It remains that limiters are few: one is made only for an empty
  table, which only a clean-up empties (`OnePerPeriod`).  That the second look of
  `getLimiter` happens under the write lock is what keeps this when several requests
  found the table empty.  `Numbered` bounds the names of limiters by the requests.

## 5. Only model-checked

The liveness properties (`ProcessorsExit`, both `QueueDrains`, `FlushReturns`,
`StopCompletes`, `OffersAreAnswered`, `ClosedLeavesNoFrames`, `TranscriptsAreSent`,
`ReconnectsSettle`): the prover handles neither fairness nor ENABLED.

Every invariant and every action property of the runs, and the refinement of
`SentenceLife`, is a theorem as well.

`DrainedMeansGone` is about one stream: with two, the counter is shared and does not
tell whose frames are left.

## 6. What the code does that a reader might not expect

The models contain each of these; no property excludes them.

* Speech.  `processQueue` calls onEnd after it released the lock, so the end of one
  answer can mark the controller idle while the next one is heard.  After a
  barge-in on a complete response nothing resumes the output, and the next
  complete response is accepted and dropped.  A frame finished before it is
  counted leaves `pending` at one, and `WaitForDrain` never returns; nor does it on a
  connection that is connected but whose data channel never opens, because no worker
  was started.  OnDone then hangs and with it the processor, until a barge-in.  After
  an interruption two processors can share the queue and start sentences out of order.  A worker in
  `drain` when the channel is closed never leaves it, and `Stop` never returns.
  The reset at the end of an old answer closes the arbitration of the new turn.
  A delta is added to the shared buffer before the arbitration, so that the unfinished
  text of an agent that loses is spoken inside the winner's next sentence.  When the
  segmentation merges sentences that were already handed out, the buffer counts more
  emitted sentences than it holds, and what follows is lost until it has caught up.
* Sessions.  No production code closes a voice session: `Manager.RemoveSession` and
  `Manager.Close` of `voicesession` have no caller, so that the clients and the
  subscription of a call outlive its connection (the subscription for 30 minutes).
  The bridge has one response handler: of two open sessions only the
  later one hears its agents, also when the later one failed to open.  Any connected
  agent may publish an answer to any session whose id it knows.  A subscription ends 30 minutes after it was made.
  `frame_request`, documented in `docs/asyncapi.yaml:145`, is forwarded by neither
  transport, and `HandleEvent` ignores a complete `response`.
* Calls.  A failing `NewPeer` leaves its peer connection open, and a failing
  `sendConfig` the connection to the sidecar.  Nobody reads the
  events of a connection, so that its data channel blocks when their buffer is
  full.  Sends on channels that `Close` has closed end the process.
* Vision.  The analyser's one result may reach the transcript of another session, and
  an agent of one user is then told what another user's camera showed.
* Transcription.  A reconnection under a live reader leaves two readers on the new
  stream, and the late Ready of the old one may close `readyCh` twice, which ends the
  process; of two callers that wait for one outcome the second waits until `Close`.
  A replaced stream and its connection are not closed.
* Audio.  The buffer of a request whose context ended goes back to the pool under
  its receiver, which may still write into it, without a common lock: the next answer
  may hold its chunks or lack one of its own.  The limit of an uploaded file in the
  code and in the API document differ.
* Store and accounts.  Stale saves shift counters, ratings and roles.  `/store` is
  mounted without authentication, so that a review is always refused.  A key made
  through the API never connects an agent: the gateway asks for an agent's key,
  which only the seed command makes, for an agent that is not published and whose
  installation is not counted.
* Service.  `checkSTT` reads the state of its connection right after asking for it;
  no limit of database connections is set, so that the database is never reported
  as degraded; WebSocket messages of agents are not rate limited.

## 7. Not modelled, and the plan

Left out for good: gRPC, WebRTC and codec libraries, token verification, wiring,
configuration and generated code (no state, or not this repository's).  The
sidecar is a separate Python process that the Go code sees as streams that
deliver or fail.  `session/` has no production writer.  Operations without a
caller outside tests are left out (`OnBackpressure`, `ShouldEndBySilence`, `SetAgents`,
`UpdateHealth`, `Bridge.Close`, `RefreshSessionSubscription`, `FindOrCreate`), and so are
`handleFrameRequest` and `GetFrames`, which no message reaches, and the sending of
events to the browser.  `ttsActive` is used by tests only; the channel that
`ttsCancelCh` holds before the first complete response, which nobody reads, is
taken for nil.  The pure helpers (`OpusPacketDuration`, TURN credentials, resampling)
are not modelled.

Planned:

1. `VoiceTurn`: `AgentTurn` composed with `SentenceLife` in place of its history of
   spoken texts, so that a barge-in drops sentences in the queue and straggler
   answers together.
2. Pure algorithms (the packet duration of Opus) against reference definitions.
