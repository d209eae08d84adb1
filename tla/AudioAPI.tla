------------------------------- MODULE AudioAPI -------------------------------
(***************************************************************************)
(* The audio HTTP interface and the synthesis client under it              *)
(* (internal/audio, internal/synthesis): concurrent speech requests that   *)
(* collect the chunks of a synthesis stream in buffers of a shared pool,   *)
(* transcriptions of one file each, and the cloned voices.                 *)
(*                                                                         *)
(* A speech request runs two goroutines: the handler, which waits in       *)
(* Synthesize for its context or for the receiver, and the receiver, which *)
(* reads the stream and runs the handler's callbacks.  They only meet in   *)
(* Synthesize's final select: a handler whose context ends returns while   *)
(* its receiver may hold a message.                                        *)
(***************************************************************************)
EXTENDS Naturals, Sequences, FiniteSets

CONSTANTS Speech,       \* speech requests
          Batch,        \* transcription requests
          Voices,       \* ids of cloned voices
          Buffers,      \* the buffers sync.Pool ever allocates
          MaxAudio,     \* maxAudioDataSize, in chunks
          MaxVoiceOps,  \* bound: requests on the cloned voices
          None

ASSUME AudioAssumption == MaxAudio \in Nat \ {0} /\ MaxVoiceOps \in Nat

VARIABLES pc,        \* [Speech -> {"idle", "synth", "done"}], the handler
          buf,       \* [Speech -> Buffers \cup {None}], its buffer
          receiver,  \* [Speech -> state of the receiving goroutine]
          expired,   \* the speech requests whose context has ended
          tooBig,    \* the speech requests that set audioErr
          received,  \* history: [Speech -> Nat], audio messages handed to OnAudio
          cutOff,    \* history: handlers that left before their receiver
          seen,      \* [Speech -> Seq(Speech)], the buffer as Write has read it
          writers,   \* history: [Speech -> SUBSET Speech], the other requests whose
                     \* receivers wrote into its buffer while its handler ran
          body,      \* [Speech -> Seq(Speech)], the audio answered; <<>>: none or an error
          pool,      \* the buffers that lie in audioBufferPool
          content,   \* [Buffers -> Seq(Speech)], whose chunks they hold
          batch,     \* [Batch -> state of a transcription]
          voices,    \* the cloned voices the sidecar keeps
          voiceOps   \* bound: requests on voices so far

speechVars == <<pc, buf, receiver, expired, tooBig, received, cutOff, seen, writers, body, pool, content>>
voiceVars == <<voices, voiceOps>>
audioVars == <<speechVars, batch, voiceVars>>

AudioInit ==
    /\ pc = [r \in Speech |-> "idle"] /\ buf = [r \in Speech |-> None]
    /\ receiver = [r \in Speech |-> "none"]
    /\ expired = {} /\ tooBig = {} /\ cutOff = {}
    /\ received = [r \in Speech |-> 0] /\ seen = [r \in Speech |-> <<>>]
    /\ writers = [r \in Speech |-> {}]
    /\ body = [r \in Speech |-> <<>>]
    /\ pool = {} /\ content = [b \in Buffers |-> <<>>]
    /\ batch = [t \in Batch |-> [pc |-> "idle", result |-> None]]
    /\ voices = {} /\ voiceOps = 0

-----------------------------------------------------------------------------
(* Speech.                                                                   *)

\* The buffers audioBufferPool.Get may hand out: a pooled one, or one that
\* New allocates (the pool may also have been emptied by the collector).
Available == pool \cup (Buffers \ {buf[r] : r \in Speech})

\* The receiver has not ended.
Receiving == {"recv", "callback", "write"}

\* The request ends with an error before it touches the pool: no valid key,
\* a body that does not parse, no input or too much of it.
RejectSpeech(r) ==
    /\ pc[r] = "idle"
    /\ pc' = [pc EXCEPT ![r] = "done"]
    /\ UNCHANGED <<buf, receiver, expired, tooBig, received, cutOff, seen, writers, body, pool, content, batch, voiceVars>>

\* A buffer is taken and reset; while the handler runs it is not in the pool.
TakeBuffer(r, b) ==
    /\ buf' = [buf EXCEPT ![r] = b]
    /\ content' = [content EXCEPT ![b] = <<>>]

\* Synthesize up to its select: the stream is opened, config, text and end
\* are sent, and the receiver is started.
Synthesize(r) == receiver' = [receiver EXCEPT ![r] = "recv"]

\* HandleSpeech up to the call of Synthesize, and that call's first part.
HandleSpeech(r) ==
    /\ pc[r] = "idle"
    /\ \E b \in Available : TakeBuffer(r, b) /\ pool' = pool \ {b}
    /\ pc' = [pc EXCEPT ![r] = "synth"]
    /\ Synthesize(r)
    /\ UNCHANGED <<expired, tooBig, received, cutOff, seen, writers, body, batch, voiceVars>>

\* The stream cannot be opened or written: Synthesize returns an error and the
\* deferred Put returns the buffer.
SynthStreamFails(r) ==
    /\ pc[r] = "idle"
    /\ \E b \in Available : TakeBuffer(r, b) /\ pool' = pool \cup {b}
    /\ pc' = [pc EXCEPT ![r] = "done"]
    /\ UNCHANGED <<receiver, expired, tooBig, received, cutOff, seen, writers, body, batch, voiceVars>>

\* Recv returns an audio message.  A message that gRPC has buffered is
\* returned even after the context has ended.
RecvAudio(r) ==
    /\ receiver[r] = "recv"
    /\ received[r] <= MaxAudio
    /\ receiver' = [receiver EXCEPT ![r] = "callback"]
    /\ received' = [received EXCEPT ![r] = @ + 1]
    /\ UNCHANGED <<pc, buf, expired, tooBig, cutOff, seen, writers, body, pool, content, batch, voiceVars>>

\* Mutant: a chunk that does not fit is dropped without a word.
OnAudioSilent(r) ==
    /\ receiver[r] = "callback"
    /\ IF Len(content[buf[r]]) + 1 > MaxAudio
       THEN receiver' = [receiver EXCEPT ![r] = "recv"] /\ seen' = seen
       ELSE /\ receiver' = [receiver EXCEPT ![r] = "write"]
            /\ seen' = [seen EXCEPT ![r] = content[buf[r]]]
    /\ UNCHANGED <<pc, buf, expired, tooBig, received, cutOff, writers, body, pool, content, batch, voiceVars>>

\* The OnAudio callback: a chunk that does not fit sets audioErr, for any other
\* Write reads the buffer the closure has captured, whoever uses it by now.
OnAudio(r) ==
    /\ receiver[r] = "callback"
    /\ IF Len(content[buf[r]]) + 1 > MaxAudio
       THEN /\ tooBig' = tooBig \cup {r}
            /\ receiver' = [receiver EXCEPT ![r] = "recv"] /\ seen' = seen
       ELSE /\ receiver' = [receiver EXCEPT ![r] = "write"]
            /\ seen' = [seen EXCEPT ![r] = content[buf[r]]] /\ tooBig' = tooBig
    /\ UNCHANGED <<pc, buf, expired, received, cutOff, writers, body, pool, content, batch, voiceVars>>

\* What a Write that has read old may leave when others have written or reset
\* the buffer meanwhile: the mutex of the callbacks is the request's own, so
\* nothing orders them.  It ends the buffer after its own chunk, in the array
\* it has read or over what is in the buffer now; after a Reset chunks that
\* were in the buffer before come back.
Raced(now, old, r) ==
    LET kept == IF Len(now) >= Len(old) THEN SubSeq(now, 1, Len(old))
                ELSE now \o SubSeq(old, Len(now) + 1, Len(old))
    IN  {Append(old, r), Append(kept, r)}

\* buf.Write stores the chunk.
Write(r) ==
    LET b == buf[r] IN
    /\ receiver[r] = "write"
    /\ \E new \in IF seen[r] = content[b] THEN {Append(content[b], r)}
                   ELSE Raced(content[b], seen[r], r) :
         content' = [content EXCEPT ![b] = new]
    /\ writers' = [q \in Speech |-> IF q # r /\ pc[q] = "synth" /\ buf[q] = b
                                    THEN writers[q] \cup {r} ELSE writers[q]]
    /\ receiver' = [receiver EXCEPT ![r] = "recv"]
    /\ seen' = [seen EXCEPT ![r] = <<>>]
    /\ UNCHANGED <<pc, buf, expired, tooBig, received, cutOff, body, pool, batch, voiceVars>>

\* The sidecar says Done: the receiver closes recvErrCh.
OnDone(r) ==
    /\ receiver[r] = "recv"
    /\ receiver' = [receiver EXCEPT ![r] = "closed"]
    /\ UNCHANGED <<pc, buf, expired, tooBig, received, cutOff, seen, writers, body, pool, content, batch, voiceVars>>

\* The sidecar reports an error: OnError only logs it, and the receiver closes
\* recvErrCh without an error, so the handler answers what has arrived.
OnSidecarError(r) ==
    /\ receiver[r] = "recv"
    /\ receiver' = [receiver EXCEPT ![r] = "closed"]
    /\ UNCHANGED <<pc, buf, expired, tooBig, received, cutOff, seen, writers, body, pool, content, batch, voiceVars>>

\* Recv fails: an end of the stream, or any failure once the context has
\* ended, is no error; anything else is passed on.
SynthRecvFails(r) ==
    /\ receiver[r] = "recv"
    /\ \/ receiver' = [receiver EXCEPT ![r] = "closed"]
       \/ r \notin expired /\ receiver' = [receiver EXCEPT ![r] = "failed"]
    /\ UNCHANGED <<pc, buf, expired, tooBig, received, cutOff, seen, writers, body, pool, content, batch, voiceVars>>

\* The client has left or synthesisTimeout has passed.
ContextEnds(r) ==
    /\ pc[r] = "synth" /\ r \notin expired
    /\ expired' = expired \cup {r}
    /\ UNCHANGED <<pc, buf, receiver, tooBig, received, cutOff, seen, writers, body, pool, content, batch, voiceVars>>

\* The results Synthesize may return: of two ready cases select takes either.
SynthesizeResults(r) ==
    (IF r \in expired THEN {"error"} ELSE {})
        \cup (IF receiver[r] = "closed" THEN {"ok"} ELSE {})
        \cup (IF receiver[r] = "failed" THEN {"error"} ELSE {})

\* The answer after Synthesize: an error for its error, for audioErr and for no
\* audio at all, otherwise what the buffer holds.
Answer(r, result) ==
    IF result = "error" \/ r \in tooBig THEN <<>> ELSE content[buf[r]]

\* Mutant: the buffer goes back to the pool as soon as the context ends.
ReturnsEarly(r) ==
    /\ pc[r] = "synth"
    /\ \E result \in {"ok", "error"} : body' = [body EXCEPT ![r] = Answer(r, result)]
    /\ pc' = [pc EXCEPT ![r] = "done"]
    /\ cutOff' = IF r \in expired /\ receiver[r] \in Receiving
                 THEN cutOff \cup {r} ELSE cutOff
    /\ pool' = pool \cup {buf[r]}
    /\ UNCHANGED <<buf, receiver, expired, tooBig, received, seen, writers, content, batch, voiceVars>>

\* Synthesize returns, the handler answers and the deferred Put runs.
SynthesizeReturns(r) ==
    /\ pc[r] = "synth"
    /\ \E result \in SynthesizeResults(r) : body' = [body EXCEPT ![r] = Answer(r, result)]
    /\ pc' = [pc EXCEPT ![r] = "done"]
    /\ cutOff' = IF receiver[r] \in Receiving THEN cutOff \cup {r} ELSE cutOff
    /\ pool' = pool \cup {buf[r]}
    /\ UNCHANGED <<buf, receiver, expired, tooBig, received, seen, writers, content, batch, voiceVars>>

-----------------------------------------------------------------------------
(* Transcription of a file.                                                  *)

\* HandleTranscriptions refuses the request (no key, no file, too large) or
\* BatchTranscribe cannot dial, open the stream or send.
RefuseBatch(t) ==
    /\ batch[t].pc = "idle"
    /\ batch' = [batch EXCEPT ![t].pc = "error"]
    /\ UNCHANGED <<speechVars, voiceVars>>

\* Config, audio and end of stream are sent, the receive loop begins.
BatchTranscribe(t) ==
    /\ batch[t].pc = "idle"
    /\ batch' = [batch EXCEPT ![t].pc = "recv"]
    /\ UNCHANGED <<speechVars, voiceVars>>

\* A transcript: a final one replaces the result, a partial one is ignored.
OnTranscript(t) ==
    /\ batch[t].pc = "recv"
    /\ \E isPartial \in BOOLEAN :
         batch' = IF isPartial THEN batch ELSE [batch EXCEPT ![t].result = "final"]
    /\ UNCHANGED <<speechVars, voiceVars>>

\* What the loop returns: at the end of the stream the result, if there is
\* one, and an error for a sidecar error, a broken stream or transcriptionTimeout.
BatchResult(t, eof) == IF eof THEN batch[t].result ELSE None

\* HandleTranscriptions answers in the format that was asked for, or with 500.
BatchEnds(t) ==
    /\ batch[t].pc = "recv"
    /\ \E eof \in BOOLEAN :
         batch' = [batch EXCEPT ![t].pc = IF BatchResult(t, eof) # None THEN "ok" ELSE "error"]
    /\ UNCHANGED <<speechVars, voiceVars>>

-----------------------------------------------------------------------------
(* Cloned voices, kept by the sidecar.                                       *)

\* A request on voices has passed validateAPIKey and its form checks.
VoiceRequest == voiceOps < MaxVoiceOps /\ voiceOps' = voiceOps + 1

\* The calls of the synthesis client: each fails or does what it says.
CreateVoice(v) == voices' \in {voices, voices \cup {v}}
DeleteVoice(v) == voices' \in {voices, voices \ {v}}

\* HandleCreateVoice creates a voice or replaces one, or answers with 500.
HandleCreateVoice(v) ==
    /\ VoiceRequest
    /\ CreateVoice(v)
    /\ UNCHANGED <<speechVars, batch>>

\* HandleDeleteVoice answers 404 when there is no such voice.
HandleDeleteVoice(v) ==
    /\ VoiceRequest
    /\ DeleteVoice(v)
    /\ UNCHANGED <<speechVars, batch>>

\* HandleListVoices and HandleListModels change nothing.
HandleListVoices == VoiceRequest /\ UNCHANGED <<speechVars, batch, voices>>
HandleListModels == VoiceRequest /\ UNCHANGED <<speechVars, batch, voices>>

-----------------------------------------------------------------------------

SpeechStep(r) ==
    \/ RejectSpeech(r) \/ HandleSpeech(r) \/ SynthStreamFails(r)
    \/ RecvAudio(r) \/ OnAudio(r) \/ Write(r) \/ OnDone(r) \/ OnSidecarError(r)
    \/ SynthRecvFails(r) \/ ContextEnds(r) \/ SynthesizeReturns(r)

BatchStep(t) == RefuseBatch(t) \/ BatchTranscribe(t) \/ OnTranscript(t) \/ BatchEnds(t)

AudioNext ==
    \/ \E r \in Speech : SpeechStep(r)
    \/ \E t \in Batch : BatchStep(t)
    \/ \E v \in Voices : HandleCreateVoice(v) \/ HandleDeleteVoice(v)
    \/ HandleListVoices \/ HandleListModels

AudioSpec == AudioInit /\ [][AudioNext]_audioVars

-----------------------------------------------------------------------------
(* Properties.                                                               *)

\* The request was answered with audio.
Answered(r) == body[r] # <<>>

\* The positions of a request's own chunks among those collected.
Own(r, chunks) == {i \in DOMAIN chunks : chunks[i] = r}

\* A receiver that outlived its handler wrote into the buffer of the request.
Disturbed(r) == writers[r] \cap cutOff # {}

\* A speech answer holds every chunk its stream delivered: none is lost for
\* want of room, to another request's Reset of the pooled buffer, or because
\* the handler answered while its receiver was still in a callback.  Only a
\* receiver that outlived its handler, and wrote into the same buffer without
\* a common lock, can take one away.
OwnAudioWhole ==
    \A r \in Speech : Answered(r) /\ ~Disturbed(r) =>
        Cardinality(Own(r, body[r])) = received[r]

\* A speech answer holds another request's chunk only if a request was left by
\* its context while its receiver was still running: the buffer went back to
\* audioBufferPool under a callback that writes into it later.  Requests whose
\* stream ended by itself never disturb a later one.
ForeignAudioOnlyFromCutOff ==
    \A r \in Speech : Answered(r) =>
        \A i \in DOMAIN body[r] : body[r][i] = r \/ Disturbed(r)
=============================================================================
