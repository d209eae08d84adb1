------------------------------- MODULE Vision -------------------------------
(***************************************************************************)
(* What a user shows (internal/vision).  Each session has a capturer that  *)
(* stores a frame of the video now and then under the session's Redis key; *)
(* all sessions share one Analyzer, with one flag, one done channel and    *)
(* one last result.  Speech starts an analysis of the newest frame, the    *)
(* transcript waits for its result, uses it and resets it.                 *)
(*                                                                         *)
(* A frame is known by the session it shows.  Redis and the vision model   *)
(* are external.  Frame requests of agents are not here: neither transport *)
(* of the gateway forwards one to a session.                               *)
(***************************************************************************)
EXTENDS Naturals

CONSTANTS Sessions,
          MaxTurns,   \* bound: transcripts of a session
          MaxRuns,    \* bound: analyses
          Nobody

ASSUME VisionAssumption == Nobody \notin Sessions /\ MaxTurns \in Nat /\ MaxRuns \in Nat

VARIABLES phase,      \* [Sessions -> {"none", "open", "stopped", "closed"}]
          turn,       \* [Sessions -> where onTranscript stands]
          turns,      \* bound: [Sessions -> transcripts so far]
          seen,       \* [Sessions -> whose frame the turn's vision describes]
          waitFor,    \* [Sessions -> the analysis that GetResult waits for]
          analysis,   \* the session that is analysed, and how far
          runs,       \* number of analyses so far; names analysisDone
          lastResult, \* Analyzer.lastResult: the session whose frame it describes
          frames,     \* the sessions with frames in the store
          capturing,  \* the sessions with a frame between capture and store
          stopped     \* FrameCapturer.stopped

turnVars == <<turn, turns, seen, waitFor>>
analysisVars == <<analysis, runs, lastResult>>
frameVars == <<frames, capturing, stopped>>
visionVars == <<phase, turnVars, analysisVars, frameVars>>

Idle == [of |-> Nobody, at |-> "idle"]

VisionInit ==
    /\ phase = [s \in Sessions |-> "none"]
    /\ turn = [s \in Sessions |-> "idle"] /\ turns = [s \in Sessions |-> 0]
    /\ seen = [s \in Sessions |-> Nobody] /\ waitFor = [s \in Sessions |-> 0]
    /\ analysis = Idle /\ runs = 0 /\ lastResult = Nobody
    /\ frames = {} /\ capturing = {} /\ stopped = {}

-----------------------------------------------------------------------------
(* Frames.                                                                   *)

\* New connects a capturer to the video of the session's connection.
NewFrameCapturer(s) ==
    /\ phase[s] = "none"
    /\ phase' = [phase EXCEPT ![s] = "open"]
    /\ UNCHANGED <<turnVars, analysisVars, frameVars>>

\* VoiceSession.Close stops the capturer...
StopCapturer(s) ==
    /\ phase[s] = "open"
    /\ phase' = [phase EXCEPT ![s] = "stopped"]
    /\ stopped' = stopped \cup {s}
    /\ UNCHANGED <<turnVars, analysisVars, frames, capturing>>

\* ... and then deletes the frames.  A Redis error is logged: the frames stay
\* until they expire.
Cleanup(s) ==
    /\ phase[s] = "stopped"
    /\ phase' = [phase EXCEPT ![s] = "closed"]
    /\ frames' \in {frames, frames \ {s}}
    /\ UNCHANGED <<turnVars, analysisVars, capturing, stopped>>

\* Mutant: a capturer goes on after Stop.
NeverStopped(s) == TRUE

\* HandleRTPPacket works on until Stop.
Captures(s) == s \notin stopped

\* The codecs that createSampleBuilder knows, of those a browser may send.
CreateSampleBuilder == {"VP8", "VP9", "H264"}

\* The packets of a session's track arrive for as long as the connection lives.
ReadIncomingVideo(s, mimeType) ==
    phase[s] # "none" /\ mimeType \in {"VP8", "VP9", "H264", "AV1"}

\* A keyframe, two seconds after the one before, goes to processFrame.
HandleRTPPacket(s, mimeType) ==
    /\ ReadIncomingVideo(s, mimeType)
    /\ Captures(s) /\ s \notin capturing
    /\ mimeType \in CreateSampleBuilder
    /\ capturing' = capturing \cup {s}
    /\ UNCHANGED <<phase, turnVars, analysisVars, frames, stopped>>

\* What becomes of a frame: it does not decode (only VP8 does), or it is an
\* image, black or not.
Decode == {"error", "black", "image"}

IsBlackFrame(img) == img = "black"

\* The frame joins the session's sorted set, unless Redis fails.
StoreFrame(s) == {frames, frames \cup {s}}

\* processFrame stores the frame, or drops one that does not decode or is
\* black.  It does not ask whether the capturer was stopped meanwhile.
ProcessFrame(s) ==
    /\ s \in capturing
    /\ capturing' = capturing \ {s}
    /\ \E img \in Decode :
        frames' \in IF img = "error" \/ IsBlackFrame(img) THEN {frames} ELSE StoreFrame(s)
    /\ UNCHANGED <<phase, turnVars, analysisVars, stopped>>

\* frameTTL has passed since the last frame.
FramesExpire(s) ==
    /\ s \in frames
    /\ frames' = frames \ {s}
    /\ UNCHANGED <<phase, turnVars, analysisVars, capturing, stopped>>

-----------------------------------------------------------------------------
(* The analyzer.                                                             *)

\* onSpeechStart calls StartAnalysis, which does nothing while any session is
\* analysed.
StartAnalysis(s) ==
    /\ phase[s] = "open" /\ turn[s] = "idle" /\ analysis = Idle /\ runs < MaxRuns
    /\ analysis' = [of |-> s, at |-> "fetch"]
    /\ runs' = runs + 1
    /\ UNCHANGED <<phase, turnVars, lastResult, frameVars>>

\* Whether the store has a frame of the session.
GetLatestFrame(s) == s \in frames

\* The analysis goroutine reads the newest frame.  Without one, with one of
\* less than 5000 bytes, or if Redis fails, there is nothing to describe.
FetchFrame ==
    /\ analysis.at = "fetch"
    /\ \/ GetLatestFrame(analysis.of) /\ analysis' = [analysis EXCEPT !.at = "model"]
       \/ analysis' = [analysis EXCEPT !.at = "defer"]
    /\ UNCHANGED <<phase, turnVars, runs, lastResult, frameVars>>

\* The model describes the frame of the session, or fails.
Analyze(s) == {Nobody, s}

\* A description replaces the last one, a failure leaves it.
StoreResult ==
    /\ analysis.at = "model"
    /\ \E result \in Analyze(analysis.of) :
        lastResult' = IF result = Nobody THEN lastResult ELSE result
    /\ analysis' = [analysis EXCEPT !.at = "defer"]
    /\ UNCHANGED <<phase, turnVars, runs, frameVars>>

\* Its deferred function: analyzing is reset and analysisDone closed.
AnalysisDone ==
    /\ analysis.at = "defer"
    /\ analysis' = Idle
    /\ UNCHANGED <<phase, turnVars, runs, lastResult, frameVars>>

\* A final transcript that is not empty.  GetResult looks at the last result
\* and at analysisDone.
OnTranscript(s) ==
    /\ phase[s] = "open" /\ turn[s] = "idle" /\ turns[s] < MaxTurns
    /\ turns' = [turns EXCEPT ![s] = @ + 1]
    /\ IF lastResult # Nobody \/ runs = 0
       THEN /\ turn' = [turn EXCEPT ![s] = "reset"]
            /\ seen' = [seen EXCEPT ![s] = lastResult]
            /\ waitFor' = waitFor
       ELSE /\ turn' = [turn EXCEPT ![s] = "wait"]
            /\ seen' = [seen EXCEPT ![s] = Nobody]
            /\ waitFor' = [waitFor EXCEPT ![s] = runs]
    /\ UNCHANGED <<phase, analysisVars, frameVars>>

\* The channel GetResult has read is closed.
WaitIsOver(s) == runs > waitFor[s] \/ analysis = Idle

\* Mutant: GetResult waits for analysisDone only.
GetResultNoTimeout(s) ==
    /\ turn[s] = "wait" /\ WaitIsOver(s)
    /\ seen' = [seen EXCEPT ![s] = lastResult]
    /\ turn' = [turn EXCEPT ![s] = "reset"]
    /\ waitFor' = [waitFor EXCEPT ![s] = 0]
    /\ UNCHANGED <<phase, turns, analysisVars, frameVars>>

\* GetResult returns what is there when analysisDone is closed, or nothing
\* after ten seconds.
GetResult(s) ==
    /\ turn[s] = "wait"
    /\ \/ WaitIsOver(s) /\ seen' = [seen EXCEPT ![s] = lastResult]
       \/ seen' = seen
    /\ turn' = [turn EXCEPT ![s] = "reset"]
    /\ waitFor' = [waitFor EXCEPT ![s] = 0]
    /\ UNCHANGED <<phase, turns, analysisVars, frameVars>>

\* Reset forgets the result, whosever it is.
Reset(s) ==
    /\ turn[s] = "reset"
    /\ turn' = [turn EXCEPT ![s] = "route"]
    /\ lastResult' = Nobody
    /\ UNCHANGED <<phase, turns, seen, waitFor, analysis, runs, frameVars>>

\* The utterance is published with what was seen, and the turn is over.
Publish(s) ==
    /\ turn[s] = "route"
    /\ turn' = [turn EXCEPT ![s] = "idle"]
    /\ seen' = [seen EXCEPT ![s] = Nobody]
    /\ UNCHANGED <<phase, turns, waitFor, analysisVars, frameVars>>

-----------------------------------------------------------------------------

FrameStep(s) ==
    \/ NewFrameCapturer(s) \/ StopCapturer(s) \/ Cleanup(s)
    \/ (\E mimeType \in CreateSampleBuilder : HandleRTPPacket(s, mimeType))
    \/ ProcessFrame(s) \/ FramesExpire(s)

TurnStep(s) == StartAnalysis(s) \/ OnTranscript(s) \/ GetResult(s) \/ Reset(s) \/ Publish(s)

AnalysisStep == FetchFrame \/ StoreResult \/ AnalysisDone

VisionNext == AnalysisStep \/ \E s \in Sessions : FrameStep(s) \/ TurnStep(s)

VisionSpec == VisionInit /\ [][VisionNext]_visionVars

\* The goroutines of the server run and its timers fire; users, Redis and the
\* vision model need not do anything.  Frames expire once nothing refreshes
\* them.
VisionFairness ==
    \A s \in Sessions :
        /\ WF_visionVars(Cleanup(s))
        /\ WF_visionVars(ProcessFrame(s))
        /\ WF_visionVars(s \in stopped \ capturing /\ FramesExpire(s))
        /\ WF_visionVars(GetResult(s) \/ Reset(s) \/ Publish(s))

FairVisionSpec == VisionSpec /\ VisionFairness

-----------------------------------------------------------------------------
(* Properties.                                                               *)

\* A closed session leaves no frame: none stays and none comes back for good,
\* although one may be on its way when the capturer stops, and is then stored
\* after the frames were deleted, and although deleting them may fail.
ClosedLeavesNoFrames ==
    \A s \in Sessions : phase[s] = "closed" ~> [](s \notin frames)

\* A transcript gets on to the agents however long the vision model takes and
\* whosever analysis it waits for.
TranscriptsAreSent ==
    \A s \in Sessions : turn[s] = "wait" ~> turn[s] = "idle"
=============================================================================
