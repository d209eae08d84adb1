---------------------------- MODULE RealtimeCall ----------------------------
(***************************************************************************)
(* A WebRTC call from its offer to its end (internal/realtime, the voice   *)
(* starter of internal/gateway and the session manager and constructor of  *)
(* internal/voicesession).                                                 *)
(*                                                                         *)
(* HandleOffer acquires one resource after another: a peer connection, a   *)
(* Conn, an entry of the signalling manager, a transcription client, a     *)
(* synthesis client, a bridge subscription, an entry of the voice session  *)
(* manager.  Each step may fail and must give back what the earlier ones   *)
(* took, while pion's callbacks (connection state, data channel, tracks,   *)
(* candidates) already run in their own goroutines and may close the Conn. *)
(***************************************************************************)
EXTENDS Naturals, FiniteSets

CONSTANTS Calls,     \* offers; a call is named by its offer
          Users,
          Owner,     \* [Calls -> Users], the user the offer authenticated
          EventBuf,  \* capacity of Conn.messages (Config.BufferSizes.Events)
          AudioBuf,  \* capacity of Conn.audioIn
          IceBuf,    \* capacity of Session.iceCh
          MaxInput,  \* bound: messages, candidates and audio packets per call
          None

ASSUME CallAssumption ==
    /\ Owner \in [Calls -> Users]
    /\ EventBuf \in Nat \ {0} /\ AudioBuf \in Nat \ {0} /\ IceBuf \in Nat \ {0}
    /\ MaxInput \in Nat

VARIABLES offer,       \* [Calls -> where HandleOffer stands]
          peers,       \* the calls whose peer connection is open
          conn,        \* [Calls -> {"none", "open", "closing", "closed"}]
          connectedCalls, \* the calls whose Conn.connected is set
          started,     \* the calls whose output worker was started
          registered,  \* Manager.sessions of the signalling manager
          ended,       \* the calls whose signalling session is closed
          stt, tts,    \* the calls with an open connection to each sidecar service
          unconfigured, \* history: the calls whose sendConfig failed
          subscribed,  \* the calls whose session the bridge subscribes to
          voice,       \* Manager.sessions of the voice session manager
          listening,   \* the calls whose audioInLoop runs
          messages,    \* [Calls -> length of Conn.messages]
          stuck,       \* the calls whose data channel callback waits for room
          audio,       \* [Calls -> length of Conn.audioIn]
          ice,         \* [Calls -> length of Session.iceCh]
          streams,     \* the calls with an open candidate stream
          video,       \* [Calls -> the selected track: None, "camera", "screen"]
          offered,     \* [Calls -> kinds of video track the remote description names]
          input,       \* bound: [Calls -> inputs so far]
          crashed      \* a goroutine sent on a closed channel

offerVars == <<offer, peers, registered, ended, stt, tts, unconfigured, subscribed, voice, listening>>
connVars == <<conn, connectedCalls, started, messages, stuck, audio>>
iceVars == <<ice, streams>>
videoVars == <<video, offered>>
callVars == <<offerVars, connVars, iceVars, videoVars, input, crashed>>

CallInit ==
    /\ offer = [c \in Calls |-> "idle"] /\ conn = [c \in Calls |-> "none"]
    /\ peers = {} /\ connectedCalls = {} /\ started = {} /\ registered = {} /\ ended = {}
    /\ stt = {} /\ tts = {} /\ unconfigured = {} /\ subscribed = {} /\ voice = {} /\ listening = {}
    /\ messages = [c \in Calls |-> 0] /\ audio = [c \in Calls |-> 0]
    /\ stuck = {} /\ ice = [c \in Calls |-> 0] /\ streams = {}
    /\ video = [c \in Calls |-> None]
    /\ offered = [c \in Calls |-> {}]
    /\ input = [c \in Calls |-> 0] /\ crashed = FALSE

-----------------------------------------------------------------------------
(* HandleOffer.                                                              *)

At(c, here) == offer[c] = here
Goto(c, there) == offer' = [offer EXCEPT ![c] = there]

\* The request does not authenticate, carries no SDP or another content type,
\* or no peer connection can be created.
RejectOffer(c) ==
    /\ At(c, "idle") /\ Goto(c, "failed")
    /\ UNCHANGED <<peers, registered, ended, stt, tts, unconfigured, subscribed, voice, listening,
                   connVars, iceVars, videoVars, input, crashed>>

\* The peer connection with its callbacks.
NewPeer(c) == peers' = peers \cup {c}

\* NewPeer fails once pion has made the connection (no SSRC, no track): the
\* error is answered and nobody closes the connection.
NewPeerFails(c) ==
    /\ At(c, "idle") /\ Goto(c, "noPeer")
    /\ peers' = peers \cup {c}
    /\ UNCHANGED <<registered, ended, stt, tts, unconfigured, subscribed, voice, listening,
                   connVars, iceVars, videoVars, input, crashed>>

\* HandleOffer up to the peer: the caller is authenticated, the SDP is read.
HandleOffer(c) ==
    /\ At(c, "idle") /\ Goto(c, "peer")
    /\ NewPeer(c)
    /\ UNCHANGED <<registered, ended, stt, tts, unconfigured, subscribed, voice, listening,
                   connVars, iceVars, videoVars, input, crashed>>

\* The offer is refused: the peer connection is closed.
SetOfferFails(c) ==
    /\ At(c, "peer") /\ Goto(c, "failed")
    /\ peers' = peers \ {c}
    /\ UNCHANGED <<registered, ended, stt, tts, unconfigured, subscribed, voice, listening,
                   connVars, iceVars, videoVars, input, crashed>>

\* A remote description: pion announces tracks of the kinds it names only.
SetOffer(c, kinds) == offered' = [offered EXCEPT ![c] = @ \cup kinds]

NewConn(c) == conn' = [conn EXCEPT ![c] = "open"]

\* Manager.CreateSession: a session with its candidate channel, in the table.
NewSession(c) == registered' = registered \cup {c}

\* The offer is set, the Conn is made and the session registered.
CreateSession(c, kinds) ==
    /\ At(c, "peer") /\ Goto(c, "session")
    /\ SetOffer(c, kinds)
    /\ NewConn(c)
    /\ NewSession(c)
    /\ UNCHANGED <<peers, ended, stt, tts, unconfigured, subscribed, voice, listening, connectedCalls, started,
                   messages, stuck, audio, iceVars, video, input, crashed>>

\* Session.Close, before it closes the Conn: done and iceCh are closed.
CloseSession(c) == ended' = ended \cup {c}

\* CreateAnswer fails: RemoveSession closes the session's channels, and then
\* the Conn.
CreateAnswerFails(c) ==
    /\ At(c, "session") /\ Goto(c, "failing")
    /\ CloseSession(c)
    /\ UNCHANGED <<peers, registered, stt, tts, unconfigured, subscribed, voice, listening,
                   connVars, iceVars, videoVars, input, crashed>>

\* The answer is made; pion gathers candidates and may connect.
CreateAnswer(c) ==
    /\ At(c, "session") /\ Goto(c, "answer")
    /\ UNCHANGED <<peers, registered, ended, stt, tts, unconfigured, subscribed, voice, listening,
                   connVars, iceVars, videoVars, input, crashed>>

\* VoiceStarter.Start up to the transcription client (the user's agents are
\* loaded, or left out on an error).  A stream that does not open closes its
\* connection; one on which sendConfig fails is left open with it, and New
\* returns no client that could close them.
NewSTT(c) ==
    /\ At(c, "answer")
    /\ \/ Goto(c, "stt") /\ stt' = stt \cup {c} /\ UNCHANGED unconfigured
       \/ Goto(c, "failing") /\ UNCHANGED <<stt, unconfigured>>
       \/ Goto(c, "failing") /\ stt' = stt \cup {c} /\ unconfigured' = unconfigured \cup {c}
    /\ UNCHANGED <<peers, registered, ended, tts, subscribed, voice, listening,
                   connVars, iceVars, videoVars, input, crashed>>

\* Mutant: a failure of the synthesis client leaves the other one open.
NewTTSLeaks(c) ==
    /\ At(c, "stt")
    /\ \/ Goto(c, "tts") /\ tts' = tts \cup {c} /\ stt' = stt
       \/ Goto(c, "failing") /\ tts' = tts /\ stt' = stt
    /\ UNCHANGED <<peers, registered, ended, unconfigured, subscribed, voice, listening,
                   connVars, iceVars, videoVars, input, crashed>>

\* The synthesis client; its failure closes the transcription client.
NewTTS(c) ==
    /\ At(c, "stt")
    /\ \/ Goto(c, "tts") /\ tts' = tts \cup {c} /\ stt' = stt
       \/ Goto(c, "failing") /\ tts' = tts /\ stt' = stt \ {c}
    /\ UNCHANGED <<peers, registered, ended, unconfigured, subscribed, voice, listening,
                   connVars, iceVars, videoVars, input, crashed>>

\* Manager.CreateSession registers the session that New returned and starts
\* its audio loop.
StartSession(c) ==
    /\ voice' = voice \cup {c}
    /\ listening' = listening \cup {c}

\* SubscribeToSession succeeds, New returns, the session is started and the
\* offer is answered.
AnswerOffer(c) ==
    /\ At(c, "tts") /\ Goto(c, "ok")
    /\ subscribed' = subscribed \cup {c}
    /\ StartSession(c)
    /\ UNCHANGED <<peers, registered, ended, stt, tts, unconfigured, connVars, iceVars, videoVars, input, crashed>>

\* The bridge has no room for a subscription: both clients are closed.
SubscribeFails(c) ==
    /\ At(c, "tts") /\ Goto(c, "failing")
    /\ stt' = stt \ {c} /\ tts' = tts \ {c}
    /\ UNCHANGED <<peers, registered, ended, unconfigured, subscribed, voice, listening,
                   connVars, iceVars, videoVars, input, crashed>>

\* Conn.Close has returned (closeOnce makes a second caller wait for the
\* first) and RemoveSession drops the entry.
RemoveSession(c) ==
    /\ At(c, "failing") /\ conn[c] = "closed" /\ Goto(c, "failed")
    /\ registered' = registered \ {c}
    /\ CloseSession(c)
    /\ UNCHANGED <<peers, stt, tts, unconfigured, subscribed, voice, listening,
                   connVars, iceVars, videoVars, input, crashed>>

-----------------------------------------------------------------------------
(* Conn.                                                                     *)

\* A non-blocking send on a buffered channel: a full one drops the value.
Queued(n, cap) == IF n < cap THEN n + 1 ELSE n

\* pion runs the call's callbacks from the answer on.
Live(c) == offer[c] \in {"answer", "stt", "tts", "ok", "failing"} /\ conn[c] # "none"

\* The connection state becomes connected.  The callback has its own goroutine
\* and may come after Close.
OnConnected(c) ==
    /\ Live(c) /\ c \notin connectedCalls
    /\ connectedCalls' = connectedCalls \cup {c}
    /\ UNCHANGED <<offerVars, conn, started, messages, stuck, audio, iceVars, videoVars, input, crashed>>

\* The data channel opens: the output worker starts.
OnOpen(c) ==
    /\ Live(c) /\ c \notin started
    /\ connectedCalls' = connectedCalls \cup {c}
    /\ started' = started \cup {c}
    /\ UNCHANGED <<offerVars, conn, messages, stuck, audio, iceVars, videoVars, input, crashed>>

\* Mutant: a Conn that never connected has nothing to close.
BeginCloseIfConnected(c) ==
    /\ conn[c] = "open" /\ (Live(c) \/ At(c, "failing")) /\ c \in connectedCalls
    /\ conn' = [conn EXCEPT ![c] = "closing"]
    /\ connectedCalls' = connectedCalls \ {c}
    /\ stuck' = stuck \ {c}
    /\ UNCHANGED <<offerVars, started, messages, audio, iceVars, videoVars, input, crashed>>

\* Close begins: for a failed or disconnected peer, a closed data channel, or
\* HandleOffer's error path.  connected is reset and done closed, which frees
\* a callback that waits for room.
BeginClose(c) ==
    /\ conn[c] = "open" /\ (Live(c) \/ At(c, "failing"))
    /\ conn' = [conn EXCEPT ![c] = "closing"]
    /\ connectedCalls' = connectedCalls \ {c}
    /\ stuck' = stuck \ {c}
    /\ UNCHANGED <<offerVars, started, messages, audio, iceVars, videoVars, input, crashed>>

\* Close ends: the output worker has stopped, messages and audioIn are closed,
\* the peer connection is closed.
EndClose(c) ==
    /\ conn[c] = "closing"
    /\ conn' = [conn EXCEPT ![c] = "closed"]
    /\ peers' = peers \ {c}
    /\ UNCHANGED <<offer, registered, ended, stt, tts, unconfigured, subscribed, voice, listening,
                   connectedCalls, started, messages, stuck, audio, iceVars, videoVars, input, crashed>>

Input(c) == input[c] < MaxInput /\ input' = [input EXCEPT ![c] = @ + 1]

\* A message on the data channel, whose callbacks run one at a time.
Message(c) == Live(c) /\ c \in started /\ c \notin stuck /\ Input(c)

\* A candidate, here or by HTTP, goes to the peer.
HandleICECandidate(c) ==
    /\ Message(c)
    /\ UNCHANGED <<offerVars, connVars, iceVars, videoVars, crashed>>

\* A further offer on the data channel is set and answered there; on a closed
\* peer connection SetOffer fails.
HandleRenegotiationOffer(c, kind) ==
    /\ Message(c)
    /\ IF c \in peers THEN SetOffer(c, {kind}) ELSE UNCHANGED offered
    /\ UNCHANGED <<offerVars, connVars, iceVars, video, crashed>>

\* Any other client event is queued.  Nobody receives from messages: a
\* full queue holds the callback until done.  Once messages is closed the
\* select may take the send, which panics.
HandleMessage(c) ==
    /\ Message(c)
    /\ IF conn[c] = "open" /\ messages[c] < EventBuf
       THEN messages' = [messages EXCEPT ![c] = @ + 1] /\ UNCHANGED <<stuck, crashed>>
       ELSE /\ UNCHANGED messages
            /\ stuck' = IF conn[c] = "open" THEN stuck \cup {c} ELSE stuck
            /\ crashed' \in IF conn[c] = "closed" THEN BOOLEAN ELSE {crashed}
    /\ UNCHANGED <<offerVars, conn, connectedCalls, started, audio, iceVars, videoVars>>

\* A packet arrives and parses.
ReadIncomingAudio(c) == Live(c) /\ Input(c)

\* The packet is queued if there is room, else dropped with a call of the
\* backpressure callback.
OnAudio(c) ==
    /\ ReadIncomingAudio(c)
    /\ audio' = IF conn[c] # "closed" THEN [audio EXCEPT ![c] = Queued(@, AudioBuf)] ELSE audio
    /\ crashed' \in IF conn[c] = "closed" THEN BOOLEAN ELSE {crashed}
    /\ UNCHANGED <<offerVars, conn, connectedCalls, started, messages, stuck, iceVars, videoVars>>

\* audioInLoop takes a packet and sends it to the sidecar, and ends with the
\* closed and empty channel.  The voice session itself is not closed.
AudioInLoop(c) ==
    /\ c \in listening
    /\ \/ audio[c] > 0 /\ audio' = [audio EXCEPT ![c] = @ - 1] /\ listening' = listening
       \/ audio[c] = 0 /\ conn[c] = "closed" /\ listening' = listening \ {c} /\ audio' = audio
    /\ UNCHANGED <<offer, peers, registered, ended, stt, tts, unconfigured, subscribed, voice,
                   conn, connectedCalls, started, messages, stuck, iceVars, videoVars, input, crashed>>

\* handleVideoTrack: the first track is taken, a screen replaces a camera.
ShouldReplace(current, isScreen) == current = None \/ (isScreen /\ current # "screen")

\* A video track arrives.
HandleVideoTrack(c, kind) ==
    /\ Live(c) /\ kind \in offered[c] /\ Input(c)
    /\ video' = IF ShouldReplace(video[c], kind = "screen")
                THEN [video EXCEPT ![c] = kind] ELSE video
    /\ UNCHANGED <<offerVars, connVars, iceVars, offered, crashed>>

-----------------------------------------------------------------------------
(* Candidates.                                                               *)

GetSession(c) == c \in registered

\* GetSession and the comparison of the session's user with the caller.
MayAccess(u, c) == GetSession(c) /\ Owner[c] = u

\* A candidate of the client, by HTTP.
PostICECandidate(u, c) ==
    /\ MayAccess(u, c) /\ Input(c)
    /\ UNCHANGED <<offerVars, connVars, iceVars, videoVars, crashed>>

\* pion has found a candidate: SendICE queues it if there is room, else drops
\* it; on a closed session the send may panic.
SendICE(c) ==
    /\ offer[c] \in {"answer", "stt", "tts", "ok", "failing", "failed"} /\ conn[c] # "none"
    /\ Input(c)
    /\ ice' = IF c \notin ended THEN [ice EXCEPT ![c] = Queued(@, IceBuf)] ELSE ice
    /\ crashed' \in IF c \in ended THEN BOOLEAN ELSE {crashed}
    /\ UNCHANGED <<offerVars, connVars, streams, videoVars>>

\* HandleICEStream accepts a stream.
HandleICEStream(u, c) ==
    /\ MayAccess(u, c) /\ c \notin streams
    /\ streams' = streams \cup {c}
    /\ UNCHANGED <<offerVars, connVars, ice, videoVars, input, crashed>>

\* The stream writes a candidate, or ends with its client or its session.
ICEStreamStep(c) ==
    /\ c \in streams
    /\ \/ ice[c] > 0 /\ ice' = [ice EXCEPT ![c] = @ - 1] /\ streams' = streams
       \/ ice' = ice /\ streams' = streams \ {c}
    /\ UNCHANGED <<offerVars, connVars, videoVars, input, crashed>>

-----------------------------------------------------------------------------

OfferStep(c) ==
    \/ RejectOffer(c) \/ NewPeerFails(c) \/ HandleOffer(c) \/ SetOfferFails(c)
    \/ \E kinds \in SUBSET {"camera", "screen"} : CreateSession(c, kinds)
    \/ CreateAnswerFails(c) \/ CreateAnswer(c) \/ NewSTT(c) \/ NewTTS(c)
    \/ AnswerOffer(c) \/ SubscribeFails(c) \/ RemoveSession(c)

ConnStep(c) ==
    \/ OnConnected(c) \/ OnOpen(c) \/ BeginClose(c) \/ EndClose(c)
    \/ HandleICECandidate(c) \/ HandleMessage(c) \/ OnAudio(c) \/ AudioInLoop(c)
    \/ \E kind \in {"camera", "screen"} :
         HandleRenegotiationOffer(c, kind) \/ HandleVideoTrack(c, kind)

CallNext ==
    /\ ~crashed
    /\ \E c \in Calls :
         \/ OfferStep(c) \/ ConnStep(c) \/ SendICE(c) \/ ICEStreamStep(c)
         \/ \E u \in Users : HandleICEStream(u, c) \/ PostICECandidate(u, c)

CallSpec == CallInit /\ [][CallNext]_callVars

\* HandleOffer and Close run; clients, pion and the sidecar need not.
CallFairness ==
    \A c \in Calls :
        /\ WF_callVars(~crashed /\ (CreateAnswer(c) \/ CreateAnswerFails(c) \/ NewSTT(c)
                                     \/ NewTTS(c) \/ AnswerOffer(c) \/ SubscribeFails(c)
                                     \/ RemoveSession(c)))
        /\ WF_callVars(~crashed /\ (HandleOffer(c) \/ SetOfferFails(c)
                         \/ \E kinds \in SUBSET {"camera", "screen"} : CreateSession(c, kinds)))
        /\ WF_callVars(~crashed /\ At(c, "failing") /\ BeginClose(c))
        /\ WF_callVars(~crashed /\ EndClose(c))

FairCallSpec == CallSpec /\ CallFairness

-----------------------------------------------------------------------------
(* Properties.                                                               *)

\* A call whose offer was answered with an error gives back what it took,
\* whichever step failed and whoever closed its Conn meanwhile: no entry in
\* either manager, no subscription, no connection to a sidecar service and no
\* peer connection.  Two failing constructors are the exceptions: NewPeer
\* leaves its peer connection behind, and transcription.New the connection on
\* which it could not send its configuration.
FailedCallHoldsNothing ==
    \A c \in Calls : At(c, "failed") \/ At(c, "noPeer") =>
        /\ c \notin registered \cup tts \cup subscribed \cup voice
        /\ c \in stt => c \in unconfigured
        /\ conn[c] \in {"none", "closed"}
        /\ At(c, "failed") => c \notin peers

\* Every offer that got a peer connection is answered.
OffersAreAnswered ==
    \A c \in Calls : At(c, "peer") ~> (crashed \/ At(c, "ok") \/ At(c, "failed"))
=============================================================================
