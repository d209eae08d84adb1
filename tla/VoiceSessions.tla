--------------------------- MODULE VoiceSessions ---------------------------
(***************************************************************************)
(* Voice sessions beside each other.  They share one agent bridge with one *)
(* response handler and one router with one index; each has its own Redis  *)
(* subscription, its own user and its own grants.  The module follows an   *)
(* utterance from the transcript through the router and the scope filter   *)
(* to the agents, and an answer from the agent back to the session, while  *)
(* sessions open, fail, lose their subscription and close.                 *)
(*                                                                         *)
(* TTSPlayback and AgentTurn have the inside of a session, Vision where    *)
(* its vision context comes from.  Redis and the agents are external.      *)
(***************************************************************************)
EXTENDS Naturals, FiniteSets

CONSTANTS Sessions, Agents,
          Installed,  \* [Sessions -> SUBSET Agents]: the user's active installs
          Granted,    \* [Sessions -> [Agents -> SUBSET Scopes]]
          UserData,   \* [Sessions -> SUBSET Personal]: set fields of UserContext
          MaxSubs,    \* maxSessionSubs
          MaxTurns,   \* bound: transcripts of a session
          MaxAnswers, \* bound: messages of the agents
          None

\* The scopes relevantScopes keeps; "history" stands for the ones it drops.
Personal == {"profile", "email", "location"}
Relevant == Personal \cup {"vision"}
Scopes == Relevant \cup {"history"}

ASSUME SessionsAssumption ==
    /\ IsFiniteSet(Sessions) /\ IsFiniteSet(Agents) /\ None \notin Sessions
    /\ Installed \in [Sessions -> SUBSET Agents]
    /\ Granted \in [Sessions -> [Agents -> SUBSET Scopes]]
    /\ UserData \in [Sessions -> SUBSET Personal]
    /\ MaxSubs \in Nat /\ MaxTurns \in Nat /\ MaxAnswers \in Nat

VARIABLES phase,     \* [Sessions -> where New and Close stand]
          managed,   \* Manager.sessions
          agents,    \* [Sessions -> Config.Agents]
          handler,   \* Bridge.responseHandler: the session it belongs to
          subs,      \* Bridge.sessionSubs
          cancelled, \* subscriptions whose context is cancelled
          reader,    \* [Sessions -> where subscribeToSessionResponses stands]
          channel,   \* [Sessions -> number of messages Redis holds for the reader]
          missed,    \* history: sessions that did not get an answer to them
          overtaken, \* history: sessions after which another was opened
          answers,   \* bound: messages the agents have sent
          index,     \* SmartRouter.index: the agents it knows
          turn,      \* [Sessions -> where onTranscript stands]
          turns,     \* bound: [Sessions -> transcripts so far]
          heard      \* history: what the agents were sent

bridgeVars == <<handler, subs, cancelled, reader, channel, missed, overtaken, answers>>
turnVars == <<turn, turns, heard, index>>
vars == <<phase, managed, agents, bridgeVars, turnVars>>

Init ==
    /\ phase = [s \in Sessions |-> "none"] /\ managed = {}
    /\ agents = [s \in Sessions |-> {}]
    /\ handler = None /\ subs = {} /\ cancelled = {} /\ answers = 0
    /\ missed = {} /\ overtaken = {}
    /\ reader = [s \in Sessions |-> "none"] /\ channel = [s \in Sessions |-> 0]
    /\ index = {} /\ heard = {} /\ turns = [s \in Sessions |-> 0]
    /\ turn = [s \in Sessions |-> "idle"]

-----------------------------------------------------------------------------
(* Opening and closing a session.                                            *)

\* VoiceStarter.Start reads the user's installed agents, with their grants, or
\* goes on without any when the database fails.
InstalledAgents(s) == {Installed[s], {}}

\* Mutant: the bridge keeps the handler it has.
KeepsHandler(s) == IF handler = None THEN s ELSE handler

\* SetResponseHandler: the bridge has one handler, the last session's.
SetResponseHandler(s) == s

\* Start and New as far as the response handler, taken before it is known
\* whether the session can be opened.
New(s) ==
    /\ phase[s] = "none"
    /\ phase' = [phase EXCEPT ![s] = "opening"]
    /\ \E loaded \in InstalledAgents(s) : agents' = [agents EXCEPT ![s] = loaded]
    /\ handler' = SetResponseHandler(s)
    /\ overtaken' = overtaken \cup {t \in Sessions : phase[t] # "none"}
    /\ UNCHANGED <<managed, subs, cancelled, reader, channel, missed, answers, turnVars>>

\* SubscribeToSession.  A full table fails the session, which has already
\* taken the handler; else the session is managed and started.
SubscribeToSession(s) ==
    /\ phase[s] = "opening"
    /\ IF Cardinality(subs) >= MaxSubs
       THEN phase' = [phase EXCEPT ![s] = "failed"] /\ UNCHANGED <<managed, subs, reader>>
       ELSE /\ phase' = [phase EXCEPT ![s] = "open"]
            /\ managed' = managed \cup {s}
            /\ subs' = subs \cup {s}
            /\ reader' = [reader EXCEPT ![s] = "receive"]
    /\ UNCHANGED <<agents, handler, cancelled, channel, missed, overtaken, answers, turnVars>>

\* The contexts cancelled once the entry of s is taken out of the table.
CancelledEntry(s) == IF s \in subs THEN cancelled \cup {s} ELSE cancelled

\* RemoveSession, or Manager.Close for each session: the entry goes, then
\* VoiceSession.Close cancels the session and its subscription.
RemoveSession(s) ==
    /\ phase[s] = "open" /\ s \in managed
    /\ managed' = managed \ {s}
    /\ phase' = [phase EXCEPT ![s] = "closing"]
    /\ subs' = subs \ {s}
    /\ cancelled' = CancelledEntry(s)
    /\ UNCHANGED <<agents, handler, reader, channel, missed, overtaken, answers, turnVars>>

\* The end of Close: the goroutines of the session have ended, its clients and
\* its connection are closed (Vision has the frames).
EndClose(s) ==
    /\ phase[s] = "closing"
    /\ phase' = [phase EXCEPT ![s] = "closed"]
    /\ UNCHANGED <<managed, agents, bridgeVars, turnVars>>

-----------------------------------------------------------------------------
(* From the agents to the sessions.                                          *)

\* cleanupStaleSessions: the subscription is older than sessionSubTTL.
CleanupStale(s) ==
    /\ s \in subs
    /\ subs' = subs \ {s}
    /\ cancelled' = CancelledEntry(s)
    /\ UNCHANGED <<phase, managed, agents, handler, reader, channel, missed, overtaken, answers, turnVars>>

\* What readPump forwards from a WebSocket, and HandleEvent from a posted event.
ReadPump == {"response", "response_delta", "response_done"}
HandleEvent == {"response_delta", "response_done"}

\* An agent, asked or not, sends a session something that is forwarded; Redis
\* keeps the message only for a reader that is there.
PublishResponse(a, s, type) ==
    /\ type \in ReadPump \cup HandleEvent
    /\ answers < MaxAnswers
    /\ answers' = answers + 1
    /\ channel' = IF reader[s] \in {"receive", "message"}
                  THEN [channel EXCEPT ![s] = @ + 1] ELSE channel
    /\ UNCHANGED <<phase, managed, agents, handler, subs, cancelled, reader, missed, overtaken, turnVars>>

\* The reader takes a message; one that is there may still come after a cancel.
ReceiveMessage(s) ==
    /\ reader[s] = "receive" /\ channel[s] > 0
    /\ channel' = [channel EXCEPT ![s] = @ - 1]
    /\ reader' = [reader EXCEPT ![s] = "message"]
    /\ UNCHANGED <<phase, managed, agents, handler, subs, cancelled, missed, overtaken, answers, turnVars>>

\* The first test of onAgentResponse, by the session of the handler.
IsMine(h, s) == h = s

\* The reader calls the handler that is current now, which takes or drops it.
OnAgentResponse(s) ==
    /\ reader[s] = "message"
    /\ reader' = [reader EXCEPT ![s] = "receive"]
    /\ missed' = IF handler # None /\ IsMine(handler, s) THEN missed ELSE missed \cup {s}
    /\ UNCHANGED <<phase, managed, agents, handler, subs, cancelled, channel, overtaken, answers, turnVars>>

\* Mutant: the reader returns and leaves its entry in the table.
LeaveEntry(s) == subs

\* The deferred delete of the reader.
DeletedEntry(s) == subs \ {s}

\* The reader sees its cancelled context, or Redis fails, and returns.
ReaderReturns(s) ==
    /\ reader[s] = "receive"
    /\ reader' = [reader EXCEPT ![s] = "gone"]
    /\ channel' = [channel EXCEPT ![s] = 0]
    /\ subs' = DeletedEntry(s)
    /\ UNCHANGED <<phase, managed, agents, handler, cancelled, missed, overtaken, answers, turnVars>>

-----------------------------------------------------------------------------
(* From the user to the agents.                                              *)

\* A final transcript that is not empty is routed; Route asks whether anything
\* is indexed, unless there are fewer than two agents to choose from.
OnTranscript(s) ==
    /\ phase[s] = "open" /\ turn[s] = "idle" /\ turns[s] < MaxTurns
    /\ turns' = [turns EXCEPT ![s] = @ + 1]
    /\ turn' = [turn EXCEPT ![s] =
                  IF index = {} /\ Cardinality(agents[s]) > 1 THEN "index" ELSE "score"]
    /\ UNCHANGED <<phase, managed, agents, bridgeVars, heard, index>>

\* Index replaces the index, also one that another session has made since.
Index(s) ==
    /\ turn[s] = "index"
    /\ index' = agents[s]
    /\ turn' = [turn EXCEPT ![s] = "score"]
    /\ UNCHANGED <<phase, managed, agents, bridgeVars, turns, heard>>

\* scoreFromIndex: the indexed agents of the session whose words occur.
ScoreFromIndex(s, matches) == index \cap matches \cap agents[s]

\* selectByHealth: nobody ever sets the health of an agent.
SelectByHealth == {}

\* Route: a single agent is always taken.
Route(s, matches) ==
    IF Cardinality(agents[s]) = 1 THEN agents[s]
    ELSE IF ScoreFromIndex(s, matches) = {} THEN SelectByHealth
    ELSE ScoreFromIndex(s, matches)

\* onTranscript falls back to all agents when Route names none.
TargetAgents(s, matches) ==
    IF Route(s, matches) = {} THEN agents[s] ELSE Route(s, matches)

\* groupByScopes: the key of an agent is the sorted list of its relevant
\* scopes, and parseScopeKey gives that list back.
RelevantScopes(s, a) == Granted[s][a] \cap Relevant

\* Mutant: the fields are filled in for every agent of the utterance.
BuildFullPayload(s, scopes, vision) == [data |-> UserData[s], sees |-> vision]

\* buildPayload: the fields that a group's scopes allow and the session has, and
\* the vision context when the scopes allow one.
BuildPayload(s, scopes, vision) ==
    [data |-> UserData[s] \cap scopes, sees |-> IF "vision" \in scopes THEN vision ELSE None]

\* GetResult: the last result of the one analyzer that the sessions share, or
\* none.  It shows the frame of whichever session asked last for an analysis.
GetResult == {None} \cup {t \in Sessions : phase[t] \in {"open", "closing", "closed"}}

\* The utterance is published to its audience, with a vision context or
\* without; Redis may fail for any agent.  A user without agents is heard by
\* nobody: PublishUtterance names no agent.
PublishToAgents(s, matches, vision) ==
    /\ turn[s] = "score"
    /\ turn' = [turn EXCEPT ![s] = "idle"]
    /\ \E reached \in SUBSET TargetAgents(s, matches) :
         heard' = heard \cup
            {[agent |-> a, session |-> s, told |-> BuildPayload(s, RelevantScopes(s, a), vision)]
                : a \in reached}
    /\ UNCHANGED <<phase, managed, agents, bridgeVars, turns, index>>

-----------------------------------------------------------------------------

LifeStep(s) == New(s) \/ SubscribeToSession(s) \/ RemoveSession(s) \/ EndClose(s)
ReaderStep(s) == ReceiveMessage(s) \/ OnAgentResponse(s) \/ ReaderReturns(s) \/ CleanupStale(s)

Next ==
    \/ \E s \in Sessions : LifeStep(s) \/ ReaderStep(s) \/ OnTranscript(s) \/ Index(s)
    \/ \E s \in Sessions, matches \in SUBSET Agents, vision \in GetResult :
          PublishToAgents(s, matches, vision)
    \/ \E s \in Sessions, a \in Agents, type \in ReadPump : PublishResponse(a, s, type)

Spec == Init /\ [][Next]_vars

-----------------------------------------------------------------------------
(* Properties.                                                               *)

\* An answer that reached the reader of a session is lost to the session only
\* if another session was opened after it, even one that failed: every reader
\* calls the one handler of the bridge, so that the last session always has
\* its answers, and no end or failure of another takes them away.
AnswersMissedOnlyByOvertaken == missed \subseteq overtaken

\* The table of subscriptions never exceeds its bound and holds exactly those
\* that a goroutine still serves: an entry whose reader has gone would keep its
\* place for ever, and a reader that is not cancelled must be found by Close.
SubscriptionsAreServed ==
    /\ Cardinality(subs) <= MaxSubs
    /\ \A s \in Sessions :
          s \in subs <=> reader[s] \in {"receive", "message"} /\ s \notin cancelled

\* What an agent is told of a user is what this user has granted to it, it is
\* shown something only if this user has granted it vision, and an agent the
\* user has not installed is told nothing, whatever another session has put
\* into the shared index.  Whose camera it is shown is not promised: the result
\* of the shared analyzer may be another user's view.
OnlyGrantedIsHeard ==
    \A h \in heard :
        /\ h.agent \in Installed[h.session]
        /\ h.told.data \subseteq Granted[h.session][h.agent]
        /\ h.told.sees # None => "vision" \in Granted[h.session][h.agent]
=============================================================================
