------------------------ MODULE VoiceSessionsProofs ------------------------
(***************************************************************************)
(* Proofs about VoiceSessions, for any sessions, agents, grants and sizes  *)
(* of the table of subscriptions.                                          *)
(***************************************************************************)
EXTENDS VoiceSessions, FiniteSetTheorems, TLAPS

ReaderPC == {"none", "receive", "message", "gone"}

\* Types of what the proofs speak of.
Typed ==
    /\ phase \in [Sessions -> {"none", "opening", "open", "failed", "closing", "closed"}]
    /\ agents \in [Sessions -> SUBSET Agents]
    /\ handler \in Sessions \cup {None}
    /\ subs \subseteq Sessions /\ cancelled \subseteq Sessions
    /\ reader \in [Sessions -> ReaderPC]

LEMMA TypedInit == ASSUME Init PROVE Typed
    BY DEF Init, Typed, ReaderPC

LEMMA TypedStep == ASSUME Typed, [Next]_vars PROVE Typed'
<1> USE SessionsAssumption DEF Typed, ReaderPC, bridgeVars, turnVars
<1>1. ASSUME NEW s \in Sessions, New(s) PROVE Typed'
    BY <1>1 DEF New, InstalledAgents, SetResponseHandler
<1>2. ASSUME NEW s \in Sessions, SubscribeToSession(s) PROVE Typed'
    BY <1>2 DEF SubscribeToSession
<1>3. ASSUME NEW s \in Sessions, RemoveSession(s) \/ EndClose(s) \/ CleanupStale(s) PROVE Typed'
    BY <1>3 DEF RemoveSession, EndClose, CleanupStale, CancelledEntry
<1>4. ASSUME NEW s \in Sessions, ReceiveMessage(s) \/ OnAgentResponse(s) \/ ReaderReturns(s)
      PROVE  Typed'
    BY <1>4 DEF ReceiveMessage, OnAgentResponse, ReaderReturns, DeletedEntry
<1>5. ASSUME NEW s \in Sessions, OnTranscript(s) \/ Index(s) PROVE Typed'
    BY <1>5 DEF OnTranscript, Index
<1>6. ASSUME NEW s \in Sessions, NEW matches, NEW vision, PublishToAgents(s, matches, vision)
      PROVE  Typed'
    BY <1>6 DEF PublishToAgents
<1>7. ASSUME NEW s \in Sessions, NEW a, NEW type, PublishResponse(a, s, type) PROVE Typed'
    BY <1>7 DEF PublishResponse
<1>8. CASE UNCHANGED vars
    BY <1>8 DEF vars
<1> QED
    BY <1>1, <1>2, <1>3, <1>4, <1>5, <1>6, <1>7, <1>8 DEF Next, LifeStep, ReaderStep

-----------------------------------------------------------------------------
(* Answers *)

\* A session that does not have the handler, and was opened, was overtaken;
\* a reader serves only a session that was opened.
HandlerIsLast ==
    \A s \in Sessions :
        /\ phase[s] # "none" => handler = s \/ s \in overtaken
        /\ reader[s] # "none" => phase[s] # "none"

LEMMA HandlerStep ==
    ASSUME Typed, HandlerIsLast, AnswersMissedOnlyByOvertaken, [Next]_vars
    PROVE  HandlerIsLast' /\ AnswersMissedOnlyByOvertaken'
<1> USE SessionsAssumption DEF Typed, HandlerIsLast, AnswersMissedOnlyByOvertaken
<1>1. ASSUME NEW s \in Sessions, New(s) PROVE HandlerIsLast' /\ AnswersMissedOnlyByOvertaken'
  <2>1. /\ handler' = s /\ reader' = reader /\ missed' = missed
        /\ phase' = [phase EXCEPT ![s] = "opening"]
        /\ overtaken' = overtaken \cup {t \in Sessions : phase[t] # "none"}
      BY <1>1 DEF New, SetResponseHandler
  <2> QED
      BY <2>1
<1>2. ASSUME NEW s \in Sessions, SubscribeToSession(s) \/ RemoveSession(s) \/ EndClose(s)
      PROVE  HandlerIsLast' /\ AnswersMissedOnlyByOvertaken'
    BY <1>2 DEF SubscribeToSession, RemoveSession, EndClose, bridgeVars
<1>3. ASSUME NEW s \in Sessions, ReceiveMessage(s) \/ ReaderReturns(s)
      PROVE  HandlerIsLast' /\ AnswersMissedOnlyByOvertaken'
    BY <1>3 DEF ReceiveMessage, ReaderReturns
<1>4. ASSUME NEW s \in Sessions, OnAgentResponse(s)
      PROVE  HandlerIsLast' /\ AnswersMissedOnlyByOvertaken'
  <2>1. phase[s] # "none"
      BY <1>4 DEF OnAgentResponse
  <2> QED
      BY <1>4, <2>1 DEF OnAgentResponse, IsMine
<1>5. CASE UNCHANGED <<phase, handler, reader, missed, overtaken>>
    BY <1>5
<1> QED
    BY <1>1, <1>2, <1>3, <1>4, <1>5 DEF Next, LifeStep, ReaderStep, CleanupStale, OnTranscript,
        Index, PublishToAgents, PublishResponse, vars, bridgeVars, turnVars

\* However many sessions open, fail and close over one bridge, an answer that
\* reached a session's reader is lost to it only after a later session came.
THEOREM AnswersReachTheLastSession == Spec => []AnswersMissedOnlyByOvertaken
<1>1. Init => Typed /\ HandlerIsLast /\ AnswersMissedOnlyByOvertaken
    BY TypedInit DEF Init, HandlerIsLast, AnswersMissedOnlyByOvertaken
<1>2. Typed /\ HandlerIsLast /\ AnswersMissedOnlyByOvertaken /\ [Next]_vars
          => (Typed /\ HandlerIsLast /\ AnswersMissedOnlyByOvertaken)'
    BY TypedStep, HandlerStep
<1> QED
    BY <1>1, <1>2, PTL DEF Spec

-----------------------------------------------------------------------------
(* Subscriptions *)

\* A session that has not subscribed has neither a reader nor a cancelled
\* context: its entry cannot be dead on arrival.
Fresh ==
    \A s \in Sessions : phase[s] \in {"none", "opening"} =>
        reader[s] = "none" /\ s \notin cancelled

\* The entries of the table are the readers that are not cancelled.
Served ==
    \A s \in Sessions :
        s \in subs <=> reader[s] \in {"receive", "message"} /\ s \notin cancelled

Bounded == Cardinality(subs) <= MaxSubs

\* Each step takes entries out, or adds one below the limit.
LEMMA BoundedStep == ASSUME Typed, Bounded, [Next]_vars PROVE Bounded'
<1> USE SessionsAssumption DEF Typed
<1>1. IsFiniteSet(subs) /\ Cardinality(subs) \in Nat
    BY FS_Subset, FS_CardinalityType
<1>2. ASSUME subs' \subseteq subs PROVE Bounded'
  <2>1. Cardinality(subs') <= Cardinality(subs) /\ Cardinality(subs') \in Nat
    BY <1>1, <1>2, FS_Subset, FS_CardinalityType
  <2> QED
    BY <1>1, <2>1 DEF Bounded
<1>3. ASSUME NEW s \in Sessions, SubscribeToSession(s) PROVE Bounded'
  <2>1. CASE Cardinality(subs) >= MaxSubs
    BY <1>2, <1>3, <2>1 DEF SubscribeToSession
  <2>2. CASE ~(Cardinality(subs) >= MaxSubs)
    <3>1. subs' = subs \cup {s}
      BY <1>3, <2>2 DEF SubscribeToSession
    <3>2. Cardinality(subs \cup {s}) = IF s \in subs THEN Cardinality(subs) ELSE Cardinality(subs) + 1
      BY <1>1, FS_AddElement
    <3> QED
      BY <1>1, <2>2, <3>1, <3>2 DEF Bounded
  <2> QED
    BY <2>1, <2>2
<1>4. CASE subs' \subseteq subs
    BY <1>2, <1>4
<1> QED
    BY <1>3, <1>4 DEF Next, LifeStep, ReaderStep, New, RemoveSession, EndClose, CleanupStale,
        ReceiveMessage, OnAgentResponse, ReaderReturns, DeletedEntry, OnTranscript, Index,
        PublishToAgents, PublishResponse, vars, bridgeVars, turnVars

LEMMA ServedStep == ASSUME Typed, Fresh, Served, [Next]_vars PROVE Fresh' /\ Served'
<1> USE DEF Typed, Fresh, Served, ReaderPC
<1>1. ASSUME NEW s \in Sessions, New(s) PROVE Fresh' /\ Served'
    BY <1>1 DEF New, turnVars
<1>2. ASSUME NEW s \in Sessions, SubscribeToSession(s) PROVE Fresh' /\ Served'
    BY <1>2 DEF SubscribeToSession, turnVars
<1>3. ASSUME NEW s \in Sessions, RemoveSession(s) PROVE Fresh' /\ Served'
    BY <1>3 DEF RemoveSession, CancelledEntry
<1>4. ASSUME NEW s \in Sessions, EndClose(s) PROVE Fresh' /\ Served'
    BY <1>4 DEF EndClose, bridgeVars
<1>5. ASSUME NEW s \in Sessions, CleanupStale(s) PROVE Fresh' /\ Served'
    BY <1>5 DEF CleanupStale, CancelledEntry
<1>6. ASSUME NEW s \in Sessions, ReceiveMessage(s) \/ OnAgentResponse(s) PROVE Fresh' /\ Served'
    BY <1>6 DEF ReceiveMessage, OnAgentResponse
<1>7. ASSUME NEW s \in Sessions, ReaderReturns(s) PROVE Fresh' /\ Served'
    BY <1>7 DEF ReaderReturns, DeletedEntry
<1>8. CASE UNCHANGED <<phase, subs, cancelled, reader>>
    BY <1>8
<1> QED
    BY <1>1, <1>2, <1>3, <1>4, <1>5, <1>6, <1>7, <1>8 DEF Next, LifeStep, ReaderStep,
        OnTranscript, Index, PublishToAgents, PublishResponse, vars, bridgeVars, turnVars

\* The table of subscriptions never exceeds its bound and holds exactly the
\* entries that a reader serves, for any number of sessions and any bound.
THEOREM SubscriptionsServed == Spec => []SubscriptionsAreServed
<1>1. Init => Typed /\ Fresh /\ Served /\ Bounded
    BY TypedInit, SessionsAssumption, FS_EmptySet DEF Init, Fresh, Served, Bounded
<1>2. Typed /\ Fresh /\ Served /\ Bounded /\ [Next]_vars => (Typed /\ Fresh /\ Served /\ Bounded)'
    BY TypedStep, ServedStep, BoundedStep
<1>3. Served /\ Bounded => SubscriptionsAreServed
    BY DEF Served, Bounded, SubscriptionsAreServed
<1> QED
    BY <1>1, <1>2, <1>3, PTL DEF Spec

-----------------------------------------------------------------------------
(* Grants *)

\* A session works with agents its user has installed.
OwnAgents == \A s \in Sessions : agents[s] \subseteq Installed[s]

LEMMA OwnAgentsStep == ASSUME Typed, OwnAgents, [Next]_vars PROVE OwnAgents'
<1>1. ASSUME NEW s \in Sessions, New(s) PROVE OwnAgents'
    BY <1>1 DEF New, InstalledAgents, OwnAgents, Typed
<1>2. CASE UNCHANGED agents
    BY <1>2 DEF OwnAgents
<1> QED
    BY <1>1, <1>2 DEF Next, LifeStep, ReaderStep, SubscribeToSession, RemoveSession, EndClose,
        CleanupStale, ReceiveMessage, OnAgentResponse, ReaderReturns, OnTranscript, Index,
        PublishToAgents, PublishResponse, vars

\* Whatever the shared index holds, the router names agents of the session.
LEMMA TargetsAreOwn ==
    ASSUME NEW s, NEW matches PROVE TargetAgents(s, matches) \subseteq agents[s]
    BY DEF TargetAgents, Route, SelectByHealth, ScoreFromIndex

\* A payload holds what the scopes of its group allow, and those were granted.
LEMMA PayloadIsGranted ==
    ASSUME NEW s, NEW a, NEW vision
    PROVE  LET told == BuildPayload(s, RelevantScopes(s, a), vision)
           IN  /\ told.data \subseteq Granted[s][a]
               /\ told.sees # None => "vision" \in Granted[s][a]
    BY DEF BuildPayload, RelevantScopes

LEMMA HeardStep ==
    ASSUME Typed, OwnAgents, OnlyGrantedIsHeard, [Next]_vars PROVE OnlyGrantedIsHeard'
<1>1. ASSUME NEW s \in Sessions, NEW matches, NEW vision, PublishToAgents(s, matches, vision)
      PROVE  OnlyGrantedIsHeard'
  <2>1. PICK reached \in SUBSET TargetAgents(s, matches) :
          heard' = heard \cup
            {[agent |-> a, session |-> s, told |-> BuildPayload(s, RelevantScopes(s, a), vision)]
                : a \in reached}
      BY <1>1 DEF PublishToAgents
  <2>2. ASSUME NEW h \in heard', h \notin heard
        PROVE  /\ h.agent \in Installed[h.session]
               /\ h.told.data \subseteq Granted[h.session][h.agent]
               /\ h.told.sees # None => "vision" \in Granted[h.session][h.agent]
    <3>1. PICK a \in reached :
            h = [agent |-> a, session |-> s, told |-> BuildPayload(s, RelevantScopes(s, a), vision)]
        BY <2>1, <2>2
    <3>2. h.agent = a /\ h.session = s /\ h.told = BuildPayload(s, RelevantScopes(s, a), vision)
        BY <3>1
    <3>3. a \in Installed[s]
        BY TargetsAreOwn DEF OwnAgents
    <3> QED
        BY <3>2, <3>3, PayloadIsGranted
  <2> QED
      BY <2>2 DEF OnlyGrantedIsHeard
<1>2. CASE UNCHANGED heard
    BY <1>2 DEF OnlyGrantedIsHeard
<1> QED
    BY <1>1, <1>2 DEF Next, LifeStep, ReaderStep, New, SubscribeToSession, RemoveSession,
        EndClose, CleanupStale, ReceiveMessage, OnAgentResponse, ReaderReturns, OnTranscript,
        Index, PublishResponse, vars, turnVars

\* What an agent is told of a user was granted to it by this user, who has
\* installed it, and it is shown a view, be it another user's, only with this
\* user's grant: for any users, agents, grants, contents of the index and
\* result of the shared analyzer.
THEOREM GrantedIsHeard == Spec => []OnlyGrantedIsHeard
<1>1. Init => Typed /\ OwnAgents /\ OnlyGrantedIsHeard
    BY TypedInit DEF Init, OwnAgents, OnlyGrantedIsHeard
<1>2. Typed /\ OwnAgents /\ OnlyGrantedIsHeard /\ [Next]_vars
          => (Typed /\ OwnAgents /\ OnlyGrantedIsHeard)'
    BY TypedStep, OwnAgentsStep, HeardStep
<1> QED
    BY <1>1, <1>2, PTL DEF Spec

=============================================================================
