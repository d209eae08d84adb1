----------------------------- MODULE AgentTurn -----------------------------
(***************************************************************************)
(* Who answers the user: the arbitration between the agents of a voice     *)
(* session (Arbiter), the sentence buffer all of them share                *)
(* (SentenceBuffer) and the handlers of VoiceSession that use them, run by *)
(* the goroutines that really share them:                                  *)
(*   - the STT read loop: onTranscript asks the agents, and a barge-in     *)
(*     cancels them (cancelActiveAgents);                                  *)
(*   - the bridge subscription, which handles one agent message at a time  *)
(*     (handleResponseDelta, handleResponseDone, handleCompleteResponse);  *)
(*   - the receiving goroutine of each complete response, whose OnDone     *)
(*     resets the arbiter.                                                 *)
(* Agents and the segmentation of a text into sentences are external.  The *)
(* text of a delta is one piece; what is spoken is the sequence of texts   *)
(* handed to the speech queue or to a synthesis.                           *)
(***************************************************************************)
EXTENDS Naturals, Sequences, FiniteSets

CONSTANTS Agents,
          None,       \* no winner (the empty string)
          MaxTurns,   \* final transcripts of the session
          MaxDeltas,  \* deltas all agents send
          MaxCuts     \* barge-ins

ASSUME TurnAssumption ==
    /\ None \notin Agents
    /\ MaxTurns \in Nat
    /\ MaxDeltas \in Nat
    /\ MaxCuts \in Nat

Turns  == 1..MaxTurns

\* Pieces are numbered as received and know who sent them, whether they finished
\* a sentence when they came, and whether one ends with them as segmented now.
Pieces == [no : 1..MaxDeltas, by : Agents, finished : BOOLEAN, ends : BOOLEAN]

SubPC == {"idle", "decide", "doneDecide", "discard", "losers", "speak", "flush",
          "speakRest", "doneReset"}
SttPC == {"idle", "ask", "cancel"}

VARIABLES
    active,       \* Arbiter.active
    winner,       \* Arbiter.winner
    started,      \* Arbiter.started
    activeAgents, \* VoiceSession.activeAgents
    buffer,       \* SentenceBuffer.buffer
    emitted,      \* SentenceBuffer.emitted
    subPc,        \* where the bridge subscription is
    sub,          \* its locals: the agent, the text, the request a complete
                  \* response answers, and (history) the turn it was decided in
    sttPc,        \* where the STT read loop is
    turn,         \* transcripts so far: each starts one arbitration
    cuts,         \* barge-ins so far
    answer,       \* what each agent has done about each request
    deltas,       \* deltas received so far
    replies,      \* complete responses in synthesis
    won,          \* who won the arbitration of each turn (history)
    interrupted,  \* turns whose arbitration a barge-in reset (history)
    speakers,     \* agents whose messages were handed to speech, or whose
                  \* finished sentences were, under each turn (history)
    stragglers,   \* how often after it was interrupted (history)
    spoken,       \* the pieces handed to speech (history)
    cancels       \* losers of each turn that were sent a cancellation (history)

arbiterVars == <<active, winner, started, won>>
bufferVars  == <<buffer, emitted>>
subVars     == <<subPc, sub>>
sttVars     == <<activeAgents, sttPc, turn, cuts, interrupted>>
agentVars   == <<answer, deltas>>
speechVars  == <<speakers, stragglers, spoken>>
vars == <<arbiterVars, bufferVars, subVars, sttVars, agentVars, replies, speechVars, cancels>>

NoLocals == [agent |-> None, text |-> <<>>, request |-> 0, round |-> 0]

-----------------------------------------------------------------------------
(* Arbiter *)

\* Mutant: an agent that was not asked, or asks after the reset, may win.
AnybodyMayWin(a) == winner = None

\* Whether Decide makes this agent the winner.
IsNew(a) == started /\ a \in active /\ winner = None

\* The winner Decide returns.
Verdict(a) == IF IsNew(a) THEN a ELSE winner

Decide(a) ==
    /\ winner' = Verdict(a)
    /\ won' = IF IsNew(a) THEN [won EXCEPT ![turn] = @ \union {a}] ELSE won
    /\ UNCHANGED <<active, started>>

\* Mutant: the losers are computed although nobody has won.
LosersOfAny == active \ {winner}

Losers == IF winner = None THEN {} ELSE active \ {winner}

\* Mutant: a reset forgets the winner and leaves the arbitration open.
ResetWinnerOnly == winner' = None /\ UNCHANGED <<active, started, won>>

Reset ==
    /\ active' = {}
    /\ winner' = None
    /\ started' = FALSE
    /\ UNCHANGED won

-----------------------------------------------------------------------------
(* SentenceBuffer *)

\* The complete sentences of a text.
Complete(b) == Cardinality({i \in DOMAIN b : b[i].ends})

\* How many pieces the first k of them take up: all, if there are fewer.
EndOf(b, k) ==
    Cardinality({i \in DOMAIN b : Cardinality({j \in 1..(i - 1) : b[j].ends}) < k})

\* What is left of a text behind its first k sentences.
Behind(b, k) == SubSeq(b, EndOf(b, k) + 1, Len(b))

\* Where sentences may end once a piece is added: the whole text is segmented
\* anew.  An end may be found late (behind a quotation) or vanish ("Dr." before
\* "Smith"); only a text that was handed out is not split further.
Segmentations ==
    {ends \in SUBSET (1..(Len(buffer) + 1)) :
        \A i \in ends : i <= EndOf(buffer, emitted) => buffer[i].ends}

\* The buffer with the piece of agent a.
Added(a, ends) ==
    [i \in 1..(Len(buffer) + 1) |->
        IF i <= Len(buffer) THEN [buffer[i] EXCEPT !.ends = i \in ends]
        ELSE [no |-> deltas + 1, by |-> a, finished |-> i \in ends, ends |-> i \in ends]]

\* What Add returns for the text b: the complete sentences not yet emitted.
NewComplete(b) == SubSeq(b, EndOf(b, emitted) + 1, EndOf(b, Complete(b)))

\* Mutant: an Add does not count the sentences it hands out.
EmittedForgotten(b) == 0

\* SentenceBuffer.emitted after an Add: emitted sentences stay in the buffer, and
\* their number stays when sentences have merged.
EmittedAfter(b) == IF Complete(b) > emitted THEN Complete(b) ELSE emitted

ResetBuffer == buffer' = <<>> /\ emitted' = 0

-----------------------------------------------------------------------------
(* The bridge subscription *)

\* handleResponseDelta up to and including Add.
ReceiveDelta(a, n) ==
    /\ subPc = "idle"
    /\ answer[a][n] \in {"open", "streaming"}
    /\ deltas < MaxDeltas
    /\ deltas' = deltas + 1
    /\ answer' = [answer EXCEPT ![a][n] = "streaming"]
    /\ \E ends \in Segmentations : buffer' = Added(a, ends)
    /\ emitted' = EmittedAfter(buffer')
    /\ IF Complete(buffer') > emitted
       THEN /\ subPc' = "decide"
            /\ sub' = [NoLocals EXCEPT !.agent = a, !.text = NewComplete(buffer')]
       ELSE UNCHANGED subVars
    /\ UNCHANGED <<arbiterVars, sttVars, replies, speechVars, cancels>>

\* What follows Decide, for an answer that can be spoken at once.
Decided(a, lost) ==
    /\ Decide(a)
    /\ subPc' = IF Verdict(a) # a THEN lost ELSE IF IsNew(a) THEN "losers" ELSE "speak"

DecideDelta ==
    /\ subPc = "decide"
    /\ Decided(sub.agent, "discard")
    /\ sub' = [sub EXCEPT !.round = turn]
    /\ UNCHANGED <<bufferVars, sttVars, agentVars, replies, speechVars, cancels>>

\* A loser's message resets the buffer it shares with the winner.
Discard ==
    /\ subPc = "discard"
    /\ ResetBuffer
    /\ subPc' = "idle"
    /\ sub' = NoLocals
    /\ UNCHANGED <<arbiterVars, sttVars, agentVars, replies, speechVars, cancels>>

\* cancelLosers reads the losers after the decision, and publishes to them.
CancelLosers ==
    /\ subPc = "losers"
    /\ cancels' = [cancels EXCEPT ![turn] = @ \union Losers]
    /\ subPc' = "speak"
    /\ UNCHANGED <<arbiterVars, bufferVars, sub, sttVars, agentVars, replies, speechVars>>

\* Who finished the sentences of a text.
Finishers(text) == {text[i].by : i \in {i \in DOMAIN text : text[i].finished}}

\* The handler hands a text to speech, whoever wrote it.
HandOver ==
    /\ speakers' = [speakers EXCEPT ![sub.round] = @ \union {sub.agent} \union Finishers(sub.text)]
    /\ stragglers' = IF sub.round \in interrupted
                     THEN [stragglers EXCEPT ![sub.round] = @ + 1] ELSE stragglers
    /\ spoken' = spoken \o [i \in DOMAIN sub.text |-> sub.text[i].no]

\* Enqueue of the sentences, or the start of a complete response's synthesis (a
\* streamed answer has no request in its locals).
Speak ==
    /\ subPc = "speak"
    /\ HandOver
    /\ replies' = replies \union ({<<sub.agent, sub.request>>} \intersect (Agents \X Turns))
    /\ subPc' = "idle"
    /\ sub' = NoLocals
    /\ UNCHANGED <<arbiterVars, bufferVars, sttVars, agentVars, cancels>>

\* handleResponseDone up to and including Winner.
ReceiveDone(a, n) ==
    /\ subPc = "idle"
    /\ answer[a][n] \in {"open", "streaming"}
    /\ answer' = [answer EXCEPT ![a][n] = "done"]
    /\ subPc' = CASE winner = None -> "doneDecide"
                  [] winner = a    -> "flush"
                  [] OTHER         -> "discard"
    /\ sub' = [NoLocals EXCEPT !.agent = a, !.round = turn]
    /\ UNCHANGED <<arbiterVars, bufferVars, sttVars, deltas, replies, speechVars, cancels>>

\* The last-minute winner cancels no losers.
DecideDone ==
    /\ subPc = "doneDecide"
    /\ Decide(sub.agent)
    /\ subPc' = IF Verdict(sub.agent) = sub.agent THEN "flush" ELSE "discard"
    /\ sub' = [sub EXCEPT !.round = turn]
    /\ UNCHANGED <<bufferVars, sttVars, agentVars, replies, speechVars, cancels>>

Flush ==
    /\ subPc = "flush"
    /\ ResetBuffer
    /\ sub' = [sub EXCEPT !.text = Behind(buffer, emitted)]
    /\ subPc' = IF sub'.text = <<>> THEN "doneReset" ELSE "speakRest"
    /\ UNCHANGED <<arbiterVars, sttVars, agentVars, replies, speechVars, cancels>>

SpeakRest ==
    /\ subPc = "speakRest"
    /\ HandOver
    /\ subPc' = "doneReset"
    /\ UNCHANGED <<arbiterVars, bufferVars, sub, sttVars, agentVars, replies, cancels>>

DoneReset ==
    /\ subPc = "doneReset"
    /\ Reset
    /\ subPc' = "idle"
    /\ sub' = NoLocals
    /\ UNCHANGED <<bufferVars, sttVars, agentVars, replies, speechVars, cancels>>

\* handleCompleteResponse up to and including Decide.
ReceiveReply(a, n) ==
    /\ subPc = "idle"
    /\ answer[a][n] = "open"
    /\ answer' = [answer EXCEPT ![a][n] = "done"]
    /\ Decided(a, "idle")
    /\ sub' = IF Verdict(a) = a
              THEN [NoLocals EXCEPT !.agent = a, !.round = turn, !.request = n]
              ELSE NoLocals
    /\ UNCHANGED <<bufferVars, sttVars, deltas, replies, speechVars, cancels>>

-----------------------------------------------------------------------------
(* The receiving goroutine of a complete response *)

\* OnDone, once the audio has drained: it resets whatever arbitration runs.
ReplyDone ==
    /\ \E r \in replies : replies' = replies \ {r}
    /\ Reset
    /\ UNCHANGED <<bufferVars, subVars, sttVars, agentVars, speechVars, cancels>>

\* OnError leaves the arbiter alone.
ReplyError ==
    /\ \E r \in replies : replies' = replies \ {r}
    /\ UNCHANGED <<arbiterVars, bufferVars, subVars, sttVars, agentVars, speechVars, cancels>>

-----------------------------------------------------------------------------
(* The STT read loop *)

\* onTranscript: Route picks some agents, or all of them; Arbiter.Start ...
Transcript ==
    /\ sttPc = "idle"
    /\ turn < MaxTurns
    /\ turn' = turn + 1
    /\ activeAgents' \in SUBSET Agents \ {{}}
    /\ active' = activeAgents'
    /\ winner' = None
    /\ started' = TRUE
    /\ sttPc' = "ask"
    /\ UNCHANGED <<won, bufferVars, subVars, cuts, interrupted, agentVars, replies,
                   speechVars, cancels>>

\* ... then the utterance is published to them, and they may answer.
PublishToAgents ==
    /\ sttPc = "ask"
    /\ answer' = [a \in Agents |->
                    IF a \in activeAgents THEN [answer[a] EXCEPT ![turn] = "open"]
                    ELSE answer[a]]
    /\ sttPc' = "idle"
    /\ UNCHANGED <<arbiterVars, bufferVars, subVars, activeAgents, turn, cuts,
                   interrupted, deltas, replies, speechVars, cancels>>

\* A barge-in, possible once the session has spoken: stopTTS clears the speech
\* queue and the sentence buffer ...
StopTTS ==
    /\ sttPc = "idle"
    /\ \E r \in Turns : speakers[r] # {}
    /\ cuts < MaxCuts
    /\ cuts' = cuts + 1
    /\ ResetBuffer
    /\ sttPc' = "cancel"
    /\ UNCHANGED <<arbiterVars, subVars, activeAgents, turn, interrupted, agentVars,
                   replies, speechVars, cancels>>

\* ... then the agents are cancelled and the arbiter is reset.
CancelActiveAgents ==
    /\ sttPc = "cancel"
    /\ activeAgents' = {}
    /\ Reset
    /\ interrupted' = interrupted \union {turn}
    /\ sttPc' = "idle"
    /\ UNCHANGED <<bufferVars, subVars, turn, cuts, agentVars, replies, speechVars, cancels>>

-----------------------------------------------------------------------------
Init ==
    /\ active = {}
    /\ winner = None
    /\ started = FALSE
    /\ won = [r \in Turns |-> {}]
    /\ activeAgents = {}
    /\ buffer = <<>>
    /\ emitted = 0
    /\ subPc = "idle"
    /\ sub = NoLocals
    /\ sttPc = "idle"
    /\ turn = 0
    /\ cuts = 0
    /\ interrupted = {}
    /\ answer = [a \in Agents |-> [n \in Turns |-> "none"]]
    /\ deltas = 0
    /\ replies = {}
    /\ speakers = [r \in Turns |-> {}]
    /\ stragglers = [r \in Turns |-> 0]
    /\ spoken = <<>>
    /\ cancels = [r \in Turns |-> {}]

Message(a, n) == ReceiveDelta(a, n) \/ ReceiveDone(a, n) \/ ReceiveReply(a, n)

Handler ==
    \/ DecideDelta \/ Discard \/ CancelLosers \/ Speak
    \/ DecideDone \/ Flush \/ SpeakRest \/ DoneReset

ReadLoop == Transcript \/ PublishToAgents \/ StopTTS \/ CancelActiveAgents

Next ==
    \/ \E a \in Agents, n \in Turns : Message(a, n)
    \/ Handler
    \/ ReplyDone \/ ReplyError
    \/ ReadLoop

Spec == Init /\ [][Next]_vars

-----------------------------------------------------------------------------
(* Properties *)

ArbiterTypes ==
    /\ active \in SUBSET Agents
    /\ winner \in Agents \union {None}
    /\ won \in [Turns -> SUBSET Agents]
    /\ interrupted \in SUBSET (0..turn)

BufferTypes == buffer \in Seq(Pieces) /\ emitted \in Nat

SubTypes ==
    /\ subPc \in SubPC
    /\ sub \in [agent : Agents \union {None}, text : Seq(Pieces),
               request : 0..MaxTurns, round : 0..turn]

SttTypes ==
    /\ sttPc \in SttPC
    /\ activeAgents \in SUBSET Agents
    /\ turn \in 0..MaxTurns
    /\ cuts \in 0..MaxCuts

AnswerTypes ==
    /\ answer \in [Agents -> [Turns -> {"none", "open", "streaming", "done"}]]
    /\ deltas \in 0..MaxDeltas
    /\ replies \in SUBSET (Agents \X Turns)

HistoryTypes ==
    /\ speakers \in [Turns -> SUBSET Agents]
    /\ stragglers \in [Turns -> Nat]
    /\ spoken \in Seq(1..MaxDeltas)
    /\ cancels \in [Turns -> SUBSET Agents]

\* The winner is an agent or nobody, the locals of the handler name a turn that
\* has begun, and every counter respects its bound.
TypeOK ==
    /\ started \in BOOLEAN
    /\ ArbiterTypes /\ BufferTypes /\ SubTypes /\ SttTypes /\ AnswerTypes /\ HistoryTypes

\* One agent has the word in a turn: everything handed to speech under one
\* arbitration is handed over on a message of the same agent, and every sentence
\* in it that was finished by the delta it came with was finished by this agent,
\* whatever resets (a barge-in, the end of a streamed answer, the late OnDone of
\* an old complete response) come between the decisions.  Unfinished text is not
\* covered: what another agent has left in the shared buffer is spoken with it.
OneVoicePerTurn == \A r \in Turns : \A a, b \in speakers[r] : a = b

\* The agent that wins an arbitration is never told that it lost it, although
\* the losers are read in a critical section of their own after the decision.
WinnerIsNotCancelled == \A r \in Turns : cancels[r] \intersect won[r] = {}

\* Resetting the arbiter closes a turn: of an arbitration that a barge-in has
\* reset, at most the one answer that was being handled is still spoken.
AtMostOneStraggler == \A r \in Turns : stragglers[r] <= 1

\* No text is spoken twice or out of order, with several agents writing into
\* one buffer and losers and barge-ins resetting it between an Add and its use.
SpokenOnceInOrder ==
    \A i, j \in DOMAIN spoken : i < j => spoken[i] < spoken[j]

=============================================================================
