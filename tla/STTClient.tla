------------------------------ MODULE STTClient ------------------------------
(***************************************************************************)
(* The transcription client (internal/transcription/client.go): one gRPC   *)
(* stream with a reading goroutine, and a background loop that replaces    *)
(* the stream when a caller asks for it.                                   *)
(*                                                                         *)
(* Connecting replaces conn, stream, readyCh and errCh under the lock; the *)
(* reader of a stream uses whatever readyCh and errCh are current when it  *)
(* reports.  Nothing keeps a caller from asking for a reconnection while a *)
(* reader is live: after its next message that reader turns to the new     *)
(* stream and shares it with the new reader.                               *)
(* Voice sessions use New, SendOpusFrame and Close; Reconnect and its kin  *)
(* are the client's interface to callers that keep a client for long.      *)
(***************************************************************************)
EXTENDS Naturals, FiniteSets

CONSTANTS Callers,      \* goroutines that call ReconnectSync
          MaxAttempts,  \* BackoffConfig.MaxAttempts
          MaxStreams,   \* bound: streams opened in a behaviour
          MaxReconnects \* bound: reconnect loops started in a behaviour

ASSUME STTAssumption ==
    /\ MaxAttempts \in Nat \ {0} /\ MaxStreams \in Nat \ {0} /\ MaxReconnects \in Nat

Streams == 1..MaxStreams

\* The channels reconnectCh has held, numbered: 0 is the one New makes.
Channels == 0..MaxReconnects

VARIABLES stream,       \* the current stream, equally the conn under it
          readySent,    \* the streams whose Ready has been delivered
          reader,       \* [Streams -> state of the reader started for it]
          on,           \* [Streams -> the stream its reader receives from]
          readyClosed,  \* whether the current readyCh is closed
          panicked,     \* a channel was closed twice
          late,         \* history: the Ready of a stream was handled after it was replaced
          state,        \* reconnectState
          loops,        \* reconnectLoop goroutines: bag as [position -> count]
          attempts,     \* attempts made by the loop
          reconnectCh,  \* the current channel of outcomes
          outcome,      \* [Channels -> {"none", "sent", "taken"}], the outcome in it
          hasty,        \* history: a loop was started while a reader was reading
          caller,       \* [Callers -> {"idle", "asked", "waiting"}]
          waits,        \* [Callers -> Channels], the channel WaitReconnect has read
          cancelled     \* Close has cancelled ctx

readyVars == <<readyClosed, panicked, late>>
streamVars == <<stream, readySent, reader, on, readyVars>>
loopVars == <<state, loops, attempts, reconnectCh, hasty>>
callVars == <<outcome, caller, waits>>
vars == <<streamVars, loopVars, callVars, cancelled>>

LoopAt == {"attempt", "assigned", "backoff", "leaving"}

\* New has connected: the first stream is open and its reader runs.
Init ==
    /\ stream = 1 /\ readySent = {}
    /\ reader = [s \in Streams |-> IF s = 1 THEN "recv" ELSE "none"]
    /\ on = [s \in Streams |-> s]
    /\ readyClosed = FALSE /\ panicked = FALSE /\ late = FALSE
    /\ state = "idle" /\ loops = [p \in LoopAt |-> 0] /\ attempts = 0
    /\ reconnectCh = 0 /\ hasty = FALSE
    /\ outcome = [k \in Channels |-> "none"]
    /\ caller = [c \in Callers |-> "idle"] /\ waits = [c \in Callers |-> 0]
    /\ cancelled = FALSE

-----------------------------------------------------------------------------
(* The reader.                                                               *)

\* The sidecar answers the config with Ready, once per stream: the reader
\* closes the readyCh that is current by then and turns to the stream that is.
RecvReady(s) ==
    /\ reader[s] = "recv" /\ on[s] \notin readySent
    /\ readySent' = readySent \cup {on[s]}
    /\ panicked' = (panicked \/ readyClosed)
    /\ readyClosed' = TRUE
    /\ late' = (late \/ on[s] # stream)
    /\ on' = [on EXCEPT ![s] = stream]
    /\ UNCHANGED <<stream, reader, loopVars, callVars, cancelled>>

\* Speech events, transcripts and sidecar errors run their callback; the next
\* Recv is on the stream that is current by then.
RecvEvent(s) ==
    /\ reader[s] = "recv"
    /\ on' = [on EXCEPT ![s] = stream]
    /\ UNCHANGED <<stream, readySent, reader, readyVars,
                   loopVars, callVars, cancelled>>

\* Recv fails, because the sidecar or the network ended the stream or ctx is
\* done, each reader of a stream finding out for itself: OnError runs (not for
\* io.EOF), and the reader leaves its error in the errCh that is current.  It
\* exits, or blocks for ever when errCh already holds an error: nobody
\* receives from it.
RecvFails(s) ==
    /\ reader[s] = "recv"
    /\ reader' = [reader EXCEPT ![s] = "left"]
    /\ on' = [on EXCEPT ![s] = s]
    /\ UNCHANGED <<stream, readySent, readyVars, loopVars, callVars, cancelled>>

-----------------------------------------------------------------------------
(* Reconnecting.                                                             *)

\* How many reconnectLoop goroutines there are.
LoopCount == loops["attempt"] + loops["assigned"] + loops["backoff"] + loops["leaving"]

\* One loop goroutine goes from one position to another.
Move(from, to) == loops' = [loops EXCEPT ![from] = @ - 1, ![to] = @ + 1]

\* A loop starts with a new reconnectCh.
StartLoop ==
    /\ state' = "inProgress"
    /\ reconnectCh' = reconnectCh + 1
    /\ loops' = [loops EXCEPT !["attempt"] = @ + 1]
    /\ attempts' = 0
    /\ hasty' = (hasty \/ \E s \in Streams : reader[s] = "recv")

\* Mutant: Reconnect does not look for a loop that is under way.
ReconnectAlways == reconnectCh < MaxReconnects /\ StartLoop

\* Reconnect: starts a loop unless one is under way.
Reconnect ==
    \/ state = "inProgress" /\ UNCHANGED loopVars
    \/ state = "idle" /\ reconnectCh < MaxReconnects /\ StartLoop

\* A caller enters ReconnectSync, which calls Reconnect.
ReconnectSync(c) ==
    /\ caller[c] = "idle" /\ ~cancelled
    /\ Reconnect
    /\ caller' = [caller EXCEPT ![c] = "asked"]
    /\ UNCHANGED <<streamVars, outcome, waits, cancelled>>

\* WaitReconnect reads, once, the reconnectCh that is current by then.
WaitReconnect(c) ==
    /\ caller[c] = "asked"
    /\ caller' = [caller EXCEPT ![c] = "waiting"]
    /\ waits' = [waits EXCEPT ![c] = reconnectCh]
    /\ UNCHANGED <<streamVars, loopVars, outcome, cancelled>>

\* It returns with the outcome in that channel, or because ctx is done.
WaitReturns(c) ==
    /\ caller[c] = "waiting"
    /\ \/ /\ outcome[waits[c]] = "sent"
          /\ outcome' = [outcome EXCEPT ![waits[c]] = "taken"]
       \/ cancelled /\ outcome' = outcome
    /\ caller' = [caller EXCEPT ![c] = "idle"]
    /\ waits' = [waits EXCEPT ![c] = 0]
    /\ UNCHANGED <<streamVars, loopVars, cancelled>>

\* notifyReconnect: the outcome, success or failure, is left in reconnectCh if
\* there is room.
NotifyReconnect ==
    outcome' = [outcome EXCEPT ![reconnectCh] = IF @ = "none" THEN "sent" ELSE @]

\* An attempt that cannot dial or open a stream (always so when ctx was done before):
\* what was dialled is closed again, and the loop backs off.
AttemptFails ==
    /\ loops["attempt"] > 0
    /\ attempts < MaxAttempts
    /\ attempts' = attempts + 1
    /\ Move("attempt", "backoff")
    /\ UNCHANGED <<streamVars, state, reconnectCh, hasty, callVars, cancelled>>

\* Mutant: the new stream keeps the readyCh of the old one.
ReplaceKeepsReady ==
    /\ stream' = stream + 1
    /\ readyClosed' = readyClosed

\* connectAndStart under the lock: conn, stream, readyCh and errCh are
\* replaced.  The old connection is dropped without being closed.
Replace ==
    /\ stream' = stream + 1
    /\ readyClosed' = FALSE

\* An attempt dials, opens a stream and makes it the client's: nobody sees a
\* stream that is not assigned yet.
ConnectAndStart ==
    /\ loops["attempt"] > 0 /\ attempts < MaxAttempts /\ stream < MaxStreams
    /\ Replace
    /\ attempts' = attempts + 1
    /\ Move("attempt", "assigned")
    /\ UNCHANGED <<readySent, reader, on, panicked, late,
                   state, reconnectCh, hasty, callVars, cancelled>>

\* sendConfig succeeds: the reader is started, the outcome is announced.
SendConfig ==
    /\ loops["assigned"] > 0
    /\ reader' = [reader EXCEPT ![stream] = "recv"]
    /\ on' = [on EXCEPT ![stream] = stream]
    /\ NotifyReconnect
    /\ Move("assigned", "leaving")
    /\ UNCHANGED <<stream, readySent, readyVars, state, attempts,
                   reconnectCh, hasty, caller, waits, cancelled>>

\* Mutant: the reader is started before the config is sent.
SendConfigFailsReading ==
    /\ loops["assigned"] > 0
    /\ Move("assigned", "backoff")
    /\ reader' = [reader EXCEPT ![stream] = "recv"]
    /\ UNCHANGED <<stream, readySent, on, readyVars, state,
                   attempts, reconnectCh, hasty, callVars, cancelled>>

\* sendConfig fails: the stream stays the client's, without a reader, and the
\* loop backs off.
SendConfigFails ==
    /\ loops["assigned"] > 0
    /\ Move("assigned", "backoff")
    /\ UNCHANGED <<streamVars, state, attempts, reconnectCh, hasty, callVars, cancelled>>

\* The delay has passed: the next attempt.
Backoff ==
    /\ loops["backoff"] > 0 /\ ~cancelled
    /\ Move("backoff", "attempt")
    /\ UNCHANGED <<streamVars, state, attempts, reconnectCh, hasty, callVars, cancelled>>

\* ctx is done while the loop backs off or before an attempt, or the attempts
\* are used up: the loop ends.
LoopEnds ==
    \/ cancelled /\ loops["backoff"] > 0 /\ Move("backoff", "leaving")
    \/ (cancelled \/ attempts = MaxAttempts) /\ loops["attempt"] > 0 /\ Move("attempt", "leaving")

\* Mutant: a loop whose attempts are used up announces nothing.
GiveUpSilently ==
    /\ LoopEnds
    /\ UNCHANGED <<streamVars, state, attempts, reconnectCh, hasty, callVars, cancelled>>

\* A loop that ends without a stream announces the failure.
GiveUp ==
    /\ LoopEnds
    /\ NotifyReconnect
    /\ UNCHANGED <<streamVars, state, attempts, reconnectCh, hasty, caller, waits, cancelled>>

\* The deferred reset of reconnectState; the loop is gone.
LeaveLoop ==
    /\ loops["leaving"] > 0
    /\ state' = "idle"
    /\ loops' = [loops EXCEPT !["leaving"] = @ - 1]
    /\ attempts' = 0
    /\ UNCHANGED <<streamVars, reconnectCh, hasty, callVars, cancelled>>

-----------------------------------------------------------------------------

\* SendAudio, SendEncodedAudio and SendOpusFrame take the current stream under
\* the lock and change nothing of the client.

\* Close: ctx is cancelled, which ends every stream, and the current
\* connection is closed; one that the loop has opened and not yet assigned, or
\* that was replaced, stays open.
Close ==
    /\ ~cancelled
    /\ cancelled' = TRUE
    /\ UNCHANGED <<stream, readySent, reader, on, readyVars, loopVars, callVars>>

ReaderStep(s) == RecvReady(s) \/ RecvEvent(s) \/ RecvFails(s) 
CallerStep(c) == WaitReconnect(c) \/ WaitReturns(c)
LoopStep ==
    \/ AttemptFails \/ ConnectAndStart \/ SendConfig \/ SendConfigFails
    \/ Backoff \/ GiveUp \/ LeaveLoop

\* A panic ends the process.
Next ==
    /\ ~panicked
    /\ \/ \E s \in Streams : ReaderStep(s)
       \/ \E c \in Callers : ReconnectSync(c) \/ CallerStep(c)
       \/ LoopStep
       \/ Close

Spec == Init /\ [][Next]_vars

\* The goroutines run; gRPC fails the Recv of a stream whose context is done.
Fairness ==
    /\ WF_vars(~panicked /\ LoopStep)
    /\ \A s \in Streams : WF_vars(~panicked /\ cancelled /\ RecvFails(s))
    /\ \A c \in Callers : WF_vars(~panicked /\ CallerStep(c))

FairSpec == Spec /\ Fairness

-----------------------------------------------------------------------------
(* Properties.                                                               *)

\* Types of the variables.
TypeOK ==
    /\ stream \in Streams /\ readySent \subseteq Streams
    /\ reader \in [Streams -> {"none", "recv", "left"}]
    /\ on \in [Streams -> Streams]
    /\ loops \in [LoopAt -> 0..2] /\ attempts \in 0..MaxAttempts
    /\ state \in {"idle", "inProgress"} /\ reconnectCh \in Channels
    /\ outcome \in [Channels -> {"none", "sent", "taken"}]
    /\ caller \in [Callers -> {"idle", "asked", "waiting"}] /\ waits \in [Callers -> Channels]

\* reconnectState keeps one loop at a time, although the loop announces its
\* outcome before its deferred reset: two loops would replace each other's
\* stream and leave a stream without its reader.
OneLoopPerClient == LoopCount <= 1 /\ (LoopCount = 1 <=> state = "inProgress")

\* A readyCh is closed a second time, which would bring the process down, only
\* after the Ready of a stream that had been replaced: no stream's own Ready
\* is closed for twice, and no failed attempt leaves a closed readyCh to the
\* next, also when several readers share the streams.
ReadyClosedOnce == panicked => late

\* No two readers receive from the same stream (gRPC forbids it, and the
\* transcript's order would be lost), unless a caller once asked for a
\* reconnection while a reader was still reading: from OnError for a Recv
\* that failed the reader is past that, from OnError for an error of the
\* sidecar it is not.
OneReaderPerStream ==
    \A s, t \in Streams :
        s # t /\ reader[s] = "recv" /\ reader[t] = "recv" /\ on[s] = on[t] => hasty

\* A caller of ReconnectSync returns while the client is open, unless another
\* one took the one outcome of the loop it waits for; and once the client is
\* closed every caller returns, the loop ends and every reader has left Recv,
\* to exit or to block in the send on errCh (unless the process died).
ReconnectsSettle ==
    /\ \A c \in Callers :
         caller[c] = "waiting" ~> caller[c] # "waiting" \/ outcome[waits[c]] = "taken" \/ panicked
    /\ cancelled ~> \/ panicked
                    \/ /\ \A s \in Streams : reader[s] \in {"none", "left"}
                       /\ LoopCount = 0
                       /\ \A c \in Callers : caller[c] = "idle"
=============================================================================
