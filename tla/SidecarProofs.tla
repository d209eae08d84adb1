--------------------------- MODULE SidecarProofs ----------------------------
(***************************************************************************)
(* Proofs about STTClient, for any callers, attempts and streams, and about *)
(* AudioAPI, for any requests, buffers and chunks.  The two share no name: *)
(* each is proved from its own specification.                              *)
(***************************************************************************)
EXTENDS STTClient, AudioAPI, FiniteSetTheorems, SequenceTheorems, TLAPS

\* Unless a loop was ever started under a live reader: a reader that receives
\* does so on the current stream, and only while no loop is about to replace it.
Alone ==
    ~hasty => \A s \in Streams : reader[s] = "recv" =>
        /\ s = stream /\ on[s] = stream
        /\ loops["attempt"] = 0 /\ loops["assigned"] = 0 /\ loops["backoff"] = 0

\* Without a late Ready, readyCh is closed by the Ready of the current stream
\* only.
ReadyIsSent ==
    /\ readyClosed \in BOOLEAN /\ late \in BOOLEAN /\ panicked \in BOOLEAN
    /\ readyClosed /\ ~late => stream \in readySent
    /\ panicked => late

Inv == TypeOK /\ OneLoopPerClient /\ Alone

LEMMA InvInit == ASSUME Init PROVE Inv
<1> USE STTAssumption DEF Init, Streams, Channels, LoopAt
<1>1. TypeOK
    BY DEF TypeOK
<1>2. OneLoopPerClient
    BY DEF OneLoopPerClient, LoopCount
<1>3. Alone
    BY DEF Alone
<1> QED
    BY <1>1, <1>2, <1>3 DEF Inv

-----------------------------------------------------------------------------
(* Steps of the loop *)

\* What the one loop's moves do to the counters of its positions.
LEMMA MoveKeepsOne ==
    ASSUME Inv, NEW from \in LoopAt, NEW to \in LoopAt, from # to,
           loops[from] > 0, Move(from, to), state' = state
    PROVE  /\ loops' \in [LoopAt -> 0..2] /\ OneLoopPerClient'
           /\ \A p \in LoopAt : loops'[p] = IF p = to THEN 1 ELSE 0
<1> USE DEF Inv, TypeOK, OneLoopPerClient, LoopCount, LoopAt, Move
<1>1. \A p \in LoopAt : loops[p] \in 0..2
    OBVIOUS
<1>2. \A p \in LoopAt : loops[p] = IF p = from THEN 1 ELSE 0
    BY <1>1
<1>3. \A p \in LoopAt : loops'[p] = IF p = to THEN 1 ELSE 0
    BY <1>2
<1>4. loops' \in [LoopAt -> 0..2]
    BY <1>3
<1> QED
    BY <1>2, <1>3, <1>4

\* Where the loop stands before it replaces the stream, nobody receives.
LEMMA NobodyReceives ==
    ASSUME Inv, NEW p \in {"attempt", "assigned", "backoff"}, loops[p] > 0, ~hasty
    PROVE  \A s \in Streams : reader[s] # "recv"
    BY DEF Inv, TypeOK, Alone, LoopAt

LEMMA LoopInv == ASSUME Inv, LoopStep PROVE Inv'
<1> USE STTAssumption
<1>1. ASSUME NEW p \in {"attempt", "assigned", "backoff"}, loops[p] > 0,
             TypeOK', OneLoopPerClient', hasty' = hasty, \A s \in Streams : reader'[s] = reader[s]
      PROVE  Inv'
    BY <1>1, NobodyReceives DEF Inv, Alone
<1>2. CASE AttemptFails
  <2>1. OneLoopPerClient' /\ loops' \in [LoopAt -> 0..2]
      BY <1>2, MoveKeepsOne DEF AttemptFails, LoopAt
  <2>2. TypeOK'
      BY <1>2, <2>1 DEF AttemptFails, streamVars, callVars, Inv, TypeOK
  <2> QED
      BY <1>1, <1>2, <2>1, <2>2 DEF AttemptFails, streamVars
<1>4. CASE ConnectAndStart
  <2>1. OneLoopPerClient' /\ loops' \in [LoopAt -> 0..2]
      BY <1>4, MoveKeepsOne DEF ConnectAndStart, LoopAt
  <2>2. TypeOK'
      BY <1>4, <2>1 DEF ConnectAndStart, Replace, callVars, Inv, TypeOK, Streams
  <2> QED
      BY <1>1, <1>4, <2>1, <2>2 DEF ConnectAndStart
<1>5. CASE SendConfig
  <2>1. OneLoopPerClient' /\ loops' \in [LoopAt -> 0..2]
        /\ \A p \in LoopAt : loops'[p] = IF p = "leaving" THEN 1 ELSE 0
      BY <1>5, MoveKeepsOne DEF SendConfig, LoopAt
  <2>2. TypeOK'
      BY <1>5, <2>1 DEF SendConfig, NotifyReconnect, callVars, Inv, TypeOK, Streams
  <2>3. ~hasty => \A s \in Streams : reader[s] # "recv"
      BY <1>5, NobodyReceives DEF SendConfig
  <2>4. Alone'
      BY <1>5, <2>1, <2>3 DEF SendConfig, Alone, Inv, TypeOK, LoopAt, Streams
  <2> QED
      BY <2>1, <2>2, <2>4 DEF Inv
<1>6. CASE SendConfigFails
  <2>1. OneLoopPerClient' /\ loops' \in [LoopAt -> 0..2]
      BY <1>6, MoveKeepsOne DEF SendConfigFails, LoopAt
  <2>2. TypeOK'
      BY <1>6, <2>1 DEF SendConfigFails, streamVars, callVars, Inv, TypeOK
  <2> QED
      BY <1>1, <1>6, <2>1, <2>2 DEF SendConfigFails, streamVars
<1>7. CASE Backoff
  <2>1. OneLoopPerClient' /\ loops' \in [LoopAt -> 0..2]
      BY <1>7, MoveKeepsOne DEF Backoff, LoopAt
  <2>2. TypeOK'
      BY <1>7, <2>1 DEF Backoff, streamVars, callVars, Inv, TypeOK
  <2> QED
      BY <1>1, <1>7, <2>1, <2>2 DEF Backoff, streamVars
<1>8. CASE GiveUp
  <2>1. PICK p \in {"backoff", "attempt"} : loops[p] > 0 /\ Move(p, "leaving")
      BY <1>8 DEF GiveUp, LoopEnds
  <2>2. OneLoopPerClient' /\ loops' \in [LoopAt -> 0..2]
      BY <1>8, <2>1, MoveKeepsOne DEF GiveUp, LoopAt
  <2>3. TypeOK'
      BY <1>8, <2>2 DEF GiveUp, NotifyReconnect, streamVars, callVars, Inv, TypeOK
  <2> QED
      BY <1>1, <1>8, <2>1, <2>2, <2>3 DEF GiveUp, streamVars
<1>9. CASE LeaveLoop
  <2>1. \A p \in LoopAt : loops[p] \in 0..2
      BY DEF Inv, TypeOK
  <2>2. \A p \in LoopAt : loops[p] = IF p = "leaving" THEN 1 ELSE 0
      BY <1>9, <2>1 DEF LeaveLoop, Inv, OneLoopPerClient, LoopCount, LoopAt
  <2>3. \A p \in LoopAt : loops'[p] = 0
      BY <1>9, <2>2 DEF LeaveLoop, Inv, TypeOK, LoopAt
  <2>4. loops' \in [LoopAt -> 0..2]
      BY <1>9, <2>3 DEF LeaveLoop, Inv, TypeOK, LoopAt
  <2>5. TypeOK'
      BY <1>9, <2>4 DEF LeaveLoop, streamVars, callVars, Inv, TypeOK
  <2>6. OneLoopPerClient'
      BY <1>9, <2>3 DEF LeaveLoop, OneLoopPerClient, LoopCount, LoopAt
  <2>7. Alone'
      BY <1>9, <2>3 DEF LeaveLoop, streamVars, Inv, Alone, LoopAt
  <2> QED
      BY <2>5, <2>6, <2>7 DEF Inv
<1> QED
    BY <1>2, <1>4, <1>5, <1>6, <1>7, <1>8, <1>9 DEF LoopStep

-----------------------------------------------------------------------------
(* All steps *)

\* Steps that start or move no loop and set no reader to receiving.
LEMMA QuietInv ==
    ASSUME Inv, TypeOK', UNCHANGED <<state, loops, stream, hasty>>,
           \A s \in Streams : ~hasty /\ reader'[s] = "recv" => reader[s] = "recv" /\ on'[s] = stream
    PROVE  Inv'
<1>1. OneLoopPerClient'
    BY DEF Inv, OneLoopPerClient, LoopCount
<1>2. Alone'
    BY DEF Inv, Alone
<1> QED
    BY <1>1, <1>2 DEF Inv

LEMMA InvStep == ASSUME Inv, [Next]_vars PROVE Inv'
<1> USE STTAssumption
<1>1. ASSUME NEW s \in Streams, RecvReady(s) \/ RecvEvent(s) PROVE Inv'
  <2>1. /\ on' = [on EXCEPT ![s] = stream] /\ readySent' \subseteq Streams
        /\ UNCHANGED <<stream, reader, loopVars, callVars, cancelled>>
      BY <1>1 DEF RecvReady, RecvEvent, Inv, TypeOK
  <2>2. TypeOK'
      BY <2>1 DEF loopVars, callVars, Inv, TypeOK
  <2>3. \A t \in Streams : ~hasty /\ reader'[t] = "recv" => reader[t] = "recv" /\ on'[t] = stream
      BY <2>1 DEF Inv, Alone, TypeOK
  <2> QED
      BY <2>1, <2>2, <2>3, QuietInv DEF loopVars
<1>2. ASSUME NEW s \in Streams, RecvFails(s) PROVE Inv'
  <2>1. TypeOK'
      BY <1>2 DEF RecvFails, loopVars, callVars, Inv, TypeOK
  <2>2. \A t \in Streams : ~hasty /\ reader'[t] = "recv" => reader[t] = "recv" /\ on'[t] = stream
      BY <1>2 DEF RecvFails, Inv, Alone, TypeOK
  <2> QED
      BY <1>2, <2>1, <2>2, QuietInv DEF RecvFails, loopVars
<1>3. ASSUME NEW c \in Callers, ReconnectSync(c) PROVE Inv'
  <2>1. /\ caller' \in [Callers -> {"idle", "asked", "waiting"}]
        /\ UNCHANGED <<stream, readySent, reader, on, outcome, waits>>
      BY <1>3 DEF ReconnectSync, streamVars, Inv, TypeOK
  <2>2. CASE UNCHANGED loopVars
    <3>1. TypeOK'
        BY <2>1, <2>2 DEF loopVars, Inv, TypeOK
    <3> QED
        BY <2>1, <2>2, <3>1, QuietInv DEF loopVars, Inv, Alone
  <2>3. CASE state = "idle" /\ reconnectCh < MaxReconnects /\ StartLoop
    <3>1. \A p \in LoopAt : loops[p] \in 0..2
        BY DEF Inv, TypeOK
    <3>2. \A p \in LoopAt : loops[p] = 0
        BY <2>3, <3>1 DEF Inv, OneLoopPerClient, LoopCount, LoopAt
    <3>3. \A p \in LoopAt : loops'[p] = IF p = "attempt" THEN 1 ELSE 0
        BY <2>3, <3>2 DEF StartLoop, Inv, TypeOK, LoopAt
    <3>4. loops' \in [LoopAt -> 0..2]
        BY <2>3, <3>3 DEF StartLoop, Inv, TypeOK, LoopAt
    <3>5. reconnectCh' \in Channels /\ attempts' \in 0..MaxAttempts /\ state' = "inProgress"
        BY <2>3 DEF StartLoop, Channels, Inv, TypeOK
    <3>6. TypeOK'
        BY <2>1, <3>4, <3>5 DEF Inv, TypeOK
    <3>7. OneLoopPerClient'
        BY <3>3, <3>5 DEF OneLoopPerClient, LoopCount, LoopAt
    <3>8. Alone'
        BY <2>1, <2>3 DEF StartLoop, Alone
    <3> QED
        BY <3>6, <3>7, <3>8 DEF Inv
  <2> QED
      BY <1>3, <2>2, <2>3 DEF ReconnectSync, Reconnect
<1>4. ASSUME NEW c \in Callers, CallerStep(c) PROVE Inv'
  <2>1. UNCHANGED <<stream, readySent, reader, on, state, loops, attempts, reconnectCh, hasty>>
      BY <1>4 DEF CallerStep, WaitReconnect, WaitReturns, streamVars, loopVars
  <2>2. /\ outcome' \in [Channels -> {"none", "sent", "taken"}]
        /\ caller' \in [Callers -> {"idle", "asked", "waiting"}]
      BY <1>4 DEF CallerStep, WaitReconnect, WaitReturns, Inv, TypeOK
  <2>3. waits' \in [Callers -> Channels]
    <3>1. reconnectCh \in Channels /\ 0 \in Channels
        BY DEF Inv, TypeOK, Channels
    <3> QED
        BY <1>4, <3>1 DEF CallerStep, WaitReconnect, WaitReturns, Inv, TypeOK
  <2>4. TypeOK'
      BY <2>1, <2>2, <2>3 DEF Inv, TypeOK
  <2> QED
      BY <2>1, <2>4, QuietInv DEF Inv, Alone
<1>5. CASE Close \/ UNCHANGED vars
  <2>1. UNCHANGED <<stream, readySent, reader, on, state, loops, attempts, reconnectCh, hasty,
                    outcome, caller, waits>>
      BY <1>5 DEF Close, vars, streamVars, loopVars, callVars
  <2>2. TypeOK'
      BY <2>1 DEF Inv, TypeOK
  <2> QED
      BY <2>1, <2>2, QuietInv DEF Inv, Alone
<1> QED
    BY <1>1, <1>2, <1>3, <1>4, <1>5, LoopInv DEF Next, ReaderStep

-----------------------------------------------------------------------------
(* Theorems *)

\* The types of the client's state, for any number of streams and callers.
THEOREM TypeCorrect == Spec => []TypeOK
<1>1. Inv => TypeOK
    BY DEF Inv
<1> QED
    BY <1>1, InvInit, InvStep, PTL DEF Spec

\* There is never more than one reconnect loop, and one exactly while
\* reconnectState says so.
THEOREM LoopsAreExclusive == Spec => []OneLoopPerClient
<1>1. Inv => OneLoopPerClient
    BY DEF Inv
<1> QED
    BY <1>1, InvInit, InvStep, PTL DEF Spec

\* No stream is received from by two readers, as long as no caller asked for a
\* reconnection under a live reader: failed attempts, retries and loops that
\* follow each other never start a second reader for a stream.
THEOREM ReadersAreExclusive == Spec => []OneReaderPerStream
<1>1. Inv => OneReaderPerStream
    BY DEF Inv, Alone, OneReaderPerStream
<1> QED
    BY <1>1, InvInit, InvStep, PTL DEF Spec

LEMMA ReadyStep ==
    ASSUME Inv, ReadyIsSent, [Next]_vars PROVE ReadyIsSent'
<1> USE DEF ReadyIsSent
<1>1. ASSUME NEW s \in Streams, RecvReady(s) PROVE ReadyIsSent'
  <2>1. CASE on[s] = stream
    <3>1. ~readyClosed \/ late
        BY <1>1, <2>1 DEF RecvReady
    <3> QED
        BY <1>1, <2>1, <3>1 DEF RecvReady
  <2>2. CASE on[s] # stream
      BY <1>1, <2>2 DEF RecvReady
  <2> QED
      BY <2>1, <2>2
<1>2. CASE ConnectAndStart
    BY <1>2 DEF ConnectAndStart, Replace
<1>3. CASE UNCHANGED <<stream, readyClosed, panicked, late, readySent>>
    BY <1>3
<1> QED
    BY <1>1, <1>2, <1>3 DEF Next, ReaderStep, RecvEvent, RecvFails, ReconnectSync, CallerStep,
        WaitReconnect, WaitReturns, LoopStep, AttemptFails, SendConfig, SendConfigFails,
        Backoff, GiveUp, LeaveLoop, Close, vars, streamVars, readyVars

\* A readyCh is closed twice only after the Ready of a replaced stream, for any
\* number of streams and of readers that share them.
THEOREM ReadyOnce == Spec => []ReadyClosedOnce
<1>1. Init => Inv /\ ReadyIsSent
    BY InvInit DEF Init, ReadyIsSent
<1>2. Inv /\ ReadyIsSent /\ [Next]_vars => (Inv /\ ReadyIsSent)'
    BY InvStep, ReadyStep
<1>3. ReadyIsSent => ReadyClosedOnce
    BY DEF ReadyIsSent, ReadyClosedOnce
<1> QED
    BY <1>1, <1>2, <1>3, PTL DEF Spec

-----------------------------------------------------------------------------
(* AudioAPI: whose chunks an answer holds *)

AudioTyped ==
    /\ pc \in [Speech -> {"idle", "synth", "done"}]
    /\ buf \in [Speech -> Buffers \union {None}]
    /\ receiver \in [Speech -> {"none", "recv", "callback", "write", "closed", "failed"}]
    /\ received \in [Speech -> Nat]
    /\ body \in [Speech -> Seq(Speech)]
    /\ content \in [Buffers -> Seq(Speech)]
    /\ pool \subseteq Buffers
    /\ seen \in [Speech -> Seq(Speech)]
    /\ writers \in [Speech -> SUBSET Speech]

\* A handler in Synthesize has its buffer to itself; a receiver that outlives
\* its handler was left by it.
Private ==
    /\ \A r \in Speech : pc[r] = "synth" => buf[r] \in Buffers /\ buf[r] \notin pool
    /\ \A r, s \in Speech : pc[r] = "synth" /\ pc[s] = "synth" /\ buf[r] = buf[s] => r = s
    /\ \A r \in Speech : receiver[r] \in Receiving =>
         buf[r] \in Buffers /\ (pc[r] = "synth" \/ r \in cutOff)
    /\ \A r \in Speech : pc[r] = "idle" => receiver[r] = "none" /\ received[r] = 0
    /\ \A r \in Speech : writers[r] \subseteq cutOff

\* The chunks are the request's own.
Known(r, chunks) == \A i \in DOMAIN chunks : chunks[i] = r

\* All that was received so far, up to the chunk in the callback's hands.
Whole(r, chunks) ==
    Cardinality(Own(r, chunks)) + (IF receiver[r] \in {"callback", "write"} THEN 1 ELSE 0)
        = received[r]

\* As long as no other receiver has written into the buffer, a Write stores
\* into what it has read.
Collected(r) ==
    pc[r] = "synth" /\ writers[r] = {} =>
        /\ receiver[r] = "write" => seen[r] = content[buf[r]]
        /\ Known(r, content[buf[r]])
        /\ r \notin tooBig => Whole(r, content[buf[r]])

Given(r) ==
    body[r] # <<>> =>
        /\ pc[r] = "done" /\ receiver[r] = "closed"
        /\ writers[r] = {} => Known(r, body[r]) /\ Whole(r, body[r])

AudioInv == AudioTyped /\ Private /\ \A r \in Speech : Collected(r) /\ Given(r)

\* A Reset buffer holds nothing, and appending a chunk adds one to the chunks
\* of its owner and none to the others'.
LEMMA OwnEmpty == ASSUME NEW r PROVE Cardinality(Own(r, <<>>)) = 0
<1>1. Own(r, <<>>) = {}
  BY DEF Own
<1> QED
  BY <1>1, FS_EmptySet

LEMMA OwnAppend ==
  ASSUME NEW r, NEW chunks \in Seq(Speech), NEW o \in Speech
  PROVE  /\ Cardinality(Own(r, chunks)) \in Nat
         /\ Cardinality(Own(r, Append(chunks, o)))
              = Cardinality(Own(r, chunks)) + (IF o = r THEN 1 ELSE 0)
<1>1. Len(chunks) \in Nat /\ DOMAIN chunks = 1..Len(chunks)
  OBVIOUS
<1>2. IsFiniteSet(Own(r, chunks)) /\ Len(chunks) + 1 \notin Own(r, chunks)
  <2>1. IsFiniteSet(1..Len(chunks)) /\ Own(r, chunks) \subseteq 1..Len(chunks)
    BY <1>1, FS_Interval DEF Own
  <2> QED
    BY <1>1, <2>1, FS_Subset
<1>3. Cardinality(Own(r, chunks)) \in Nat
  BY <1>2, FS_CardinalityType
<1>4. /\ DOMAIN Append(chunks, o) = 1..(Len(chunks) + 1)
      /\ \A i \in 1..Len(chunks) : Append(chunks, o)[i] = chunks[i]
      /\ Append(chunks, o)[Len(chunks) + 1] = o
  BY <1>1
<1>5. CASE o = r
  <2>1. Own(r, Append(chunks, o)) = Own(r, chunks) \union {Len(chunks) + 1}
    BY <1>1, <1>4, <1>5 DEF Own
  <2> QED
    BY <1>2, <1>3, <1>5, <2>1, FS_AddElement
<1>6. CASE o # r
  <2>1. Own(r, Append(chunks, o)) = Own(r, chunks)
    BY <1>1, <1>4, <1>6 DEF Own
  <2> QED
    BY <1>3, <1>6, <2>1
<1> QED
  BY <1>5, <1>6

\* The pool hands out no buffer that a running handler holds.
LEMMA FreeBuffer ==
  ASSUME AudioInv, NEW b \in Available
  PROVE  b \in Buffers /\ \A s \in Speech : pc[s] = "synth" => buf[s] # b
BY DEF AudioInv, AudioTyped, Private, Available

\* A request takes a buffer: HandleSpeech goes on with it, a stream that cannot
\* be opened puts it back.
LEMMA AudioTake ==
  ASSUME AudioInv, NEW r \in Speech, HandleSpeech(r) \/ SynthStreamFails(r)
  PROVE  AudioInv'
<1> USE DEF AudioInv, AudioTyped
<1>1. PICK b \in Available :
        /\ TakeBuffer(r, b)
        /\ \/ HandleSpeech(r) /\ pool' = pool \ {b}
           \/ SynthStreamFails(r) /\ pool' = pool \union {b}
  BY DEF HandleSpeech, SynthStreamFails
<1>2. b \in Buffers /\ \A s \in Speech : pc[s] = "synth" => buf[s] # b
  BY FreeBuffer
<1>3. pc[r] = "idle" /\ UNCHANGED <<expired, tooBig, received, cutOff, seen, writers, body>>
  BY DEF HandleSpeech, SynthStreamFails
<1>4. /\ buf' = [buf EXCEPT ![r] = b] /\ content' = [content EXCEPT ![b] = <<>>]
      /\ \/ /\ pc' = [pc EXCEPT ![r] = "synth"]
            /\ receiver' = [receiver EXCEPT ![r] = "recv"] /\ pool' = pool \ {b}
         \/ /\ pc' = [pc EXCEPT ![r] = "done"]
            /\ UNCHANGED receiver /\ pool' = pool \union {b}
  BY <1>1 DEF HandleSpeech, SynthStreamFails, TakeBuffer, Synthesize
<1> HIDE DEF AudioInv
<1>5. AudioTyped' /\ Private'
  <2>1. AudioTyped'
    <3>1. content' \in [Buffers -> Seq(Speech)] /\ pool' \subseteq Buffers
      BY <1>2, <1>4 DEF AudioInv
    <3>2. /\ pc' \in [Speech -> {"idle", "synth", "done"}]
          /\ buf' \in [Speech -> Buffers \union {None}]
          /\ receiver' \in [Speech -> {"none", "recv", "callback", "write", "closed", "failed"}]
      BY <1>2, <1>4 DEF AudioInv
    <3> QED
      BY <1>3, <3>1, <3>2 DEF AudioInv
  <2>2. Private'
    BY <1>2, <1>3, <1>4 DEF AudioInv, Private, Receiving
  <2> QED
    BY <2>1, <2>2
<1>6. ASSUME NEW s \in Speech PROVE Collected(s)' /\ Given(s)'
  <2>1. CASE s = r
    <3>1. body'[s] = <<>>
      BY <1>3, <2>1 DEF AudioInv, Given
    <3>2. content'[buf'[s]] = <<>> /\ received'[s] = 0 /\ receiver'[s] \notin {"callback", "write"}
      BY <1>2, <1>3, <1>4, <2>1 DEF AudioInv, Private
    <3> QED
      BY <3>1, <3>2, OwnEmpty DEF Collected, Given, Known, Whole
  <2>2. CASE s # r
    <3>1. pc'[s] = pc[s] /\ buf'[s] = buf[s] /\ receiver'[s] = receiver[s]
      BY <1>4, <2>2 DEF AudioInv
    <3>2. pc[s] = "synth" => content'[buf[s]] = content[buf[s]]
      BY <1>2, <1>4 DEF AudioInv, Private
    <3> QED
      BY <1>3, <3>1, <3>2 DEF AudioInv, Collected, Given, Known, Whole
  <2> QED
    BY <2>1, <2>2
<1> QED
  BY <1>5, <1>6 DEF AudioInv

\* The callback finds the chunk too large, or Write reads the buffer.
LEMMA AudioCheck ==
  ASSUME AudioInv, NEW r \in Speech, OnAudio(r)
  PROVE  AudioInv'
<1> USE DEF AudioTyped
<1>1. /\ receiver[r] = "callback"
      /\ UNCHANGED <<pc, buf, received, cutOff, writers, body, pool, content>>
      /\ \/ /\ tooBig' = tooBig \union {r} /\ UNCHANGED seen
            /\ receiver' = [receiver EXCEPT ![r] = "recv"]
         \/ /\ receiver' = [receiver EXCEPT ![r] = "write"] /\ UNCHANGED tooBig
            /\ seen' = [seen EXCEPT ![r] = content[buf[r]]]
  BY DEF OnAudio
<1>2. buf[r] \in Buffers /\ content[buf[r]] \in Seq(Speech)
  BY <1>1 DEF AudioInv, Private, Receiving
<1>3. AudioTyped' /\ Private'
  <2>1. seen' \in [Speech -> Seq(Speech)]
    BY <1>1, <1>2 DEF AudioInv
  <2>2. receiver' \in [Speech -> {"none", "recv", "callback", "write", "closed", "failed"}]
    BY <1>1 DEF AudioInv
  <2>3. Private'
    BY <1>1 DEF AudioInv, Private, Receiving
  <2> QED
    BY <1>1, <2>1, <2>2, <2>3 DEF AudioInv
<1>4. ASSUME NEW s \in Speech PROVE Collected(s)' /\ Given(s)'
  <2>1. CASE s = r
    <3>1. body'[s] = <<>>
      BY <1>1, <2>1 DEF AudioInv, Given
    <3>2. \/ s \in tooBig' /\ receiver'[s] = "recv"
          \/ /\ receiver[s] = "callback" /\ receiver'[s] = "write"
             /\ UNCHANGED tooBig /\ seen'[s] = content'[buf'[s]]
      BY <1>1, <2>1 DEF AudioInv
    <3>3. Collected(s)
      BY DEF AudioInv
    <3> HIDE DEF AudioTyped
    <3>4. Collected(s)'
      BY <1>1, <3>2, <3>3 DEF Collected, Known, Whole
    <3> QED
      BY <3>1, <3>4 DEF Given
  <2>2. CASE s # r
    <3>1. /\ receiver'[s] = receiver[s] /\ seen'[s] = seen[s]
          /\ s \in tooBig' <=> s \in tooBig
      BY <1>1, <2>2 DEF AudioInv
    <3>2. Collected(s) /\ Given(s)
      BY DEF AudioInv
    <3> HIDE DEF AudioTyped
    <3> QED
      BY <1>1, <3>1, <3>2 DEF Collected, Given, Known, Whole
  <2> QED
    BY <2>1, <2>2
<1> QED
  BY <1>3, <1>4 DEF AudioInv

\* Whatever a race leaves, it is a sequence of chunks.
LEMMA RacedType ==
  ASSUME NEW now \in Seq(Speech), NEW old \in Seq(Speech), NEW r \in Speech,
         NEW new \in Raced(now, old, r)
  PROVE  new \in Seq(Speech)
<1>1. Len(now) \in Nat /\ Len(old) \in Nat
  OBVIOUS
<1>2. CASE Len(now) >= Len(old)
  <2>1. PICK kept : kept = SubSeq(now, 1, Len(old))
    OBVIOUS
  <2>2. kept \in Seq(Speech)
    BY <1>1, <1>2, <2>1, SubSeqProperties
  <2> QED
    <3>1. new = Append(old, r) \/ new = Append(kept, r)
      BY <1>2, <2>1 DEF Raced
    <3>2. Append(old, r) \in Seq(Speech) /\ Append(kept, r) \in Seq(Speech)
      BY <2>2
    <3> QED
      BY <3>1, <3>2
<1>3. CASE ~(Len(now) >= Len(old))
  <2>1. PICK rest : rest = SubSeq(old, Len(now) + 1, Len(old))
    OBVIOUS
  <2>2. rest \in Seq(Speech)
    BY <1>1, <1>3, <2>1, SubSeqProperties
  <2>3. PICK kept : kept = now \o rest
    OBVIOUS
  <2>4. kept \in Seq(Speech)
    BY <2>2, <2>3, ConcatProperties
  <2> QED
    <3>1. new = Append(old, r) \/ new = Append(kept, r)
      BY <1>3, <2>1, <2>3 DEF Raced
    <3>2. Append(old, r) \in Seq(Speech) /\ Append(kept, r) \in Seq(Speech)
      BY <2>4
    <3> QED
      BY <3>1, <3>2
<1> QED
  BY <1>2, <1>3

\* Write stores the chunk into the buffer its closure has captured.
LEMMA AudioWrite ==
  ASSUME AudioInv, NEW r \in Speech, Write(r)
  PROVE  AudioInv'
<1> USE DEF AudioTyped
<1>1. /\ receiver[r] = "write" /\ receiver' = [receiver EXCEPT ![r] = "recv"]
      /\ seen' = [seen EXCEPT ![r] = <<>>]
      /\ writers' = [q \in Speech |-> IF q # r /\ pc[q] = "synth" /\ buf[q] = buf[r]
                                      THEN writers[q] \union {r} ELSE writers[q]]
      /\ UNCHANGED <<pc, buf, tooBig, received, cutOff, body, pool>>
  BY DEF Write
<1>2. buf[r] \in Buffers /\ (pc[r] = "synth" \/ r \in cutOff) /\ content[buf[r]] \in Seq(Speech)
  BY <1>1 DEF AudioInv, Private, Receiving
<1>3. PICK new : /\ content' = [content EXCEPT ![buf[r]] = new]
                 /\ \/ seen[r] = content[buf[r]] /\ new = Append(content[buf[r]], r)
                    \/ seen[r] # content[buf[r]] /\ new \in Raced(content[buf[r]], seen[r], r)
  BY DEF Write
<1>4. new \in Seq(Speech)
  <2>1. seen[r] \in Seq(Speech)
    BY DEF AudioInv
  <2>2. CASE new = Append(content[buf[r]], r)
    BY <1>2, <2>2
  <2> QED
    BY <1>2, <1>3, <2>1, <2>2, RacedType
<1>5. AudioTyped' /\ Private'
  <2>1. content' \in [Buffers -> Seq(Speech)]
    BY <1>2, <1>3, <1>4 DEF AudioInv
  <2>2. receiver' \in [Speech -> {"none", "recv", "callback", "write", "closed", "failed"}]
    BY <1>1 DEF AudioInv
  <2>3. seen' \in [Speech -> Seq(Speech)]
    BY <1>1 DEF AudioInv
  <2>4. writers' \in [Speech -> SUBSET Speech]
    BY <1>1 DEF AudioInv
  <2>5. Private'
    <3>1. \A s \in Speech : writers'[s] \subseteq cutOff
      BY <1>1, <1>2 DEF AudioInv, Private
    <3> QED
      BY <1>1, <3>1 DEF AudioInv, Private, Receiving
  <2> QED
    BY <1>1, <2>1, <2>2, <2>3, <2>4, <2>5 DEF AudioInv
<1>6. ASSUME NEW s \in Speech PROVE Given(s)'
  <2>1. body[s] # <<>> => writers'[s] = writers[s] /\ receiver'[s] = receiver[s]
    BY <1>1 DEF AudioInv, Given
  <2> QED
    BY <1>1, <2>1 DEF AudioInv, Given, Known, Whole
<1>7. ASSUME NEW s \in Speech, pc[s] = "synth", writers'[s] = {} PROVE Collected(s)'
  <2>0. PICK old \in Seq(Speech) : old = content[buf[s]]
    BY <1>7 DEF AudioInv, Private
  <2>1. /\ Known(s, old) /\ (s \notin tooBig => Whole(s, old)) /\ writers[s] = {}
        /\ buf'[s] = buf[s] /\ received'[s] = received[s] /\ received[s] \in Nat
        /\ (s # r => receiver'[s] = receiver[s] /\ seen'[s] = seen[s])
        /\ receiver'[r] = "recv"
    <3>1. writers[s] = {}
      BY <1>1, <1>7 DEF AudioInv
    <3> QED
      BY <1>1, <1>7, <2>0, <3>1 DEF AudioInv, Collected
  <2>2. Cardinality(Own(s, old)) \in Nat
    BY <2>0, OwnAppend
  <2>3. CASE s # r
    <3>1. content'[buf[s]] = old
      BY <1>1, <1>3, <1>7, <2>0, <2>3 DEF AudioInv, Private
    <3> QED
      BY <1>1, <1>7, <2>0, <2>1, <2>3, <3>1 DEF AudioInv, Collected, Known, Whole
  <2>4. CASE s = r
    <3>1. seen[r] = old /\ content'[buf'[s]] = new /\ new = Append(old, r)
      BY <1>1, <1>2, <1>3, <1>7, <2>0, <2>1, <2>4 DEF AudioInv, Collected
    <3>2. Cardinality(Own(s, new)) = Cardinality(Own(s, old)) + 1
      BY <2>0, <2>4, <3>1, OwnAppend
    <3>3. \A i \in DOMAIN new : new[i] = s
      BY <2>0, <2>1, <2>4, <3>1 DEF Known
    <3>4. s \notin tooBig => Cardinality(Own(s, new)) + 0 = received[s]
      BY <1>1, <2>1, <2>2, <2>4, <3>2 DEF Whole
    <3>5. Known(s, content[buf[s]])'
      BY <3>1, <3>3 DEF Known
    <3>6. s \notin tooBig' => Whole(s, content[buf[s]])'
      BY <1>1, <2>1, <2>4, <3>1, <3>4 DEF Whole
    <3> QED
      BY <2>1, <2>4, <3>5, <3>6 DEF Collected
  <2> QED
    BY <2>3, <2>4
<1>8. ASSUME NEW s \in Speech PROVE Collected(s)'
  BY <1>1, <1>7 DEF Collected
<1> QED
  BY <1>5, <1>6, <1>8 DEF AudioInv

\* The receiver takes a message, or ends.
LEMMA AudioReceive ==
  ASSUME AudioInv, NEW r \in Speech,
         RecvAudio(r) \/ OnDone(r) \/ OnSidecarError(r) \/ SynthRecvFails(r)
  PROVE  AudioInv'
<1> USE DEF AudioTyped
<1>1. UNCHANGED <<pc, buf, tooBig, cutOff, seen, writers, body, pool, content>> /\ receiver[r] = "recv"
  BY DEF RecvAudio, OnDone, OnSidecarError, SynthRecvFails
<1>2. \/ /\ receiver' = [receiver EXCEPT ![r] = "callback"]
         /\ received' = [received EXCEPT ![r] = @ + 1]
      \/ /\ \E end \in {"closed", "failed"} : receiver' = [receiver EXCEPT ![r] = end]
         /\ UNCHANGED received
  BY DEF RecvAudio, OnDone, OnSidecarError, SynthRecvFails
<1>3. AudioTyped' /\ Private'
  <2>1. receiver' \in [Speech -> {"none", "recv", "callback", "write", "closed", "failed"}]
    BY <1>2 DEF AudioInv
  <2>2. received' \in [Speech -> Nat]
    <3>1. received \in [Speech -> Nat] /\ received[r] + 1 \in Nat
      BY DEF AudioInv
    <3> QED
      BY <1>2, <3>1
  <2>3. Private'
    BY <1>1, <1>2 DEF AudioInv, Private, Receiving
  <2> QED
    BY <1>1, <2>1, <2>2, <2>3 DEF AudioInv
<1>4. ASSUME NEW s \in Speech PROVE Collected(s)' /\ Given(s)'
  <2>1. CASE s = r
    <3>1. body[r] = <<>> /\ body'[r] = <<>>
      BY <1>1 DEF AudioInv, Given
    <3>2. ASSUME pc[r] = "synth", writers[r] = {} PROVE Collected(r)'
      <4>1. PICK chunks \in Seq(Speech) : chunks = content[buf[r]] /\ chunks = content'[buf'[r]]
        BY <1>1, <3>2 DEF AudioInv, Private
      <4>2. Cardinality(Own(r, chunks)) \in Nat /\ received[r] \in Nat
        BY <2>1, <4>1, OwnAppend DEF AudioInv
      <4>3. Known(r, chunks)
        BY <3>2, <4>1 DEF AudioInv, Collected
      <4>4. r \notin tooBig =>
              Cardinality(Own(r, chunks)) + (IF receiver'[r] \in {"callback", "write"} THEN 1 ELSE 0)
                = received'[r]
        <5>1. r \notin tooBig => Cardinality(Own(r, chunks)) + 0 = received[r]
          BY <1>1, <3>2, <4>1 DEF AudioInv, Collected, Whole
        <5> QED
          BY <1>2, <4>2, <5>1 DEF AudioInv
      <4> QED
        BY <1>1, <1>2, <4>1, <4>3, <4>4 DEF AudioInv, Collected, Known, Whole
    <3> QED
      BY <1>1, <2>1, <3>1, <3>2 DEF Collected, Given
  <2>2. CASE s # r
    <3>1. receiver'[s] = receiver[s] /\ received'[s] = received[s]
      BY <1>2, <2>2 DEF AudioInv
    <3> QED
      BY <1>1, <3>1 DEF AudioInv, Collected, Given, Known, Whole
  <2> QED
    BY <2>1, <2>2
<1> QED
  BY <1>3, <1>4 DEF AudioInv

\* Synthesize returns: the answer is the buffer's content only when the
\* receiver has ended by itself, and the buffer goes back to the pool.
LEMMA AudioReturn ==
  ASSUME AudioInv, NEW r \in Speech, SynthesizeReturns(r)
  PROVE  AudioInv'
<1> USE DEF AudioTyped
<1>1. PICK result \in SynthesizeResults(r) : body' = [body EXCEPT ![r] = Answer(r, result)]
  BY DEF SynthesizeReturns
<1>2. /\ pc[r] = "synth" /\ pc' = [pc EXCEPT ![r] = "done"]
      /\ pool' = pool \union {buf[r]} /\ buf[r] \in Buffers
      /\ cutOff' = IF receiver[r] \in Receiving THEN cutOff \union {r} ELSE cutOff
      /\ UNCHANGED <<buf, receiver, tooBig, received, seen, writers, content>>
  BY DEF SynthesizeReturns, AudioInv, Private
<1>3. Answer(r, result) # <<>> =>
        Answer(r, result) = content[buf[r]] /\ r \notin tooBig /\ receiver[r] = "closed"
  BY DEF Answer, SynthesizeResults
<1>4. AudioTyped' /\ Private'
  <2>1. Answer(r, result) \in Seq(Speech)
    BY <1>2 DEF Answer, AudioInv
  <2>2. AudioTyped'
    BY <1>1, <1>2, <2>1 DEF AudioInv
  <2>3. Private'
    BY <1>2 DEF AudioInv, Private, Receiving
  <2> QED
    BY <2>2, <2>3
<1>5. ASSUME NEW s \in Speech PROVE Collected(s)' /\ Given(s)'
  <2>1. CASE s = r
    <3>1. pc'[r] = "done" /\ body'[r] = Answer(r, result)
      BY <1>1, <1>2 DEF AudioInv
    <3>2. Collected(r)
      BY DEF AudioInv
    <3> QED
      BY <1>2, <1>3, <2>1, <3>1, <3>2 DEF Collected, Given, Known, Whole
  <2>2. CASE s # r
    <3>1. pc'[s] = pc[s] /\ body'[s] = body[s]
      BY <1>1, <1>2, <2>2 DEF AudioInv
    <3> QED
      BY <1>2, <3>1 DEF AudioInv, Collected, Given, Known, Whole
  <2> QED
    BY <2>1, <2>2
<1> QED
  BY <1>4, <1>5 DEF AudioInv

LEMMA AudioStep == AudioInv /\ [AudioNext]_audioVars => AudioInv'
<1> SUFFICES ASSUME AudioInv, [AudioNext]_audioVars PROVE AudioInv'
  OBVIOUS
<1>1. CASE UNCHANGED <<pc, buf, receiver, tooBig, received, cutOff, seen, writers, body, pool, content>>
  BY <1>1 DEF AudioInv, AudioTyped, Private, Collected, Given, Known, Whole
<1>2. ASSUME NEW r \in Speech, SpeechStep(r) PROVE AudioInv'
  <2>1. CASE RejectSpeech(r)
    <3>1. /\ pc[r] = "idle" /\ pc' = [pc EXCEPT ![r] = "done"]
          /\ UNCHANGED <<buf, receiver, tooBig, received, cutOff, seen, writers, body, pool, content>>
      BY <2>1 DEF RejectSpeech
    <3> QED
      BY <3>1 DEF AudioInv, AudioTyped, Private, Collected, Given, Known, Whole
  <2>2. CASE ContextEnds(r)
    BY <1>1, <2>2 DEF ContextEnds
  <2> QED
    BY <1>2, <2>1, <2>2, AudioTake, AudioCheck, AudioWrite, AudioReceive, AudioReturn DEF SpeechStep
<1>3. ASSUME NEW t \in Batch, BatchStep(t) PROVE AudioInv'
  BY <1>1, <1>3 DEF BatchStep, RefuseBatch, BatchTranscribe, OnTranscript, BatchEnds, speechVars
<1>4. ASSUME NEW v \in Voices, HandleCreateVoice(v) \/ HandleDeleteVoice(v) PROVE AudioInv'
  BY <1>1, <1>4 DEF HandleCreateVoice, HandleDeleteVoice, speechVars
<1>5. CASE HandleListVoices \/ HandleListModels
  BY <1>1, <1>5 DEF HandleListVoices, HandleListModels, speechVars
<1>6. CASE UNCHANGED audioVars
  BY <1>1, <1>6 DEF audioVars, speechVars
<1> QED
  BY <1>2, <1>3, <1>4, <1>5, <1>6 DEF AudioNext

LEMMA AudioAlways == AudioSpec => []AudioInv
<1>1. AudioInit => AudioInv
  BY DEF AudioInit, AudioInv, AudioTyped, Private, Receiving, Collected, Given
<1> QED
  BY <1>1, AudioStep, PTL DEF AudioSpec

\* A speech answer has every chunk its stream delivered, unless a receiver
\* that outlived its handler wrote into the pooled buffer it was collected in:
\* requests that end by themselves, and the room of the buffer, cost no chunk,
\* for any number of requests, buffers and chunks.
THEOREM AnswersAreWhole == AudioSpec => []OwnAudioWhole
<1>1. AudioInv => OwnAudioWhole
  <2> SUFFICES ASSUME AudioInv, NEW r \in Speech, Answered(r), ~Disturbed(r)
               PROVE  Cardinality(Own(r, body[r])) = received[r]
    BY DEF OwnAudioWhole
  <2>1. writers[r] = {}
    BY DEF AudioInv, Private, Disturbed
  <2>2. receiver[r] = "closed" /\ Whole(r, body[r]) /\ body[r] \in Seq(Speech)
    BY <2>1 DEF AudioInv, AudioTyped, Given, Answered
  <2>3. Cardinality(Own(r, body[r])) \in Nat
    BY <2>2, OwnAppend
  <2> QED
    BY <2>2, <2>3 DEF Whole
<1> QED
  BY <1>1, AudioAlways, PTL

\* It has another request's chunk only after such a Write: the one by a
\* receiver whose handler had left and put the buffer back.
THEOREM ForeignAudioHasACause == AudioSpec => []ForeignAudioOnlyFromCutOff
<1>1. AudioInv => ForeignAudioOnlyFromCutOff
  <2> SUFFICES ASSUME AudioInv, NEW r \in Speech, Answered(r), ~Disturbed(r)
               PROVE  Known(r, body[r])
    BY DEF ForeignAudioOnlyFromCutOff, Known
  <2>1. writers[r] = {}
    BY DEF AudioInv, Private, Disturbed
  <2> QED
    BY <2>1 DEF AudioInv, Given, Answered
<1> QED
  BY <1>1, AudioAlways, PTL

=============================================================================
