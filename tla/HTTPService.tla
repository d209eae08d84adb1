---------------------------- MODULE HTTPService ----------------------------
(***************************************************************************)
(* Requests in the HTTP server: the counters of the metrics middleware,    *)
(* the readiness probe, which asks five dependencies at once and waits for *)
(* all of them, and the rate limiter in front of the events that agents    *)
(* post, whose limiters are made on demand and thrown away periodically.   *)
(*                                                                         *)
(* The dependencies are external: each is up or down, and the synthesis    *)
(* sidecar may also be connected and refuse to list its voices.  A probe   *)
(* whose client leaves before the answer is not followed.                  *)
(***************************************************************************)
EXTENDS Integers, FiniteSets

CONSTANTS Requests,     \* requests that may run at once
          Burst,        \* RateLimiterConfig.Burst
          MaxArrivals,  \* bound: requests in all
          MaxProbes,    \* bound: probes; they share nothing with each other
          MaxChanges,   \* bound: changes of a dependency
          MaxTicks,     \* bound: ticks of the clean-up loop
          MaxRefills,   \* bound: tokens that time gives back
          None

\* What a check reports of its component.
Status == {"healthy", "degraded", "unhealthy"}

\* The limiters there can be: a request makes at most one.
Limiters == 1 .. MaxArrivals

ASSUME ServiceAssumption ==
    /\ Burst \in Nat /\ MaxArrivals \in Nat /\ MaxProbes \in Nat
    /\ MaxChanges \in Nat /\ MaxTicks \in Nat /\ MaxRefills \in Nat
    /\ IsFiniteSet(Requests)
    /\ None \notin Status /\ None \notin {200, 503} \union Limiters

Components == {"database", "redis", "qdrant", "stt", "tts"}
Critical == {"database", "redis"}

VARIABLES at,          \* [Requests -> where the request stands]
          total,       \* Handler.totalRequests
          active,      \* Handler.activeConnections
          dependency,  \* [Components -> {"up", "half", "down"}]
          changes,     \* bound: changes so far
          probes,      \* bound: probes so far
          components,  \* [Requests -> results so far, None where there is none]
          answer,      \* [Requests -> status of the probe's answer]
          wasUp,       \* history: [Requests -> critical components up since it began]
          wasDown,     \* history: [Requests -> critical components down since it began]
          limiters,    \* rateLimiterStore.limiters: the limiter of the one agent
          made,        \* limiters made so far
          tokens,      \* [Limiters -> tokens left]
          held,        \* [Requests -> the limiter getLimiter has returned]
          ticks,       \* clean-ups so far
          refills,     \* tokens given back so far
          admitted     \* history: events let through

probeVars == <<dependency, changes, probes, components, answer, wasUp, wasDown>>
limitVars == <<limiters, made, tokens, held, ticks, refills, admitted>>
httpVars == <<at, total, active, probeVars, limitVars>>

NoResults == [c \in Components |-> None]

HTTPInit ==
    /\ at = [r \in Requests |-> "idle"] /\ total = 0 /\ active = 0
    /\ dependency = [c \in Components |-> "up"] /\ changes = 0 /\ probes = 0
    /\ components = [r \in Requests |-> NoResults]
    /\ answer = [r \in Requests |-> None]
    /\ wasUp = [r \in Requests |-> {}] /\ wasDown = [r \in Requests |-> {}]
    /\ limiters = None /\ made = 0 /\ tokens = [l \in Limiters |-> Burst]
    /\ held = [r \in Requests |-> None] /\ ticks = 0 /\ refills = 0 /\ admitted = 0

-----------------------------------------------------------------------------
(* The metrics middleware.                                                   *)

Down == {c \in Critical : dependency[c] = "down"}

\* Every request is counted, and then dispatched.
MetricsMiddleware(r, first) ==
    /\ at[r] = "idle" /\ total < MaxArrivals
    /\ total' = total + 1 /\ active' = active + 1
    /\ at' = [at EXCEPT ![r] = first]

\* The deferred DecrementConnections, once the handler has returned.
DecrementConnections(r) ==
    /\ at[r] = "done"
    /\ active' = active - 1
    /\ at' = [at EXCEPT ![r] = "idle"]
    /\ answer' = [answer EXCEPT ![r] = None]
    /\ components' = [components EXCEPT ![r] = NoResults]
    /\ wasUp' = [wasUp EXCEPT ![r] = {}] /\ wasDown' = [wasDown EXCEPT ![r] = {}]
    /\ held' = [held EXCEPT ![r] = None]
    /\ UNCHANGED <<total, dependency, changes, probes, limiters, made, tokens, ticks, refills, admitted>>

-----------------------------------------------------------------------------
(* The readiness probe.                                                      *)

\* Readiness starts its five goroutines.
Readiness(r) ==
    /\ MetricsMiddleware(r, "checks")
    /\ probes < MaxProbes /\ probes' = probes + 1
    /\ wasUp' = [wasUp EXCEPT ![r] = Critical \ Down]
    /\ wasDown' = [wasDown EXCEPT ![r] = Down]
    /\ UNCHANGED <<dependency, changes, components, answer, limitVars>>

\* No bound on open connections is configured, so that a database which
\* answers is never degraded.
EvaluateDBStats == "healthy"

CheckDatabase == {IF dependency["database"] = "up" THEN EvaluateDBStats ELSE "unhealthy"}
CheckRedis == {IF dependency["redis"] = "up" THEN "healthy" ELSE "unhealthy"}
CheckQdrant == {IF dependency["qdrant"] = "up" THEN "healthy" ELSE "unhealthy"}

\* checkSTT reads the state of a connection it has just begun to open: whether
\* that is still idle says nothing of the sidecar.
CheckSTT == {"healthy", "unhealthy"}

\* The synthesis sidecar is not connected, or does not list its voices.
CheckTTS ==
    {CASE dependency["tts"] = "up" -> "healthy"
       [] dependency["tts"] = "half" -> "degraded"
       [] dependency["tts"] = "down" -> "unhealthy"}

Check(c) ==
    CASE c = "database" -> CheckDatabase
      [] c = "redis" -> CheckRedis
      [] c = "qdrant" -> CheckQdrant
      [] c = "stt" -> CheckSTT
      [] c = "tts" -> CheckTTS

\* A goroutine stores its result under the lock and is done.
CheckDone(r, c) ==
    /\ at[r] = "checks" /\ components[r][c] = None
    /\ \E status \in Check(c) : components' = [components EXCEPT ![r][c] = status]
    /\ UNCHANGED <<at, total, active, dependency, changes, probes, answer, wasUp, wasDown, limitVars>>

\* Mutant: the answer is computed as soon as one result is there.
WaitForOne(r) == \E c \in Components : components[r][c] # None

\* wg.Wait returns.
Waited(r) == \A c \in Components : components[r][c] # None

\* computeOverallStatus: only the database and Redis make it unhealthy.
ComputeOverallStatus(results) ==
    IF \E c \in Critical : results[c] = "unhealthy" THEN "unhealthy"
    ELSE IF \E c \in Components : results[c] \in {"unhealthy", "degraded"} THEN "degraded"
    ELSE "healthy"

\* The answer, with 503 for unhealthy only.
Respond(r) ==
    /\ at[r] = "checks" /\ Waited(r)
    /\ at' = [at EXCEPT ![r] = "done"]
    /\ answer' = [answer EXCEPT ![r] =
                    IF ComputeOverallStatus(components[r]) = "unhealthy" THEN 503 ELSE 200]
    /\ UNCHANGED <<total, active, dependency, changes, probes, components, wasUp, wasDown,
                   limitVars>>

\* A dependency fails or recovers while probes are on their way.
DependencyChanges(c, state) ==
    /\ changes < MaxChanges /\ dependency[c] # state
    /\ state = "half" => c = "tts"
    /\ changes' = changes + 1
    /\ dependency' = [dependency EXCEPT ![c] = state]
    /\ wasUp' = [r \in Requests |->
         IF at[r] = "checks" /\ state = "up" /\ c \in Critical THEN wasUp[r] \cup {c} ELSE wasUp[r]]
    /\ wasDown' = [r \in Requests |->
         IF at[r] = "checks" /\ state = "down" /\ c \in Critical
         THEN wasDown[r] \cup {c} ELSE wasDown[r]]
    /\ UNCHANGED <<at, total, active, probes, components, answer, limitVars>>

-----------------------------------------------------------------------------
(* The rate limiter of posted events.                                        *)

\* RateLimiter begins: getLimiter will look the limiter up.
RateLimiter(r) ==
    /\ MetricsMiddleware(r, "lookup")
    /\ UNCHANGED <<probeVars, limitVars>>

\* getLimiter under the read lock.
GetLimiter(r) ==
    /\ at[r] = "lookup"
    /\ at' = [at EXCEPT ![r] = IF limiters = None THEN "create" ELSE "allow"]
    /\ held' = [held EXCEPT ![r] = limiters]
    /\ UNCHANGED <<total, active, probeVars, limiters, made, tokens, ticks, refills, admitted>>

\* Mutant: the limiter is made without a second look.
MissingUnchecked == TRUE

\* The second look of getLimiter, under the write lock.
StillMissing == limiters = None

\* getLimiter under the write lock: another request may have made it.
MakeLimiter(r) ==
    /\ at[r] = "create"
    /\ at' = [at EXCEPT ![r] = "allow"]
    /\ made' = IF StillMissing THEN made + 1 ELSE made
    /\ limiters' = IF StillMissing THEN made + 1 ELSE limiters
    /\ held' = [held EXCEPT ![r] = limiters']
    /\ UNCHANGED <<total, active, probeVars, tokens, ticks, refills, admitted>>

\* Allow takes a token and the event is handled, or the answer is 429.
Allow(r) ==
    LET l == held[r] IN
    /\ at[r] = "allow"
    /\ at' = [at EXCEPT ![r] = "done"]
    /\ IF tokens[l] > 0
       THEN tokens' = [tokens EXCEPT ![l] = @ - 1] /\ admitted' = admitted + 1
       ELSE UNCHANGED <<tokens, admitted>>
    /\ UNCHANGED <<total, active, probeVars, limiters, made, held, ticks, refills>>

\* Time gives a token back, to the limiter in the table or one still held.
Refill(l) ==
    /\ l <= made /\ tokens[l] < Burst /\ refills < MaxRefills
    /\ tokens' = [tokens EXCEPT ![l] = @ + 1]
    /\ refills' = refills + 1
    /\ UNCHANGED <<at, total, active, probeVars, limiters, made, held, ticks, admitted>>

\* cleanupLoop forgets all limiters, used up or not.
CleanupLoop ==
    /\ ticks < MaxTicks
    /\ ticks' = ticks + 1
    /\ limiters' = None
    /\ UNCHANGED <<at, total, active, probeVars, made, tokens, held, refills, admitted>>

-----------------------------------------------------------------------------

RequestStep(r) ==
    \/ Readiness(r) \/ Respond(r) \/ (\E c \in Components : CheckDone(r, c))
    \/ RateLimiter(r) \/ GetLimiter(r) \/ MakeLimiter(r) \/ Allow(r)
    \/ DecrementConnections(r)

HTTPNext ==
    \/ \E r \in Requests : RequestStep(r)
    \/ \E c \in Components, state \in {"up", "half", "down"} : DependencyChanges(c, state)
    \/ \E l \in Limiters : Refill(l)
    \/ CleanupLoop

HTTPSpec == HTTPInit /\ [][HTTPNext]_httpVars

-----------------------------------------------------------------------------
(* Properties.                                                               *)

\* The probe tells the truth about the time it took: 503 means that the
\* database or Redis was down at some moment of the request, and a critical
\* component that was down all the while is never answered with 200, in
\* whatever order the five goroutines finish and whatever changes meanwhile.
ProbeIsTruthful ==
    \A r \in Requests :
        /\ answer[r] = 503 => wasDown[r] # {}
        /\ answer[r] = 200 => Critical \subseteq wasUp[r]

\* An agent's events stay within the budget of its limiter: a burst for each
\* period between two clean-ups, and what time gives back.  Two first events
\* at once must not get a limiter each.
WithinBudget == admitted <= Burst * (1 + ticks) + refills
=============================================================================
