---------------------------- MODULE Marketplace ----------------------------
(***************************************************************************)
(* The agent store: the tables of agents, installations and reviews, the   *)
(* vector index, and the HTTP handlers of developers, installers and       *)
(* reviewers that work on them.  No handler opens a transaction, so every  *)
(* database statement is a step of its own and requests interleave between *)
(* statements; a request whose client goes away stops between two of them. *)
(* A request that is refused (401, 403, 404, 409, 400) changes nothing and *)
(* has no step.  PostgreSQL, gorm and Qdrant are external: a statement is  *)
(* atomic, Save writes every column of the row it is given and inserts the *)
(* row when there is none.                                                 *)
(***************************************************************************)
EXTENDS Naturals, FiniteSets

CONSTANTS Users, Developers,  \* requireDeveloper succeeds for Developers
          Agents, Reqs,       \* agent ids, requests that may run at once
          NoRow, MaxRequests, \* bound on the requests that are accepted
          EchoAgent,          \* the fixed id of the seed command's agent
          ReviewsRouted       \* whether the route of CreateReview authenticates its
                              \* caller: RegisterRoutes leaves /store out, and then
                              \* every review is refused

\* The columns of an agent's row the handlers tell apart.  avg_rating and
\* total_reviews are functions of the set of reviewers they were computed from.
Row == [owner: Developers, public: BOOLEAN, total: Nat, active: Nat, rated: SUBSET Users]

ASSUME MarketAssumption ==
    /\ IsFiniteSet(Users) /\ IsFiniteSet(Reqs)
    /\ Developers \subseteq Users /\ EchoAgent \in Agents
    /\ NoRow \notin Users \union Agents \union Row
    /\ MaxRequests \in Nat /\ ReviewsRouted \in BOOLEAN

VARIABLES
    agents,    \* table agents
    installs,  \* table agent_installs, unique on (user, agent)
    scopes,    \* installations whose granted_scopes include vision
    reviews,   \* table agent_reviews, unique on the user alone
    replied,   \* reviews with a developer_reply
    vectors,   \* points of the Qdrant collection
    jobs,      \* embedding goroutines that have not run: <<kind, agent>>
    accepted,  \* requests begun, up to the bound
    req,       \* what each request is doing, with the row or set it has read
    created,   \* agents ever created, and ...
    everInstalled, \* ... pairs ever installed, with ...
    installed, \* ... how often each agent was (history)
    drifted,   \* agents a counter update of which was lost or left out (history)
    seeded,    \* pairs the seed command installed (history)
    deleted,   \* agents whose deletion was acknowledged (history)
    published  \* agents whose publication was acknowledged (history)

tables  == <<agents, installs, scopes, reviews, replied>>
index   == <<vectors, jobs>>
history == <<created, everInstalled, installed, drifted, seeded, deleted, published>>
vars    == <<tables, index, accepted, req, history>>

Idle == [op |-> "idle"]
Busy(r) == req[r].op # "idle"
Exists(a) == agents[a] # NoRow
IsPublic(a) == Exists(a) /\ agents[a].public
Installers(a) == {u \in Users : <<u, a>> \in installs}
Reviewers(a)  == {u \in Users : reviews[u] = a}

Step(r, op) == req' = [req EXCEPT ![r].op = op]
Finish(r)   == req' = [req EXCEPT ![r] = Idle]
Count == accepted < MaxRequests /\ accepted' = accepted + 1
Begin(r, op, u, a, row) ==
    /\ ~Busy(r) /\ Count
    /\ req' = [req EXCEPT ![r] = [op |-> op, user |-> u, agent |-> a, row |-> row]]

-----------------------------------------------------------------------------
(* The developer's handlers *)

RequireDeveloper(u) == u \in Developers

\* The row that Create inserts: not public, with all counters at 0.
NewAgent(u) == [owner |-> u, public |-> FALSE, total |-> 0, active |-> 0, rated |-> {}]

\* Handler.Create; ids are never drawn twice, nor the one of the seed command.
Create(u, a) ==
    /\ RequireDeveloper(u) /\ a \notin created /\ a # EchoAgent
    /\ agents' = [agents EXCEPT ![a] = NewAgent(u)]
    /\ created' = created \union {a}
    /\ jobs' = jobs \union {<<"upsert", a>>}
    /\ UNCHANGED <<accepted, installs, scopes, reviews, replied, vectors, req, everInstalled,
                   installed, drifted, deleted, published, seeded>>

\* The four handlers below first read the row and compare its owner.
ReadOwned(r, u, a, op) ==
    /\ RequireDeveloper(u) /\ Exists(a) /\ agents[a].owner = u
    /\ Begin(r, op, u, a, agents[a])
    /\ UNCHANGED <<tables, index, history>>

BeginUpdate(r, u, a)  == ReadOwned(r, u, a, "update")
BeginPublish(r, u, a) == ReadOwned(r, u, a, "publish")
BeginDelete(r, u, a)  == ReadOwned(r, u, a, "delete")
BeginReply(r, u, a)   == ReadOwned(r, u, a, "reply")

\* Store.Update saves a whole row: what another request has written since the
\* row was read is lost.
SaveRow(a, new) ==
    /\ agents' = [agents EXCEPT ![a] = new]
    /\ drifted' = IF ~Exists(a) \/ agents[a].active # new.active \/ agents[a].total # new.total
                  THEN drifted \union {a} ELSE drifted
    /\ UNCHANGED <<accepted, installs, scopes, reviews, replied, vectors, created,
                   everInstalled, installed, deleted, seeded>>

\* Update changes names, texts and the category only; then the embedding.
Update(r) ==
    LET a == req[r].agent IN
    /\ req[r].op = "update"
    /\ SaveRow(a, req[r].row)
    /\ jobs' = jobs \union {<<"upsert", a>>}
    /\ Finish(r)
    /\ UNCHANGED published

Publish(r) ==
    LET a == req[r].agent IN
    /\ req[r].op = "publish"
    /\ SaveRow(a, [req[r].row EXCEPT !.public = TRUE])
    /\ published' = published \union {a}
    /\ Finish(r)
    /\ UNCHANGED jobs

\* Store.Delete deletes one row: installations and reviews of the agent stay.
DeleteRow(a) == agents' = [agents EXCEPT ![a] = NoRow]

Delete(r) ==
    LET a == req[r].agent IN
    /\ req[r].op = "delete"
    /\ Finish(r)
    /\ IF Exists(a)
       THEN /\ DeleteRow(a)
            /\ deleted' = deleted \union {a}
            /\ jobs' = jobs \union {<<"delete", a>>}
       ELSE UNCHANGED <<agents, deleted, jobs>>
    /\ UNCHANGED <<accepted, installs, scopes, reviews, replied, vectors, created, everInstalled,
                   installed, drifted, published, seeded>>

\* AddDeveloperReply names the review and the agent.
AddDeveloperReply(a, u) ==
    /\ reviews[u] = a
    /\ replied' = replied \union {u}

Reply(r, u) ==
    /\ req[r].op = "reply"
    /\ AddDeveloperReply(req[r].agent, u)
    /\ Finish(r)
    /\ UNCHANGED <<accepted, agents, installs, scopes, reviews, index, history>>

\* The vectors after an upsert, which the index may refuse.
UpsertEmbedding(a) == {vectors, vectors \union {a}}

\* The goroutines of Create and Update and of Delete run in any order.  The
\* embedding service or the index may fail: then nothing is written.
UpdateEmbedding(a) ==
    /\ <<"upsert", a>> \in jobs
    /\ vectors' \in UpsertEmbedding(a)
    /\ jobs' = jobs \ {<<"upsert", a>>}
    /\ UNCHANGED <<accepted, tables, req, history>>

DeleteEmbedding(a) ==
    /\ <<"delete", a>> \in jobs
    /\ vectors' \in {vectors, vectors \ {a}}
    /\ jobs' = jobs \ {<<"delete", a>>}
    /\ UNCHANGED <<accepted, tables, req, history>>

-----------------------------------------------------------------------------
(* Installation *)

\* Mutant: an installation or a review asks only whether there is a row.
ReadAny(r, u, a, op) ==
    /\ Exists(a)
    /\ Begin(r, op, u, a, NoRow)
    /\ UNCHANGED <<tables, index, history>>

\* Install and CreateReview first read the agent's row.
ReadPublic(r, u, a, op) ==
    /\ IsPublic(a)
    /\ Begin(r, op, u, a, NoRow)
    /\ UNCHANGED <<tables, index, history>>

BeginInstall(r, u, a) == ReadPublic(r, u, a, "install")
BeginReview(r, u, a)  == ReviewsRouted /\ ReadPublic(r, u, a, "review")

GetInstall(u, a) == <<u, a>> \in installs

\* A second installation is refused ...
CheckInstall(r) ==
    /\ req[r].op = "install"
    /\ IF GetInstall(req[r].user, req[r].agent) THEN Finish(r) ELSE Step(r, "createInstall")
    /\ UNCHANGED <<accepted, tables, index, history>>

\* Mutant: a review is accepted without an installation.
CheckNothing(r) ==
    /\ req[r].op = "review"
    /\ Step(r, "checkReview")
    /\ UNCHANGED <<accepted, tables, index, history>>

\* ... and so is a review without an installation.
CheckInstalled(r) ==
    /\ req[r].op = "review"
    /\ IF GetInstall(req[r].user, req[r].agent) THEN Step(r, "checkReview") ELSE Finish(r)
    /\ UNCHANGED <<accepted, tables, index, history>>

\* Store.Install inserts the row, which the unique index may refuse ...
InsertInstall(u, a, vision) ==
    /\ installs' = installs \union {<<u, a>>}
    /\ scopes' = IF vision THEN scopes \union {<<u, a>>} ELSE scopes
    /\ everInstalled' = everInstalled \union {<<u, a>>}
    /\ installed' = [installed EXCEPT ![a] = @ + 1]

\* (the rest of the handler, with the scopes the user grants)
CreateInstall(r, vision) ==
    LET u == req[r].user
        a == req[r].agent
    IN
    /\ req[r].op = "createInstall"
    /\ IF <<u, a>> \in installs
       THEN Finish(r) /\ UNCHANGED <<installs, scopes, everInstalled, installed>>
       ELSE InsertInstall(u, a, vision) /\ Step(r, "increment")
    /\ UNCHANGED <<accepted, agents, reviews, replied, index, created, drifted, deleted, published, seeded>>

\* ... and counts the installation.
IncrementInstalls(r) ==
    LET a == req[r].agent IN
    /\ req[r].op = "increment"
    /\ agents' = IF Exists(a) THEN [agents EXCEPT ![a].total = @ + 1, ![a].active = @ + 1] ELSE agents
    /\ Finish(r)
    /\ UNCHANGED <<accepted, installs, scopes, reviews, replied, index, history>>

\* Store.Uninstall deletes the row ...
DeleteInstall(u, a) ==
    /\ <<u, a>> \in installs
    /\ installs' = installs \ {<<u, a>>}
    /\ scopes' = scopes \ {<<u, a>>}

Uninstall(r, u, a) ==
    /\ DeleteInstall(u, a)
    /\ Begin(r, "decrement", u, a, NoRow)
    /\ UNCHANGED <<agents, reviews, replied, index, history>>

\* Mutant: the counter is decremented twice.
DecrementTwice(n) == IF n > 1 THEN n - 2 ELSE 0

\* GREATEST(active_installs - 1, 0)
Decremented(n) == IF n > 0 THEN n - 1 ELSE 0

\* ... and uncounts the installation; a count that is already 0 stays.
DecrementActiveInstalls(r) ==
    LET a == req[r].agent IN
    /\ req[r].op = "decrement"
    /\ agents' = IF Exists(a) THEN [agents EXCEPT ![a].active = Decremented(@)] ELSE agents
    /\ drifted' = IF Exists(a) /\ agents[a].active = 0 THEN drifted \union {a} ELSE drifted
    /\ Finish(r)
    /\ UNCHANGED <<accepted, installs, scopes, reviews, replied, index, created, everInstalled,
                   installed, deleted, published, seeded>>

UpdateInstallScopes(u, a, vision) ==
    /\ <<u, a>> \in installs
    /\ scopes' = IF vision THEN scopes \union {<<u, a>>} ELSE scopes \ {<<u, a>>}

UpdateScopes(u, a, vision) ==
    /\ UpdateInstallScopes(u, a, vision)
    /\ Count
    /\ UNCHANGED <<agents, installs, reviews, replied, index, req, history>>

-----------------------------------------------------------------------------
(* The seed command, for the developer it has made *)

\* seedAgent inserts an agent that is not public, without an embedding, unless
\* there is one; after a deletion the row comes back with counters at 0.
SeedAgent(u) ==
    /\ RequireDeveloper(u) /\ ~Exists(EchoAgent)
    /\ agents' = [agents EXCEPT ![EchoAgent] = NewAgent(u)]
    /\ created' = created \union {EchoAgent}
    /\ drifted' = IF EchoAgent \in created THEN drifted \union {EchoAgent} ELSE drifted
    /\ UNCHANGED <<accepted, installs, scopes, reviews, replied, index, req, everInstalled,
                   installed, seeded, deleted, published>>

\* seedInstall then installs it, public or not, and does not count it.
SeedInstall(u) ==
    /\ RequireDeveloper(u) /\ EchoAgent \in created /\ ~GetInstall(u, EchoAgent)
    /\ InsertInstall(u, EchoAgent, TRUE)
    /\ seeded' = seeded \union {<<u, EchoAgent>>}
    /\ drifted' = drifted \union {EchoAgent}
    /\ UNCHANGED <<accepted, agents, reviews, replied, index, req, created, deleted, published>>

-----------------------------------------------------------------------------
(* Reviews *)

\* The user's review of this very agent.
GetUserReview(u, a) == reviews[u] = a

CheckReview(r) ==
    /\ req[r].op = "checkReview"
    /\ IF GetUserReview(req[r].user, req[r].agent) THEN Finish(r) ELSE Step(r, "createReview")
    /\ UNCHANGED <<accepted, tables, index, history>>

\* Store.CreateReview: the unique index of the table is on the user alone.
InsertReview(u, a) ==
    /\ reviews[u] = NoRow
    /\ reviews' = [reviews EXCEPT ![u] = a]

CreateReview(r) ==
    /\ req[r].op = "createReview"
    /\ \/ InsertReview(req[r].user, req[r].agent) /\ Step(r, "average")
       \/ reviews[req[r].user] # NoRow /\ Finish(r) /\ UNCHANGED reviews
    /\ UNCHANGED <<accepted, agents, installs, scopes, replied, index, history>>

\* recalculateRating reads the average and the count ...
ReadRating(r) ==
    /\ req[r].op = "average"
    /\ req' = [req EXCEPT ![r].op = "rate", ![r].row = Reviewers(req[r].agent)]
    /\ UNCHANGED <<accepted, tables, index, history>>

\* ... and writes them in a second statement.
WriteRating(r) ==
    LET a == req[r].agent IN
    /\ req[r].op = "rate"
    /\ agents' = IF Exists(a) THEN [agents EXCEPT ![a].rated = req[r].row] ELSE agents
    /\ Finish(r)
    /\ UNCHANGED <<accepted, installs, scopes, reviews, replied, index, history>>

\* The client goes away, or the database refuses the next statement: the
\* statements already made stay.
Abort(r) ==
    /\ Busy(r)
    /\ Finish(r)
    /\ drifted' = IF req[r].op \in {"increment", "decrement"}
                  THEN drifted \union {req[r].agent} ELSE drifted
    /\ UNCHANGED <<accepted, tables, index, created, everInstalled, installed, deleted, published, seeded>>

-----------------------------------------------------------------------------
(* What the read-only endpoints answer *)

\* MarketplaceHandler.List shows the agents of this set ...
ListPublic == {a \in Agents : IsPublic(a)}

\* ... and Get answers for one of them only.
Get(a) == IF IsPublic(a) THEN agents[a] ELSE NoRow

\* What the index may find for a query: some of its points.
SearchByEmbedding == SUBSET vectors

\* Search: of the agents the index finds, those whose row is still there and public.
Search(found) == {a \in found : Get(a) # NoRow}

\* InstallHandler.List skips an installation whose agent is gone, and the join
\* of GetInstalledAgents, from which a voice session starts, has no row for it.
ListInstalled(u) == {a \in Agents : GetInstall(u, a) /\ Exists(a)}
GetInstalledAgents(u) == {a \in Agents : <<u, a>> \in installs /\ Exists(a)}

-----------------------------------------------------------------------------
Init ==
    /\ agents = [a \in Agents |-> NoRow]
    /\ reviews = [u \in Users |-> NoRow]
    /\ req = [r \in Reqs |-> Idle]
    /\ installed = [a \in Agents |-> 0] /\ accepted = 0
    /\ installs = {} /\ scopes = {} /\ replied = {}
    /\ vectors = {} /\ jobs = {}
    /\ created = {} /\ everInstalled = {} /\ drifted = {} /\ seeded = {} /\ deleted = {} /\ published = {}

ReqStep(r) ==
    \/ Update(r) \/ Publish(r) \/ Delete(r) \/ \E u \in Users : Reply(r, u)
    \/ CheckInstall(r) \/ CheckInstalled(r) \/ IncrementInstalls(r) \/ DecrementActiveInstalls(r)
    \/ \E vision \in BOOLEAN : CreateInstall(r, vision)
    \/ CheckReview(r) \/ CreateReview(r) \/ ReadRating(r) \/ WriteRating(r)
    \/ Abort(r)

Next ==
    \/ \E u \in Users, a \in Agents :
         \/ Create(u, a)
         \/ \E vision \in BOOLEAN : UpdateScopes(u, a, vision)
         \/ \E r \in Reqs :
              \/ BeginUpdate(r, u, a) \/ BeginPublish(r, u, a)
              \/ BeginDelete(r, u, a) \/ BeginReply(r, u, a)
              \/ BeginInstall(r, u, a) \/ BeginReview(r, u, a)
              \/ Uninstall(r, u, a)
    \/ \E a \in Agents : UpdateEmbedding(a) \/ DeleteEmbedding(a)
    \/ \E r \in Reqs : ReqStep(r)
    \/ \E u \in Users : SeedAgent(u) \/ SeedInstall(u)

Spec == Init /\ [][Next]_vars

-----------------------------------------------------------------------------
(* Properties *)

\* The requests that have changed the installations of an agent and not yet its row.
Counting(a, op) == {r \in Reqs : req[r].op = op /\ req[r].agent = a}

\* active_installs and total_installs count the installations exactly, up to
\* the requests between their two statements, unless a stale Save, a clamped
\* decrement, an abandoned request or the seed command, which counts nothing,
\* has made them drift: the unique index and the order row-then-counter leave
\* no other way.
CountersExact ==
    \A a \in Agents : Exists(a) /\ a \notin drifted =>
        /\ agents[a].active + Cardinality(Counting(a, "increment"))
             = Cardinality(Installers(a)) + Cardinality(Counting(a, "decrement"))
        /\ agents[a].total + Cardinality(Counting(a, "increment")) = installed[a]

\* A rating is computed from reviews that exist, and a review was written by
\* somebody who had installed the agent it is about, whatever was uninstalled,
\* deleted or saved meanwhile.
RatingsAreEarned ==
    /\ \A a \in Agents : Exists(a) => agents[a].rated \subseteq Reviewers(a)
    /\ \A u \in Users : reviews[u] # NoRow => <<u, reviews[u]>> \in everInstalled

\* Only agents that were published by their developer are installed, reviewed
\* or found, although any number of stale rows are saved.  The one exception is
\* the agent of the seed command, for the user it was seeded for.
OnlyPublishedIsUsed ==
    /\ \A pair \in everInstalled : pair[2] \in published \/ pair \in seeded
    /\ \A found \in SearchByEmbedding : Search(found) \subseteq published
    /\ ListPublic \subseteq published
    /\ \A u \in Users : \A a \in ListInstalled(u) \union GetInstalledAgents(u) :
         a \in published \/ <<u, a>> \in seeded
    /\ \A u \in Users : reviews[u] # NoRow => reviews[u] \in published

=============================================================================
