------------------------- MODULE MarketplaceProofs -------------------------
(***************************************************************************)
(* Proofs about Marketplace, for any users, developers and agents and any  *)
(* number of requests that run at once.                                    *)
(***************************************************************************)
EXTENDS Marketplace, FiniteSetTheorems, TLAPS

-----------------------------------------------------------------------------
(* Types *)

\* The requests that hold the whole row they have read, and the others that
\* hold nothing; "rate" holds the reviewers that were counted.
OwnerOps == {"update", "publish", "delete", "reply"}
PlainOps == {"install", "createInstall", "increment", "decrement", "review", "checkReview",
             "createReview", "average"}

Request == [op : OwnerOps \union PlainOps \union {"rate"}, user : Users, agent : Agents,
            row : Row \union {NoRow} \union SUBSET Users]

\* What a request has read fits what it is about to do.
Holds(x) ==
    /\ x.op \in OwnerOps => x.row \in Row
    /\ x.op = "rate" => x.row \subseteq Users

TypedReq == req \in [Reqs -> Request \union {Idle}] /\ \A r \in Reqs : Holds(req[r])

Typed ==
    /\ agents \in [Agents -> Row \union {NoRow}]
    /\ installs \subseteq Users \X Agents
    /\ everInstalled \subseteq Users \X Agents
    /\ reviews \in [Users -> Agents \union {NoRow}]
    /\ installed \in [Agents -> Nat]
    /\ vectors \subseteq Agents
    /\ TypedReq

LEMMA IdleHolds == Holds(Idle) /\ Idle.op = "idle" /\ Idle \notin Request
    BY DEF Holds, Idle, OwnerOps, PlainOps, Request

\* Only a request that is under way has a step of its own.
LEMMA UnderWay ==
    ASSUME TypedReq, NEW r \in Reqs, req[r].op # "idle"
    PROVE  /\ req[r] \in Request
           /\ req[r].user \in Users /\ req[r].agent \in Agents
    BY DEF TypedReq, Idle, Request

\* A request that ends, ...
LEMMA EndTyped ==
    ASSUME TypedReq, NEW r \in Reqs, Finish(r)
    PROVE  /\ TypedReq'
           /\ req'[r] = Idle /\ \A q \in Reqs \ {r} : req'[q] = req[q]
    BY IdleHolds DEF TypedReq, Finish, Holds

\* ... one that goes on with what it has, ...
LEMMA StepTyped ==
    ASSUME TypedReq, NEW r \in Reqs, req[r].op # "idle", NEW op \in PlainOps, Step(r, op)
    PROVE  /\ TypedReq'
           /\ req'[r].op = op /\ req'[r].user = req[r].user /\ req'[r].agent = req[r].agent
           /\ \A q \in Reqs \ {r} : req'[q] = req[q]
<1> DEFINE new == [req[r] EXCEPT !.op = op]
<1>1. /\ new \in Request /\ new.op = op
      /\ new.user = req[r].user /\ new.agent = req[r].agent
    BY UnderWay DEF Request
<1>2. Holds(new)
    BY <1>1 DEF Holds, OwnerOps, PlainOps
<1>3. req' = [req EXCEPT ![r] = new]
    BY DEF Step
<1> HIDE DEF new
<1> QED
    BY <1>1, <1>2, <1>3 DEF TypedReq

\* ... and one that begins.
LEMMA BeginTyped ==
    ASSUME TypedReq, NEW r \in Reqs, NEW op, NEW u \in Users, NEW a \in Agents, NEW row,
           Begin(r, op, u, a, row),
           \/ op \in OwnerOps /\ row \in Row
           \/ op \in PlainOps /\ row = NoRow
    PROVE  /\ TypedReq'
           /\ req'[r] = [op |-> op, user |-> u, agent |-> a, row |-> row]
           /\ \A q \in Reqs \ {r} : req'[q] = req[q]
<1> DEFINE new == [op |-> op, user |-> u, agent |-> a, row |-> row]
<1>1. new \in Request /\ new.op = op /\ new.row = row
    BY DEF Request
<1>2. Holds(new)
    BY <1>1 DEF Holds, OwnerOps, PlainOps
<1>3. req' = [req EXCEPT ![r] = new]
    BY DEF Begin
<1> HIDE DEF new
<1>4. TypedReq' /\ req'[r] = new /\ \A q \in Reqs \ {r} : req'[q] = req[q]
    BY <1>1, <1>2, <1>3 DEF TypedReq
<1> QED
    BY <1>4 DEF new

\* A row that is saved.
LEMMA SaveTyped ==
    ASSUME Typed, NEW a \in Agents, NEW new \in Row, SaveRow(a, new)
    PROVE  agents' \in [Agents -> Row \union {NoRow}]
    BY DEF Typed, SaveRow

\* The rows that the handlers compute from a row.
LEMMA RowsTyped ==
    ASSUME NEW row \in Row, NEW n \in Nat, NEW m \in Nat, NEW S \in SUBSET Users
    PROVE  /\ [row EXCEPT !.public = TRUE] \in Row
           /\ [row EXCEPT !.total = n, !.active = m] \in Row
           /\ [row EXCEPT !.active = m] \in Row
           /\ [row EXCEPT !.rated = S] \in Row
           /\ row.total \in Nat /\ row.active \in Nat
           /\ row.total + 1 \in Nat /\ row.active + 1 \in Nat /\ Decremented(row.active) \in Nat
<1>1. row.total \in Nat /\ row.active \in Nat
    BY DEF Row
<1>2. row.total + 1 \in Nat /\ row.active + 1 \in Nat /\ Decremented(row.active) \in Nat
    BY <1>1 DEF Decremented
<1>3. [row EXCEPT !.public = TRUE] \in Row
    BY DEF Row
<1>4. [row EXCEPT !.total = n, !.active = m] \in Row /\ [row EXCEPT !.active = m] \in Row
    BY DEF Row
<1>5. [row EXCEPT !.rated = S] \in Row
    BY DEF Row
<1> QED
    BY <1>1, <1>2, <1>3, <1>4, <1>5

LEMMA TypedInit == ASSUME Init PROVE Typed
<1>1. TypedReq
    BY IdleHolds DEF Init, TypedReq
<1> QED
    BY <1>1 DEF Init, Typed

LEMMA TypedStep == ASSUME Typed, [Next]_vars PROVE Typed'
<1> USE MarketAssumption
<1>0. TypedReq
    BY DEF Typed
<1>1. ASSUME NEW u \in Users, NEW a \in Agents, Create(u, a) PROVE Typed'
  <2>1. NewAgent(u) \in Row
      BY <1>1 DEF Create, RequireDeveloper, NewAgent, Row
  <2> QED
      BY <1>1, <2>1 DEF Create, Typed, TypedReq
<1>2. ASSUME NEW u \in Users, NEW a \in Agents, NEW v \in BOOLEAN, UpdateScopes(u, a, v)
      PROVE  Typed'
    BY <1>2 DEF UpdateScopes, history, index, Typed, TypedReq
<1>3. ASSUME NEW r \in Reqs, NEW u \in Users, NEW a \in Agents, NEW op \in OwnerOps,
             ReadOwned(r, u, a, op)
      PROVE  Typed'
  <2>1. agents[a] \in Row
      BY <1>3 DEF ReadOwned, Exists, Typed
  <2>2. TypedReq'
      BY <1>0, <1>3, <2>1, BeginTyped DEF ReadOwned
  <2> QED
      BY <1>3, <2>2 DEF ReadOwned, Typed, tables, index, history
<1>4. ASSUME NEW r \in Reqs, NEW u \in Users, NEW a \in Agents, NEW op \in PlainOps,
             ReadPublic(r, u, a, op)
      PROVE  Typed'
  <2>1. TypedReq'
      BY <1>0, <1>4, BeginTyped DEF ReadPublic
  <2> QED
      BY <1>4, <2>1 DEF ReadPublic, Typed, tables, index, history
<1>5. ASSUME NEW r \in Reqs, NEW u \in Users, NEW a \in Agents, Uninstall(r, u, a) PROVE Typed'
  <2>1. TypedReq'
      BY <1>0, <1>5, BeginTyped DEF Uninstall, PlainOps
  <2> QED
      BY <1>5, <2>1 DEF Uninstall, DeleteInstall, Typed, index, history
<1>6. ASSUME NEW a \in Agents, UpdateEmbedding(a) \/ DeleteEmbedding(a) PROVE Typed'
    BY <1>6 DEF UpdateEmbedding, UpsertEmbedding, DeleteEmbedding, Typed, TypedReq, tables, history
<1>7. ASSUME NEW r \in Reqs, Update(r) \/ Publish(r) PROVE Typed'
  <2>1. req[r].agent \in Agents /\ req[r].row \in Row /\ [req[r].row EXCEPT !.public = TRUE] \in Row
    <3>1. req[r].row \in Row
        BY <1>0, <1>7 DEF Update, Publish, OwnerOps, TypedReq, Holds
    <3> QED
        BY <1>0, <1>7, <3>1, UnderWay, RowsTyped DEF Update, Publish
  <2>2. agents' \in [Agents -> Row \union {NoRow}]
      BY <1>7, <2>1, SaveTyped DEF Update, Publish
  <2>3. TypedReq'
      BY <1>0, <1>7, EndTyped DEF Update, Publish
  <2> QED
      BY <1>7, <2>2, <2>3 DEF Update, Publish, SaveRow, Typed
<1>8. ASSUME NEW r \in Reqs, Delete(r) PROVE Typed'
  <2>1. TypedReq'
      BY <1>0, <1>8, EndTyped DEF Delete
  <2> QED
      BY <1>8, <2>1 DEF Delete, DeleteRow, Typed
<1>9. ASSUME NEW r \in Reqs, Finish(r), UNCHANGED <<tables, index, created, everInstalled, installed>>
      PROVE  Typed'
    BY <1>0, <1>9, EndTyped DEF Typed, tables, index
<1>10. ASSUME NEW r \in Reqs, NEW op \in PlainOps, req[r].op # "idle", Step(r, op),
              UNCHANGED <<tables, index, history>>
       PROVE  Typed'
    BY <1>0, <1>10, StepTyped DEF Typed, tables, index, history
<1>11. ASSUME NEW r \in Reqs, NEW u \in Users, Reply(r, u) PROVE Typed'
  <2>1. TypedReq'
      BY <1>0, <1>11, EndTyped DEF Reply
  <2> QED
      BY <1>11, <2>1 DEF Reply, Typed, index, history
<1>12. ASSUME NEW r \in Reqs, CheckInstall(r) \/ CheckInstalled(r) \/ CheckReview(r) PROVE Typed'
    BY <1>9, <1>10, <1>12 DEF CheckInstall, CheckInstalled, CheckReview, PlainOps, history
<1>13. ASSUME NEW r \in Reqs, Abort(r) PROVE Typed'
    BY <1>9, <1>13 DEF Abort
<1>14. ASSUME NEW r \in Reqs, NEW v \in BOOLEAN, CreateInstall(r, v) PROVE Typed'
  <2>1. req[r].user \in Users /\ req[r].agent \in Agents
      BY <1>0, <1>14, UnderWay DEF CreateInstall
  <2>2. TypedReq'
      BY <1>0, <1>14, EndTyped, StepTyped DEF CreateInstall, PlainOps
  <2> QED
      BY <1>14, <2>1, <2>2 DEF CreateInstall, InsertInstall, Typed, index
<1>15. ASSUME NEW r \in Reqs, IncrementInstalls(r) PROVE Typed'
  <2> DEFINE a == req[r].agent
  <2>1. a \in Agents /\ TypedReq'
      BY <1>0, <1>15, UnderWay, EndTyped DEF IncrementInstalls
  <2>2. agents' \in [Agents -> Row \union {NoRow}]
    <3>1. CASE Exists(a)
      <4>1. agents[a] \in Row
          BY <2>1, <3>1 DEF Exists, Typed
      <4> DEFINE new == [agents[a] EXCEPT !.total = @ + 1, !.active = @ + 1]
      <4>2. new \in Row
          BY <4>1, RowsTyped
      <4>3. agents' = [agents EXCEPT ![a] = new]
          BY <1>15, <3>1 DEF IncrementInstalls
      <4> QED
          BY <2>1, <4>2, <4>3 DEF Typed
    <3>2. CASE ~Exists(a)
        BY <1>15, <3>2 DEF IncrementInstalls, Typed
    <3> QED
        BY <3>1, <3>2
  <2> QED
      BY <1>15, <2>1, <2>2 DEF IncrementInstalls, Typed, index, history
<1>16. ASSUME NEW r \in Reqs, DecrementActiveInstalls(r) PROVE Typed'
  <2> DEFINE a == req[r].agent
  <2>1. a \in Agents /\ TypedReq'
      BY <1>0, <1>16, UnderWay, EndTyped DEF DecrementActiveInstalls
  <2>2. agents' \in [Agents -> Row \union {NoRow}]
    <3>1. CASE Exists(a)
      <4>1. agents[a] \in Row
          BY <2>1, <3>1 DEF Exists, Typed
      <4> DEFINE new == [agents[a] EXCEPT !.active = Decremented(@)]
      <4>2. new \in Row
          BY <4>1, RowsTyped
      <4>3. agents' = [agents EXCEPT ![a] = new]
          BY <1>16, <3>1 DEF DecrementActiveInstalls
      <4> QED
          BY <2>1, <4>2, <4>3 DEF Typed
    <3>2. CASE ~Exists(a)
        BY <1>16, <3>2 DEF DecrementActiveInstalls, Typed
    <3> QED
        BY <3>1, <3>2
  <2> QED
      BY <1>16, <2>1, <2>2 DEF DecrementActiveInstalls, Typed, index
<1>17. ASSUME NEW r \in Reqs, CreateReview(r) PROVE Typed'
  <2>1. req[r].user \in Users /\ req[r].agent \in Agents
      BY <1>0, <1>17, UnderWay DEF CreateReview
  <2>2. TypedReq'
      BY <1>0, <1>17, EndTyped, StepTyped DEF CreateReview, PlainOps
  <2> QED
      BY <1>17, <2>1, <2>2 DEF CreateReview, InsertReview, Typed, index, history
<1>18. ASSUME NEW r \in Reqs, ReadRating(r) PROVE Typed'
  <2>1. req[r] \in Request
      BY <1>0, <1>18, UnderWay DEF ReadRating
  <2> DEFINE new == [req[r] EXCEPT !.op = "rate", !.row = Reviewers(req[r].agent)]
  <2>2. new \in Request /\ new.op = "rate" /\ new.row \subseteq Users
      BY <2>1 DEF Request, Reviewers
  <2>3. Holds(new)
      BY <2>2 DEF Holds, OwnerOps
  <2>4. req' = [req EXCEPT ![r] = new]
      BY <1>18 DEF ReadRating
  <2>5. TypedReq'
      BY <1>0, <2>2, <2>3, <2>4 DEF TypedReq
  <2> QED
      BY <1>18, <2>5 DEF ReadRating, Typed, tables, index, history
<1>19. ASSUME NEW r \in Reqs, WriteRating(r) PROVE Typed'
  <2> DEFINE a == req[r].agent
  <2>1. a \in Agents /\ TypedReq' /\ req[r].row \subseteq Users
      BY <1>0, <1>19, UnderWay, EndTyped DEF WriteRating, TypedReq, Holds
  <2>2. agents' \in [Agents -> Row \union {NoRow}]
    <3>1. CASE Exists(a)
      <4> DEFINE new == [agents[a] EXCEPT !.rated = req[r].row]
      <4>1. new \in Row
          BY <2>1, <3>1, RowsTyped DEF Exists, Typed
      <4>2. agents' = [agents EXCEPT ![a] = new]
          BY <1>19, <3>1 DEF WriteRating
      <4> QED
          BY <2>1, <4>1, <4>2 DEF Typed
    <3>2. CASE ~Exists(a)
        BY <1>19, <3>2 DEF WriteRating, Typed
    <3> QED
        BY <3>1, <3>2
  <2> QED
      BY <1>19, <2>1, <2>2 DEF WriteRating, Typed, index, history
<1>20. CASE UNCHANGED vars
    BY <1>20 DEF vars, tables, index, history, Typed, TypedReq
<1>21. ASSUME NEW r \in Reqs, ReqStep(r) PROVE Typed'
    BY <1>7, <1>8, <1>11, <1>12, <1>13, <1>14, <1>15, <1>16, <1>17, <1>18, <1>19, <1>21 DEF ReqStep
<1>22. ASSUME NEW u \in Users, NEW a \in Agents, NEW r \in Reqs,
              \/ BeginUpdate(r, u, a) \/ BeginPublish(r, u, a)
              \/ BeginDelete(r, u, a) \/ BeginReply(r, u, a)
              \/ BeginInstall(r, u, a) \/ BeginReview(r, u, a)
       PROVE  Typed'
    BY <1>3, <1>4, <1>22 DEF BeginUpdate, BeginPublish, BeginDelete, BeginReply, BeginInstall,
       BeginReview, OwnerOps, PlainOps
<1>23. ASSUME NEW u \in Users, SeedAgent(u) PROVE Typed'
  <2>1. NewAgent(u) \in Row
      BY <1>23 DEF SeedAgent, RequireDeveloper, NewAgent, Row
  <2> QED
      BY <1>23, <2>1 DEF SeedAgent, Typed, TypedReq, index
<1>24. ASSUME NEW u \in Users, SeedInstall(u) PROVE Typed'
    BY <1>24 DEF SeedInstall, InsertInstall, Typed, TypedReq, index
<1> QED
    BY <1>1, <1>2, <1>5, <1>6, <1>20, <1>21, <1>22, <1>23, <1>24 DEF Next

-----------------------------------------------------------------------------
(* Ratings and publication *)

\* A row of an agent, in the table or held by a request: its rating counts
\* reviews that exist, and it is public only after a publication.
RowSound(a, row) == row.rated \subseteq Reviewers(a) /\ (row.public => a \in published)

AgentsSound == \A a \in Agents : Exists(a) => RowSound(a, agents[a])

\* What has been established when a request reaches its next statement.
Sound(r) ==
    LET a == req[r].agent IN
    /\ req[r].op \in OwnerOps => RowSound(a, req[r].row)
    /\ req[r].op = "rate" => req[r].row \subseteq Reviewers(a)
    /\ req[r].op \in {"install", "createInstall", "review", "checkReview", "createReview"}
         => a \in published
    /\ req[r].op \in {"checkReview", "createReview"} => <<req[r].user, a>> \in everInstalled

HistorySound ==
    /\ installs \subseteq everInstalled
    /\ \A u \in Users, a \in Agents :
         <<u, a>> \in everInstalled => a \in published \/ <<u, a>> \in seeded
    /\ \A u \in Users : reviews[u] # NoRow =>
         <<u, reviews[u]>> \in everInstalled /\ reviews[u] \in published

MarketInv == Typed /\ AgentsSound /\ HistorySound /\ \A r \in Reqs : Sound(r)

\* What every step leaves standing: reviews, publications and the record of
\* installations are never taken back.
Grows ==
    /\ \A u \in Users : reviews[u] # NoRow => reviews'[u] = reviews[u]
    /\ published \subseteq published' /\ everInstalled \subseteq everInstalled' /\ seeded \subseteq seeded'

LEMMA RowStaysSound ==
    ASSUME Typed, Grows, NEW a \in Agents
    PROVE  /\ Reviewers(a) \subseteq Reviewers(a)'
           /\ a \in published => a \in published'
    BY MarketAssumption DEF Typed, Grows, Reviewers

\* A request that makes no step keeps what it has established.
LEMMA WaitingStaysSound ==
    ASSUME Typed, Grows, NEW r \in Reqs, Sound(r), req'[r] = req[r]
    PROVE  Sound(r)'
<1>1. CASE req[r] = Idle
    BY <1>1, IdleHolds DEF Sound, OwnerOps
<1>2. CASE req[r] \in Request
  <2>1. req[r].agent \in Agents
      BY <1>2 DEF Request
  <2> QED
      BY <2>1, RowStaysSound DEF Sound, RowSound, Grows
<1> QED
    BY <1>1, <1>2 DEF Typed, TypedReq

LEMMA RequestsSound ==
    ASSUME MarketInv, Grows, NEW r \in Reqs, \A q \in Reqs \ {r} : req'[q] = req[q], Sound(r)'
    PROVE  \A q \in Reqs : Sound(q)'
    BY WaitingStaysSound DEF MarketInv

LEMMA EndedIsSound == ASSUME NEW r \in Reqs, req'[r] = Idle PROVE Sound(r)'
    BY IdleHolds DEF Sound, OwnerOps

\* Rows that are not written stay sound, ...
LEMMA UnwrittenStaySound ==
    ASSUME MarketInv, Grows, NEW a \in Agents, Exists(a), agents'[a] = agents[a]
    PROVE  RowSound(a, agents[a])'
    BY RowStaysSound DEF MarketInv, AgentsSound, RowSound

\* ... and the one that is written has to be.
LEMMA TableStaysSound ==
    ASSUME MarketInv, Grows, NEW a \in Agents, \A b \in Agents \ {a} : agents'[b] = agents[b],
           agents'[a] # NoRow => RowSound(a, agents[a])'
    PROVE  AgentsSound'
    BY UnwrittenStaySound DEF AgentsSound, Exists

LEMMA UnwrittenTableSound ==
    ASSUME MarketInv, Grows, UNCHANGED agents
    PROVE  AgentsSound'
    BY UnwrittenStaySound DEF AgentsSound, Exists

LEMMA MarketStep == ASSUME MarketInv, [Next]_vars PROVE MarketInv'
<1> USE MarketAssumption
<1>0. Typed /\ Typed' /\ TypedReq
    BY TypedStep DEF MarketInv, Typed
<1>1. ASSUME NEW u \in Users, NEW a \in Agents, Create(u, a) PROVE MarketInv'
  <2>1. Grows /\ UNCHANGED <<req, installs, everInstalled, reviews, published, seeded>>
      BY <1>1 DEF Create, Grows
  <2>2. agents'[a] = NewAgent(u) /\ \A b \in Agents \ {a} : agents'[b] = agents[b]
      BY <1>0, <1>1 DEF Create, Typed
  <2>3. RowSound(a, agents[a])'
      BY <2>2 DEF RowSound, NewAgent
  <2> QED
      BY <1>0, <2>1, <2>2, <2>3, TableStaysSound, WaitingStaysSound DEF MarketInv, HistorySound
<1>2. ASSUME UNCHANGED <<agents, req, installs, everInstalled, reviews, published, seeded>> PROVE MarketInv'
  <2>1. Grows
      BY <1>2 DEF Grows
  <2> QED
      BY <1>0, <1>2, <2>1, UnwrittenTableSound, WaitingStaysSound DEF MarketInv, HistorySound
<1>3. ASSUME NEW r \in Reqs, NEW u \in Users, NEW a \in Agents, NEW op \in OwnerOps,
             ReadOwned(r, u, a, op)
      PROVE  MarketInv'
  <2>1. UNCHANGED <<agents, installs, everInstalled, reviews, published, seeded>> /\ Grows
      BY <1>3 DEF ReadOwned, tables, history, Grows
  <2>2. /\ req'[r] = [op |-> op, user |-> u, agent |-> a, row |-> agents[a]]
        /\ \A q \in Reqs \ {r} : req'[q] = req[q]
      BY <1>0, <1>3, BeginTyped DEF ReadOwned, Exists, Typed
  <2>3. RowSound(a, agents[a])'
      BY <1>3, <2>1, UnwrittenStaySound DEF ReadOwned
  <2>4. Sound(r)'
      BY <2>1, <2>2, <2>3 DEF Sound, RowSound, OwnerOps
  <2> QED
      BY <1>0, <2>1, <2>2, <2>4, UnwrittenTableSound, RequestsSound DEF MarketInv, HistorySound
<1>4. ASSUME NEW r \in Reqs, NEW u \in Users, NEW a \in Agents, NEW op \in {"install", "review"},
             ReadPublic(r, u, a, op)
      PROVE  MarketInv'
  <2>1. UNCHANGED <<agents, installs, everInstalled, reviews, published, seeded>> /\ Grows
      BY <1>4 DEF ReadPublic, tables, history, Grows
  <2>2. /\ req'[r] = [op |-> op, user |-> u, agent |-> a, row |-> NoRow]
        /\ \A q \in Reqs \ {r} : req'[q] = req[q]
      BY <1>0, <1>4, BeginTyped DEF ReadPublic, PlainOps
  <2>3. a \in published
      BY <1>4 DEF ReadPublic, IsPublic, MarketInv, AgentsSound, RowSound
  <2>4. Sound(r)'
      BY <2>1, <2>2, <2>3 DEF Sound, OwnerOps
  <2> QED
      BY <1>0, <2>1, <2>2, <2>4, UnwrittenTableSound, RequestsSound DEF MarketInv, HistorySound
<1>5. ASSUME NEW r \in Reqs, NEW u \in Users, NEW a \in Agents, Uninstall(r, u, a) PROVE MarketInv'
  <2>1. UNCHANGED <<agents, everInstalled, reviews, published, seeded>> /\ Grows /\ installs' \subseteq installs
      BY <1>5 DEF Uninstall, DeleteInstall, history, Grows
  <2>2. /\ req'[r] = [op |-> "decrement", user |-> u, agent |-> a, row |-> NoRow]
        /\ \A q \in Reqs \ {r} : req'[q] = req[q]
      BY <1>0, <1>5, BeginTyped DEF Uninstall, PlainOps
  <2>3. Sound(r)'
      BY <2>2 DEF Sound, OwnerOps
  <2> QED
      BY <1>0, <2>1, <2>2, <2>3, UnwrittenTableSound, RequestsSound DEF MarketInv, HistorySound
<1>6. ASSUME NEW r \in Reqs, Update(r) PROVE MarketInv'
  <2>0. PICK a \in Agents : a = req[r].agent
      BY <1>0, <1>6, UnderWay DEF Update
  <2>1. req[r].row \in Row /\ RowSound(a, req[r].row)
      BY <1>0, <1>6, <2>0 DEF Update, OwnerOps, TypedReq, Holds, MarketInv, Sound
  <2>2. UNCHANGED <<installs, everInstalled, reviews, published, seeded>> /\ Grows /\ Finish(r)
      BY <1>6 DEF Update, SaveRow, Grows
  <2>3. agents'[a] = req[r].row /\ \A b \in Agents \ {a} : agents'[b] = agents[b]
      BY <1>0, <1>6, <2>0, <2>1 DEF Update, SaveRow, Typed
  <2>4. RowSound(a, agents[a])'
      BY <2>1, <2>2, <2>3 DEF RowSound, Reviewers
  <2>5. AgentsSound'
      BY <2>1, <2>2, <2>3, <2>4, TableStaysSound
  <2>6. \A q \in Reqs : Sound(q)'
      BY <1>0, <2>2, EndTyped, EndedIsSound, RequestsSound
  <2> QED
      BY <1>0, <2>2, <2>5, <2>6 DEF MarketInv, HistorySound
<1>7. ASSUME NEW r \in Reqs, Publish(r) PROVE MarketInv'
  <2> DEFINE new == [req[r].row EXCEPT !.public = TRUE]
  <2>0. PICK a \in Agents : a = req[r].agent
      BY <1>0, <1>7, UnderWay DEF Publish
  <2>1. req[r].row \in Row /\ RowSound(a, req[r].row)
      BY <1>0, <1>7, <2>0 DEF Publish, OwnerOps, TypedReq, Holds, MarketInv, Sound
  <2>2. /\ UNCHANGED <<installs, everInstalled, reviews, seeded>> /\ published' = published \union {a}
        /\ Grows /\ Finish(r)
      BY <1>7, <2>0 DEF Publish, SaveRow, Grows
  <2>3. agents'[a] = new /\ \A b \in Agents \ {a} : agents'[b] = agents[b]
      BY <1>0, <1>7, <2>0 DEF Publish, SaveRow, Typed
  <2>4. new.rated = req[r].row.rated
      BY <2>1 DEF Row
  <2>5. RowSound(a, agents[a])'
      BY <2>1, <2>2, <2>3, <2>4 DEF RowSound, Reviewers
  <2>6. AgentsSound'
      BY <2>1, <2>2, <2>3, <2>5, TableStaysSound
  <2>7. \A q \in Reqs : Sound(q)'
      BY <1>0, <2>2, EndTyped, EndedIsSound, RequestsSound
  <2> QED
      BY <1>0, <2>2, <2>6, <2>7 DEF MarketInv, HistorySound
<1>8. ASSUME NEW r \in Reqs, Delete(r) PROVE MarketInv'
  <2>1. UNCHANGED <<installs, everInstalled, reviews, published, seeded>> /\ Grows /\ Finish(r)
      BY <1>8 DEF Delete, Grows
  <2>2. req[r].agent \in Agents
      BY <1>0, <1>8, UnderWay DEF Delete
  <2>3. AgentsSound'
    <3>1. CASE Exists(req[r].agent)
        BY <1>0, <1>8, <2>1, <2>2, <3>1, TableStaysSound DEF Delete, DeleteRow, Typed
    <3>2. CASE ~Exists(req[r].agent)
        BY <1>8, <2>1, <3>2, UnwrittenTableSound DEF Delete
    <3> QED
        BY <3>1, <3>2
  <2>4. \A q \in Reqs : Sound(q)'
      BY <1>0, <2>1, EndTyped, EndedIsSound, RequestsSound
  <2> QED
      BY <1>0, <2>1, <2>3, <2>4 DEF MarketInv, HistorySound
<1>9. ASSUME NEW r \in Reqs, Finish(r),
             UNCHANGED <<agents, installs, everInstalled, reviews, published, seeded>>
      PROVE  MarketInv'
  <2>1. Grows
      BY <1>9 DEF Grows
  <2>2. \A q \in Reqs : Sound(q)'
      BY <1>0, <1>9, <2>1, EndTyped, EndedIsSound, RequestsSound
  <2> QED
      BY <1>0, <1>9, <2>1, <2>2, UnwrittenTableSound DEF MarketInv, HistorySound
<1>10. ASSUME NEW r \in Reqs, CheckInstall(r) PROVE MarketInv'
  <2>1. CASE GetInstall(req[r].user, req[r].agent)
      BY <1>9, <1>10, <2>1 DEF CheckInstall, tables, history
  <2>2. CASE ~GetInstall(req[r].user, req[r].agent)
    <3>1. UNCHANGED <<agents, installs, everInstalled, reviews, published, seeded>> /\ Grows
        BY <1>10 DEF CheckInstall, tables, history, Grows
    <3>2. /\ req'[r].op = "createInstall" /\ req'[r].agent = req[r].agent
          /\ \A q \in Reqs \ {r} : req'[q] = req[q]
        BY <1>0, <1>10, <2>2, StepTyped DEF CheckInstall, PlainOps
    <3>3. req[r].agent \in published
        BY <1>10 DEF CheckInstall, MarketInv, Sound
    <3>4. Sound(r)'
        BY <3>1, <3>2, <3>3 DEF Sound, OwnerOps
    <3> QED
        BY <1>0, <3>1, <3>2, <3>4, UnwrittenTableSound, RequestsSound DEF MarketInv, HistorySound
  <2> QED
      BY <2>1, <2>2
<1>11. ASSUME NEW r \in Reqs, CheckInstalled(r) PROVE MarketInv'
  <2>1. CASE ~GetInstall(req[r].user, req[r].agent)
      BY <1>9, <1>11, <2>1 DEF CheckInstalled, tables, history
  <2>2. CASE GetInstall(req[r].user, req[r].agent)
    <3>1. UNCHANGED <<agents, installs, everInstalled, reviews, published, seeded>> /\ Grows
        BY <1>11 DEF CheckInstalled, tables, history, Grows
    <3>2. /\ req'[r].op = "checkReview" /\ req'[r].agent = req[r].agent /\ req'[r].user = req[r].user
          /\ \A q \in Reqs \ {r} : req'[q] = req[q]
        BY <1>0, <1>11, <2>2, StepTyped DEF CheckInstalled, PlainOps
    <3>3. <<req[r].user, req[r].agent>> \in everInstalled /\ req[r].agent \in published
        BY <1>11, <2>2 DEF CheckInstalled, GetInstall, MarketInv, HistorySound, Sound
    <3>4. Sound(r)'
        BY <3>1, <3>2, <3>3 DEF Sound, OwnerOps
    <3> QED
        BY <1>0, <3>1, <3>2, <3>4, UnwrittenTableSound, RequestsSound DEF MarketInv, HistorySound
  <2> QED
      BY <2>1, <2>2
<1>12. ASSUME NEW r \in Reqs, CheckReview(r) PROVE MarketInv'
  <2>1. CASE GetUserReview(req[r].user, req[r].agent)
      BY <1>9, <1>12, <2>1 DEF CheckReview, tables, history
  <2>2. CASE ~GetUserReview(req[r].user, req[r].agent)
    <3>1. UNCHANGED <<agents, installs, everInstalled, reviews, published, seeded>> /\ Grows
        BY <1>12 DEF CheckReview, tables, history, Grows
    <3>2. /\ req'[r].op = "createReview" /\ req'[r].agent = req[r].agent /\ req'[r].user = req[r].user
          /\ \A q \in Reqs \ {r} : req'[q] = req[q]
        BY <1>0, <1>12, <2>2, StepTyped DEF CheckReview, PlainOps
    <3>3. <<req[r].user, req[r].agent>> \in everInstalled /\ req[r].agent \in published
        BY <1>12 DEF CheckReview, MarketInv, Sound
    <3>4. Sound(r)'
        BY <3>1, <3>2, <3>3 DEF Sound, OwnerOps
    <3> QED
        BY <1>0, <3>1, <3>2, <3>4, UnwrittenTableSound, RequestsSound DEF MarketInv, HistorySound
  <2> QED
      BY <2>1, <2>2
<1>13. ASSUME NEW r \in Reqs, NEW v \in BOOLEAN, CreateInstall(r, v) PROVE MarketInv'
  <2> DEFINE u == req[r].user
             a == req[r].agent
  <2>1. CASE <<u, a>> \in installs
      BY <1>9, <1>13, <2>1 DEF CreateInstall
  <2>2. CASE <<u, a>> \notin installs
    <3>1. /\ UNCHANGED <<agents, reviews, published, seeded>> /\ Step(r, "increment")
          /\ installs' = installs \union {<<u, a>>} /\ everInstalled' = everInstalled \union {<<u, a>>}
        BY <1>13, <2>2 DEF CreateInstall, InsertInstall
    <3>2. Grows
        BY <3>1 DEF Grows
    <3>3. a \in published
        BY <1>13 DEF CreateInstall, MarketInv, Sound
    <3>4. HistorySound'
        BY <3>1, <3>3 DEF MarketInv, HistorySound
    <3>5. req'[r].op = "increment" /\ \A q \in Reqs \ {r} : req'[q] = req[q]
        BY <1>0, <1>13, <3>1, StepTyped DEF CreateInstall, PlainOps
    <3>6. Sound(r)'
        BY <3>5 DEF Sound, OwnerOps
    <3> QED
        BY <1>0, <3>1, <3>2, <3>4, <3>5, <3>6, UnwrittenTableSound, RequestsSound DEF MarketInv
  <2> QED
      BY <2>1, <2>2
<1>14. ASSUME NEW r \in Reqs, IncrementInstalls(r) \/ DecrementActiveInstalls(r) PROVE MarketInv'
  <2>1. UNCHANGED <<installs, everInstalled, reviews, published, seeded>> /\ Grows /\ Finish(r)
      BY <1>14 DEF IncrementInstalls, DecrementActiveInstalls, history, Grows
  <2>2. PICK a \in Agents : a = req[r].agent
      BY <1>0, <1>14, UnderWay DEF IncrementInstalls, DecrementActiveInstalls
  <2>3. AgentsSound'
    <3>1. CASE ~Exists(a)
        BY <1>14, <2>1, <2>2, <3>1, UnwrittenTableSound DEF IncrementInstalls, DecrementActiveInstalls
    <3>2. CASE Exists(a)
      <4> DEFINE up == [agents[a] EXCEPT !.total = @ + 1, !.active = @ + 1]
                 down == [agents[a] EXCEPT !.active = Decremented(@)]
      <4>1. agents[a] \in Row
          BY <1>0, <2>2, <3>2 DEF Exists, Typed
      <4>2. /\ up.rated = agents[a].rated /\ up.public = agents[a].public
            /\ down.rated = agents[a].rated /\ down.public = agents[a].public
          BY <4>1 DEF Row
      <4>3. \/ agents' = [agents EXCEPT ![a] = up]
            \/ agents' = [agents EXCEPT ![a] = down]
          BY <1>14, <2>2, <3>2 DEF IncrementInstalls, DecrementActiveInstalls
      <4> HIDE DEF up, down
      <4>4. /\ agents'[a].rated = agents[a].rated /\ agents'[a].public = agents[a].public
            /\ \A b \in Agents \ {a} : agents'[b] = agents[b]
          BY <1>0, <2>2, <4>2, <4>3 DEF Typed
      <4>5. RowSound(a, agents[a])
          BY <2>2, <3>2 DEF MarketInv, AgentsSound
      <4>6. RowSound(a, agents[a])'
          BY <2>1, <4>4, <4>5 DEF RowSound, Reviewers
      <4> QED
          BY <2>1, <2>2, <4>4, <4>6, TableStaysSound
    <3> QED
        BY <3>1, <3>2
  <2>4. \A q \in Reqs : Sound(q)'
      BY <1>0, <2>1, EndTyped, EndedIsSound, RequestsSound
  <2> QED
      BY <1>0, <2>1, <2>3, <2>4 DEF MarketInv, HistorySound
<1>15. ASSUME NEW r \in Reqs, CreateReview(r) PROVE MarketInv'
  <2> DEFINE u == req[r].user
             a == req[r].agent
  <2>1. u \in Users /\ a \in Agents /\ <<u, a>> \in everInstalled /\ a \in published
      BY <1>0, <1>15, UnderWay DEF CreateReview, MarketInv, Sound
  <2>2. CASE InsertReview(u, a) /\ Step(r, "average")
    <3>1. UNCHANGED <<agents, installs, everInstalled, published, seeded>>
        BY <1>15 DEF CreateReview, history
    <3>2. Grows
        BY <1>0, <2>1, <2>2, <3>1 DEF Grows, InsertReview, Typed
    <3>3. HistorySound'
        BY <1>0, <2>1, <2>2, <3>1 DEF MarketInv, HistorySound, InsertReview, Typed
    <3>4. req'[r].op = "average" /\ \A q \in Reqs \ {r} : req'[q] = req[q]
        BY <1>0, <1>15, <2>2, StepTyped DEF CreateReview, PlainOps
    <3>5. Sound(r)'
        BY <3>4 DEF Sound, OwnerOps
    <3> QED
        BY <1>0, <3>1, <3>2, <3>3, <3>4, <3>5, UnwrittenTableSound, RequestsSound DEF MarketInv
  <2>3. CASE Finish(r) /\ UNCHANGED reviews
      BY <1>9, <1>15, <2>3 DEF CreateReview, history
  <2> QED
      BY <1>15, <2>2, <2>3 DEF CreateReview
<1>16. ASSUME NEW r \in Reqs, ReadRating(r) PROVE MarketInv'
  <2>1. req[r] \in Request
      BY <1>0, <1>16, UnderWay DEF ReadRating
  <2> DEFINE new == [req[r] EXCEPT !.op = "rate", !.row = Reviewers(req[r].agent)]
  <2>2. new.op = "rate" /\ new.agent = req[r].agent /\ new.row = Reviewers(req[r].agent)
      BY <2>1 DEF Request
  <2>3. req'[r] = new /\ \A q \in Reqs \ {r} : req'[q] = req[q]
      BY <1>0, <1>16 DEF ReadRating, TypedReq
  <2>4. UNCHANGED <<agents, installs, everInstalled, reviews, published, seeded>> /\ Grows
      BY <1>16 DEF ReadRating, tables, history, Grows
  <2>5. Sound(r)'
      BY <2>2, <2>3, <2>4 DEF Sound, OwnerOps, Reviewers
  <2> QED
      BY <1>0, <2>3, <2>4, <2>5, UnwrittenTableSound, RequestsSound DEF MarketInv, HistorySound
<1>17. ASSUME NEW r \in Reqs, WriteRating(r) PROVE MarketInv'
  <2>1. UNCHANGED <<installs, everInstalled, reviews, published, seeded>> /\ Grows /\ Finish(r)
      BY <1>17 DEF WriteRating, history, Grows
  <2>2. PICK a \in Agents : a = req[r].agent /\ req[r].row \subseteq Reviewers(a)
      BY <1>0, <1>17, UnderWay DEF WriteRating, MarketInv, Sound
  <2> DEFINE new == [agents[a] EXCEPT !.rated = req[r].row]
  <2>3. AgentsSound'
    <3>1. CASE ~Exists(a)
        BY <1>17, <2>1, <2>2, <3>1, UnwrittenTableSound DEF WriteRating
    <3>2. CASE Exists(a)
      <4>1. new.rated = req[r].row /\ new.public = agents[a].public
          BY <1>0, <2>2, <3>2 DEF Exists, Typed, Row
      <4>2. agents'[a] = new /\ \A b \in Agents \ {a} : agents'[b] = agents[b]
          BY <1>0, <1>17, <2>2, <3>2 DEF WriteRating, Typed
      <4>3. RowSound(a, agents[a])
          BY <2>2, <3>2 DEF MarketInv, AgentsSound
      <4>4. RowSound(a, agents[a])'
          BY <2>1, <2>2, <4>1, <4>2, <4>3 DEF RowSound, Reviewers
      <4> QED
          BY <2>1, <2>2, <4>2, <4>4, TableStaysSound
    <3> QED
        BY <3>1, <3>2
  <2>4. \A q \in Reqs : Sound(q)'
      BY <1>0, <2>1, EndTyped, EndedIsSound, RequestsSound
  <2> QED
      BY <1>0, <2>1, <2>3, <2>4 DEF MarketInv, HistorySound
<1>18. ASSUME NEW r \in Reqs, Abort(r) PROVE MarketInv'
    BY <1>9, <1>18 DEF Abort, tables
<1>19. ASSUME NEW r \in Reqs, NEW u \in Users, Reply(r, u) PROVE MarketInv'
    BY <1>9, <1>19 DEF Reply, history
<1>20. ASSUME NEW u \in Users, NEW a \in Agents, NEW v \in BOOLEAN, UpdateScopes(u, a, v)
       PROVE  MarketInv'
    BY <1>2, <1>20 DEF UpdateScopes, history
<1>21. ASSUME NEW a \in Agents, UpdateEmbedding(a) \/ DeleteEmbedding(a) PROVE MarketInv'
    BY <1>2, <1>21 DEF UpdateEmbedding, DeleteEmbedding, tables, history
<1>22. CASE UNCHANGED vars
    BY <1>2, <1>22 DEF vars, tables, history
<1>23. ASSUME NEW r \in Reqs, ReqStep(r) PROVE MarketInv'
    BY <1>6, <1>7, <1>8, <1>10, <1>11, <1>12, <1>13, <1>14, <1>15, <1>16, <1>17, <1>18, <1>19, <1>23
       DEF ReqStep
<1>24. ASSUME NEW u \in Users, NEW a \in Agents, NEW r \in Reqs,
              \/ BeginUpdate(r, u, a) \/ BeginPublish(r, u, a)
              \/ BeginDelete(r, u, a) \/ BeginReply(r, u, a)
              \/ BeginInstall(r, u, a) \/ BeginReview(r, u, a)
       PROVE  MarketInv'
    BY <1>3, <1>4, <1>24 DEF BeginUpdate, BeginPublish, BeginDelete, BeginReply, BeginInstall,
       BeginReview, OwnerOps
<1>25. ASSUME NEW u \in Users, SeedAgent(u) PROVE MarketInv'
  <2>1. Grows /\ UNCHANGED <<req, installs, everInstalled, reviews, published, seeded>>
      BY <1>25 DEF SeedAgent, Grows
  <2>2. /\ agents'[EchoAgent] = NewAgent(u)
        /\ \A b \in Agents \ {EchoAgent} : agents'[b] = agents[b]
      BY <1>0, <1>25 DEF SeedAgent, Typed
  <2>3. RowSound(EchoAgent, agents[EchoAgent])'
      BY <2>2 DEF RowSound, NewAgent
  <2> QED
      BY <1>0, <2>1, <2>2, <2>3, TableStaysSound, WaitingStaysSound DEF MarketInv, HistorySound
<1>26. ASSUME NEW u \in Users, SeedInstall(u) PROVE MarketInv'
  <2>1. /\ UNCHANGED <<agents, req, reviews, published>>
        /\ installs' = installs \union {<<u, EchoAgent>>}
        /\ everInstalled' = everInstalled \union {<<u, EchoAgent>>}
        /\ seeded' = seeded \union {<<u, EchoAgent>>}
      BY <1>26 DEF SeedInstall, InsertInstall
  <2>2. Grows
      BY <2>1 DEF Grows
  <2>3. HistorySound'
      BY <2>1 DEF MarketInv, HistorySound
  <2> QED
      BY <1>0, <2>1, <2>2, <2>3, UnwrittenTableSound, WaitingStaysSound DEF MarketInv
<1> QED
    BY <1>1, <1>5, <1>20, <1>21, <1>22, <1>23, <1>24, <1>25, <1>26 DEF Next

LEMMA MarketAlways == Spec => []MarketInv
<1>1. Init => MarketInv
  <2>1. Init => \A r \in Reqs : Sound(r)
      BY IdleHolds DEF Init, Sound, OwnerOps
  <2> QED
      BY <2>1, TypedInit DEF Init, MarketInv, AgentsSound, HistorySound, Exists
<1> QED
    BY <1>1, MarketStep, PTL DEF Spec

\* However many stale rows are saved, whatever is uninstalled or deleted: a
\* rating counts reviews that are in the table, and every review is of an
\* agent its author had installed.
THEOREM RatingsEarned == Spec => []RatingsAreEarned
<1>1. MarketInv => RatingsAreEarned
    BY DEF MarketInv, AgentsSound, RowSound, HistorySound, RatingsAreEarned
<1> QED
    BY <1>1, MarketAlways, PTL

\* A stale Save writes the old value of is_public back and can unpublish an
\* agent, but never publish one: nothing is installed, listed, found or
\* reviewed that its developer has not published, except what the seed command
\* installs for its own user.
THEOREM PublishedFirst == Spec => []OnlyPublishedIsUsed
<1>1. MarketInv => OnlyPublishedIsUsed
  <2> SUFFICES ASSUME MarketInv PROVE OnlyPublishedIsUsed
      OBVIOUS
  <2>1. \A pair \in everInstalled : pair[2] \in published \/ pair \in seeded
      BY DEF MarketInv, HistorySound, Typed
  <2>2. \A a \in Agents : IsPublic(a) => a \in published
      BY DEF MarketInv, AgentsSound, RowSound, IsPublic
  <2>3. \A found \in SearchByEmbedding : Search(found) \subseteq published
      BY <2>2 DEF MarketInv, Typed, SearchByEmbedding, Search, Get
  <2>4. \A u \in Users : \A a \in ListInstalled(u) \union GetInstalledAgents(u) :
          a \in published \/ <<u, a>> \in seeded
      BY DEF MarketInv, HistorySound, ListInstalled, GetInstalledAgents, GetInstall
  <2>5. \A u \in Users : reviews[u] # NoRow => reviews[u] \in published
      BY DEF MarketInv, HistorySound
  <2> QED
      BY <2>1, <2>2, <2>3, <2>4, <2>5 DEF OnlyPublishedIsUsed, ListPublic
<1> QED
    BY <1>1, MarketAlways, PTL

-----------------------------------------------------------------------------
(* The counters *)

\* Nothing is about an agent before it is created: its first row starts with
\* no installation and no request under way.
CreatedFirst ==
    /\ \A a \in Agents : Exists(a) \/ installed[a] # 0 => a \in created
    /\ \A u \in Users, a \in Agents : <<u, a>> \in installs => a \in created
    /\ \A r \in Reqs : req[r].op # "idle" => req[r].agent \in created

LEMMA CreatedStep == ASSUME Typed, CreatedFirst, [Next]_vars PROVE CreatedFirst'
<1> USE MarketAssumption
<1>0. TypedReq
    BY DEF Typed
<1>1. ASSUME NEW u \in Users, NEW a \in Agents, Create(u, a) PROVE CreatedFirst'
    BY <1>1 DEF Create, CreatedFirst, Typed, Exists
<1>2. ASSUME UNCHANGED <<agents, req, installs, installed, created>> PROVE CreatedFirst'
    BY <1>2 DEF CreatedFirst, Exists
<1>3. ASSUME NEW r \in Reqs, NEW u \in Users, NEW a \in Agents, NEW op \in OwnerOps,
             ReadOwned(r, u, a, op)
      PROVE  CreatedFirst'
  <2>1. /\ req'[r] = [op |-> op, user |-> u, agent |-> a, row |-> agents[a]]
        /\ \A q \in Reqs \ {r} : req'[q] = req[q]
      BY <1>0, <1>3, BeginTyped DEF ReadOwned, Exists, Typed
  <2>2. UNCHANGED <<agents, installs, installed, created>> /\ Exists(a)
      BY <1>3 DEF ReadOwned, tables, history
  <2> QED
      BY <2>1, <2>2 DEF CreatedFirst, Exists
<1>4. ASSUME NEW r \in Reqs, NEW u \in Users, NEW a \in Agents, NEW op \in PlainOps,
             ReadPublic(r, u, a, op)
      PROVE  CreatedFirst'
  <2>1. /\ req'[r] = [op |-> op, user |-> u, agent |-> a, row |-> NoRow]
        /\ \A q \in Reqs \ {r} : req'[q] = req[q]
      BY <1>0, <1>4, BeginTyped DEF ReadPublic
  <2>2. UNCHANGED <<agents, installs, installed, created>> /\ Exists(a)
      BY <1>4 DEF ReadPublic, IsPublic, tables, history
  <2> QED
      BY <2>1, <2>2 DEF CreatedFirst, Exists
<1>5. ASSUME NEW r \in Reqs, NEW u \in Users, NEW a \in Agents, Uninstall(r, u, a)
      PROVE  CreatedFirst'
  <2>1. /\ req'[r] = [op |-> "decrement", user |-> u, agent |-> a, row |-> NoRow]
        /\ \A q \in Reqs \ {r} : req'[q] = req[q]
      BY <1>0, <1>5, BeginTyped DEF Uninstall, PlainOps
  <2>2. /\ UNCHANGED <<agents, installed, created>>
        /\ installs' \subseteq installs /\ <<u, a>> \in installs
      BY <1>5 DEF Uninstall, DeleteInstall, history
  <2> QED
      BY <2>1, <2>2 DEF CreatedFirst, Exists
\* Requests that end, write the row of their agent or leave the tables alone.
<1>6. ASSUME NEW r \in Reqs, Finish(r), UNCHANGED <<installs, installed, created>>,
             \A b \in Agents : b \in created \/ agents'[b] = agents[b]
      PROVE  CreatedFirst'
  <2>1. req'[r] = Idle /\ \A q \in Reqs \ {r} : req'[q] = req[q]
      BY <1>0, <1>6, EndTyped
  <2> QED
      BY <1>6, <2>1, IdleHolds DEF CreatedFirst, Exists
<1>7. ASSUME NEW r \in Reqs, req[r].op # "idle",
             \A b \in Agents : b = req[r].agent \/ agents'[b] = agents[b]
      PROVE  \A b \in Agents : b \in created \/ agents'[b] = agents[b]
    BY <1>7 DEF CreatedFirst
<1>8. ASSUME NEW r \in Reqs, Update(r) \/ Publish(r) PROVE CreatedFirst'
    BY <1>6, <1>7, <1>8 DEF Update, Publish, SaveRow, Typed
<1>9. ASSUME NEW r \in Reqs, Delete(r) PROVE CreatedFirst'
    BY <1>6, <1>7, <1>9 DEF Delete, DeleteRow, Typed
<1>10. ASSUME NEW r \in Reqs, IncrementInstalls(r) PROVE CreatedFirst'
    BY <1>6, <1>7, <1>10 DEF IncrementInstalls, history, Typed
<1>11. ASSUME NEW r \in Reqs, DecrementActiveInstalls(r) PROVE CreatedFirst'
    BY <1>6, <1>7, <1>11 DEF DecrementActiveInstalls, Typed
<1>12. ASSUME NEW r \in Reqs, WriteRating(r) PROVE CreatedFirst'
    BY <1>6, <1>7, <1>12 DEF WriteRating, history, Typed
<1>13. ASSUME NEW r \in Reqs, Abort(r) \/ \E u \in Users : Reply(r, u) PROVE CreatedFirst'
    BY <1>6, <1>13 DEF Abort, Reply, tables, history
\* Requests that go on.
<1>14. ASSUME NEW r \in Reqs, NEW op \in PlainOps, req[r].op # "idle", Step(r, op),
              UNCHANGED <<agents, installs, installed, created>>
       PROVE  CreatedFirst'
  <2>1. req'[r].agent = req[r].agent /\ \A q \in Reqs \ {r} : req'[q] = req[q]
      BY <1>0, <1>14, StepTyped
  <2> QED
      BY <1>14, <2>1 DEF CreatedFirst, Exists
<1>15. ASSUME NEW r \in Reqs, CheckInstall(r) \/ CheckInstalled(r) \/ CheckReview(r)
       PROVE  CreatedFirst'
    BY <1>6, <1>14, <1>15 DEF CheckInstall, CheckInstalled, CheckReview, PlainOps, tables, history
<1>16. ASSUME NEW r \in Reqs, CreateReview(r) PROVE CreatedFirst'
    BY <1>6, <1>14, <1>16 DEF CreateReview, PlainOps, history
<1>17. ASSUME NEW r \in Reqs, NEW v \in BOOLEAN, CreateInstall(r, v) PROVE CreatedFirst'
  <2>1. CASE <<req[r].user, req[r].agent>> \in installs
      BY <1>6, <1>17, <2>1 DEF CreateInstall
  <2>2. CASE <<req[r].user, req[r].agent>> \notin installs
    <3>1. /\ UNCHANGED <<agents, created>> /\ Step(r, "increment")
          /\ installs' = installs \union {<<req[r].user, req[r].agent>>}
          /\ installed' = [installed EXCEPT ![req[r].agent] = @ + 1]
        BY <1>17, <2>2 DEF CreateInstall, InsertInstall
    <3>2. req'[r].agent = req[r].agent /\ \A q \in Reqs \ {r} : req'[q] = req[q]
        BY <1>0, <1>17, <3>1, StepTyped DEF CreateInstall, PlainOps
    <3>3. req[r].agent \in created
        BY <1>17 DEF CreateInstall, CreatedFirst
    <3> QED
        BY <3>1, <3>2, <3>3 DEF CreatedFirst, Exists, Typed
  <2> QED
      BY <2>1, <2>2
<1>18. ASSUME NEW r \in Reqs, ReadRating(r) PROVE CreatedFirst'
  <2>1. req[r] \in Request
      BY <1>0, <1>18, UnderWay DEF ReadRating
  <2> DEFINE new == [req[r] EXCEPT !.op = "rate", !.row = Reviewers(req[r].agent)]
  <2>2. new.agent = req[r].agent
      BY <2>1 DEF Request
  <2>3. req'[r] = new /\ \A q \in Reqs \ {r} : req'[q] = req[q]
      BY <1>0, <1>18 DEF ReadRating, TypedReq
  <2>4. UNCHANGED <<agents, installs, installed, created>> /\ req[r].op # "idle"
      BY <1>18 DEF ReadRating, tables, history
  <2> HIDE DEF new
  <2> QED
      BY <2>2, <2>3, <2>4 DEF CreatedFirst, Exists
<1>19. ASSUME NEW u \in Users, NEW a \in Agents, NEW v \in BOOLEAN, UpdateScopes(u, a, v)
       PROVE  CreatedFirst'
    BY <1>2, <1>19 DEF UpdateScopes, history
<1>20. ASSUME NEW a \in Agents, UpdateEmbedding(a) \/ DeleteEmbedding(a) PROVE CreatedFirst'
    BY <1>2, <1>20 DEF UpdateEmbedding, DeleteEmbedding, tables, history
<1>21. CASE UNCHANGED vars
    BY <1>2, <1>21 DEF vars, tables, history
<1>22. ASSUME NEW r \in Reqs, ReqStep(r) PROVE CreatedFirst'
    BY <1>8, <1>9, <1>10, <1>11, <1>12, <1>13, <1>15, <1>16, <1>17, <1>18, <1>22 DEF ReqStep
<1>23. ASSUME NEW u \in Users, NEW a \in Agents, NEW r \in Reqs,
              \/ BeginUpdate(r, u, a) \/ BeginPublish(r, u, a)
              \/ BeginDelete(r, u, a) \/ BeginReply(r, u, a)
              \/ BeginInstall(r, u, a) \/ BeginReview(r, u, a)
       PROVE  CreatedFirst'
    BY <1>3, <1>4, <1>23 DEF BeginUpdate, BeginPublish, BeginDelete, BeginReply, BeginInstall,
       BeginReview, OwnerOps, PlainOps
<1>24. ASSUME NEW u \in Users, SeedAgent(u) PROVE CreatedFirst'
    BY <1>24 DEF SeedAgent, CreatedFirst, Typed, Exists
<1>25. ASSUME NEW u \in Users, SeedInstall(u) PROVE CreatedFirst'
    BY <1>25 DEF SeedInstall, InsertInstall, CreatedFirst, Typed, Exists
<1> QED
    BY <1>1, <1>5, <1>19, <1>20, <1>21, <1>22, <1>23, <1>24, <1>25 DEF Next

\* The counters of one agent, as CountersExact states them.
Exact(a) ==
    Exists(a) /\ a \notin drifted =>
        /\ agents[a].active + Cardinality(Counting(a, "increment"))
             = Cardinality(Installers(a)) + Cardinality(Counting(a, "decrement"))
        /\ agents[a].total + Cardinality(Counting(a, "increment")) = installed[a]

\* How the requests that have to count move when one request does.
LEMMA CountingMoves ==
    ASSUME NEW r \in Reqs, NEW a \in Agents, NEW op, \A q \in Reqs \ {r} : req'[q] = req[q]
    PROVE  /\ Cardinality(Counting(a, op)) \in Nat
           /\ (r \in Counting(a, op)' <=> r \in Counting(a, op))
                => Counting(a, op)' = Counting(a, op)
           /\ r \in Counting(a, op)' /\ r \notin Counting(a, op)
                => Cardinality(Counting(a, op)') = Cardinality(Counting(a, op)) + 1
           /\ r \notin Counting(a, op)' /\ r \in Counting(a, op)
                => Cardinality(Counting(a, op)') = Cardinality(Counting(a, op)) - 1
<1> DEFINE C == Counting(a, op)
           D == Counting(a, op)'
<1>1. C \subseteq Reqs /\ D \subseteq Reqs /\ \A q \in Reqs \ {r} : q \in D <=> q \in C
    BY DEF Counting
<1>2. IsFiniteSet(C) /\ Cardinality(C) \in Nat
    BY <1>1, MarketAssumption, FS_Subset, FS_CardinalityType
<1> HIDE DEF C, D
<1>3. (r \in D <=> r \in C) => D = C
    BY <1>1
<1>4. r \in D /\ r \notin C => Cardinality(D) = Cardinality(C) + 1
  <2>1. r \in D /\ r \notin C => D = C \union {r}
      BY <1>1
  <2> QED
      BY <1>2, <2>1, FS_AddElement
<1>5. r \notin D /\ r \in C => Cardinality(D) = Cardinality(C) - 1
  <2>1. r \notin D /\ r \in C => D = C \ {r}
      BY <1>1
  <2> QED
      BY <1>2, <2>1, FS_RemoveElement
<1> QED
    BY <1>2, <1>3, <1>4, <1>5 DEF C, D

LEMMA InstallersMove ==
    ASSUME NEW u \in Users, NEW a \in Agents
    PROVE  /\ Cardinality(Installers(a)) \in Nat
           /\ <<u, a>> \notin installs /\ installs' = installs \union {<<u, a>>}
                => Cardinality(Installers(a)') = Cardinality(Installers(a)) + 1
           /\ <<u, a>> \in installs /\ installs' = installs \ {<<u, a>>}
                => Cardinality(Installers(a)') = Cardinality(Installers(a)) - 1
<1> DEFINE I == Installers(a)
           J == Installers(a)'
<1>1. IsFiniteSet(I) /\ Cardinality(I) \in Nat
  <2>1. I \subseteq Users
      BY DEF Installers
  <2> QED
      BY <2>1, MarketAssumption, FS_Subset, FS_CardinalityType
<1>2. ASSUME <<u, a>> \notin installs, installs' = installs \union {<<u, a>>}
      PROVE  u \notin I /\ J = I \union {u}
    BY <1>2 DEF Installers
<1>3. ASSUME <<u, a>> \in installs, installs' = installs \ {<<u, a>>}
      PROVE  u \in I /\ J = I \ {u}
    BY <1>3 DEF Installers
<1> HIDE DEF I, J
<1>4. ASSUME <<u, a>> \notin installs, installs' = installs \union {<<u, a>>}
      PROVE  Cardinality(J) = Cardinality(I) + 1
    BY <1>1, <1>2, <1>4, FS_AddElement
<1>5. ASSUME <<u, a>> \in installs, installs' = installs \ {<<u, a>>}
      PROVE  Cardinality(J) = Cardinality(I) - 1
    BY <1>1, <1>3, <1>5, FS_RemoveElement
<1> QED
    BY <1>1, <1>4, <1>5 DEF I, J

\* A step that leaves alone what an agent's counters count, and the counters
\* unless the agent is gone or has drifted.
LEMMA Unaffected ==
    ASSUME NEW a \in Agents, Exact(a), drifted \subseteq drifted',
           Installers(a)' = Installers(a), installed'[a] = installed[a],
           Exists(a)' /\ a \notin drifted' =>
             /\ Exists(a)
             /\ agents'[a].active = agents[a].active /\ agents'[a].total = agents[a].total
             /\ Counting(a, "increment")' = Counting(a, "increment")
             /\ Counting(a, "decrement")' = Counting(a, "decrement")
    PROVE  Exact(a)'
    BY DEF Exact

\* The same for a step of a request that has nothing to count, ...
LEMMA NotCounting ==
    ASSUME NEW a \in Agents, Exact(a), drifted \subseteq drifted',
           Installers(a)' = Installers(a), installed'[a] = installed[a],
           NEW r \in Reqs, \A q \in Reqs \ {r} : req'[q] = req[q],
           \A op \in {"increment", "decrement"} : req[r].op # op /\ req'[r].op # op,
           Exists(a)' /\ a \notin drifted' =>
             /\ Exists(a)
             /\ agents'[a].active = agents[a].active /\ agents'[a].total = agents[a].total
    PROVE  Exact(a)'
<1>1. ASSUME NEW op \in {"increment", "decrement"} PROVE Counting(a, op)' = Counting(a, op)
  <2>1. r \notin Counting(a, op)' /\ r \notin Counting(a, op)
      BY DEF Counting
  <2> QED
      BY <2>1, CountingMoves
<1> QED
    BY <1>1, Unaffected

\* ... and for a step of a request about another agent.
LEMMA OtherAgent ==
    ASSUME NEW a \in Agents, Exact(a), drifted \subseteq drifted',
           Installers(a)' = Installers(a), installed'[a] = installed[a], agents'[a] = agents[a],
           NEW r \in Reqs, \A q \in Reqs \ {r} : req'[q] = req[q],
           req[r].op = "idle" \/ req[r].agent # a,
           req'[r].op = "idle" \/ req'[r].agent # a
    PROVE  Exact(a)'
<1>1. ASSUME NEW op \in {"increment", "decrement"} PROVE Counting(a, op)' = Counting(a, op)
  <2>1. r \notin Counting(a, op)' /\ r \notin Counting(a, op)
      BY DEF Counting
  <2> QED
      BY <2>1, CountingMoves
<1> QED
    BY <1>1, Unaffected DEF Exists

LEMMA ExactStep ==
    ASSUME Typed, CreatedFirst, NEW a \in Agents, Exact(a), [Next]_vars
    PROVE  Exact(a)'
<1> USE MarketAssumption
<1>0. TypedReq
    BY DEF Typed
<1>1. ASSUME NEW u \in Users, NEW b \in Agents, Create(u, b) PROVE Exact(a)'
  <2>0. UNCHANGED <<req, installs, installed, drifted>> /\ agents' = [agents EXCEPT ![b] = NewAgent(u)]
      BY <1>1 DEF Create
  <2>1. CASE b = a
    <3>1. Counting(a, "increment")' = {} /\ Counting(a, "decrement")' = {} /\ Installers(a)' = {}
        BY <1>1, <2>0, <2>1 DEF Create, CreatedFirst, Counting, Installers
    <3>2. installed'[a] = 0
        BY <1>1, <2>0, <2>1 DEF Create, CreatedFirst
    <3>3. agents'[a].active = 0 /\ agents'[a].total = 0
        BY <2>0, <2>1 DEF Typed, NewAgent
    <3>4. Cardinality({}) = 0
        BY FS_EmptySet
    <3> QED
        BY <3>1, <3>2, <3>3, <3>4 DEF Exact
  <2>2. CASE b # a
    <3>1. agents'[a] = agents[a]
        BY <2>0, <2>2 DEF Typed
    <3> QED
        BY <2>0, <3>1, Unaffected DEF Exists, Counting, Installers
  <2> QED
      BY <2>1, <2>2
<1>2. ASSUME UNCHANGED <<agents, req, installs, installed, drifted>> PROVE Exact(a)'
    BY <1>2 DEF Exact, Exists, Counting, Installers
<1>3. ASSUME NEW r \in Reqs, NEW u \in Users, NEW b \in Agents, NEW op \in OwnerOps,
             ReadOwned(r, u, b, op)
      PROVE  Exact(a)'
  <2>1. UNCHANGED <<agents, installs, installed, drifted>>
      BY <1>3 DEF ReadOwned, tables, history
  <2>2. /\ req'[r] = [op |-> op, user |-> u, agent |-> b, row |-> agents[b]]
        /\ \A q \in Reqs \ {r} : req'[q] = req[q]
      BY <1>0, <1>3, BeginTyped DEF ReadOwned, Exists, Typed
  <2>3. req[r].op = "idle"
      BY <1>3 DEF ReadOwned, Begin, Busy
  <2> QED
      BY <2>1, <2>2, <2>3, NotCounting DEF Exists, Installers, OwnerOps
<1>4. ASSUME NEW r \in Reqs, NEW u \in Users, NEW b \in Agents, NEW op \in {"install", "review"},
             ReadPublic(r, u, b, op)
      PROVE  Exact(a)'
  <2>1. UNCHANGED <<agents, installs, installed, drifted>>
      BY <1>4 DEF ReadPublic, tables, history
  <2>2. /\ req'[r] = [op |-> op, user |-> u, agent |-> b, row |-> NoRow]
        /\ \A q \in Reqs \ {r} : req'[q] = req[q]
      BY <1>0, <1>4, BeginTyped DEF ReadPublic, PlainOps
  <2>3. req[r].op = "idle"
      BY <1>4 DEF ReadPublic, Begin, Busy
  <2> QED
      BY <2>1, <2>2, <2>3, NotCounting DEF Exists, Installers
<1>5. ASSUME NEW r \in Reqs, NEW u \in Users, NEW b \in Agents, Uninstall(r, u, b) PROVE Exact(a)'
  <2>1. /\ UNCHANGED <<agents, installed, drifted>>
        /\ <<u, b>> \in installs /\ installs' = installs \ {<<u, b>>}
      BY <1>5 DEF Uninstall, DeleteInstall, history
  <2>2. /\ req'[r] = [op |-> "decrement", user |-> u, agent |-> b, row |-> NoRow]
        /\ \A q \in Reqs \ {r} : req'[q] = req[q]
      BY <1>0, <1>5, BeginTyped DEF Uninstall, PlainOps
  <2>3. req[r].op = "idle"
      BY <1>5 DEF Uninstall, Begin, Busy
  <2>4. CASE b = a
    <3>1. Cardinality(Installers(a)) \in Nat /\ Cardinality(Installers(a)') = Cardinality(Installers(a)) - 1
        BY <2>1, <2>4, InstallersMove
    <3>2. /\ r \notin Counting(a, "increment") /\ r \notin Counting(a, "increment")'
          /\ r \notin Counting(a, "decrement") /\ r \in Counting(a, "decrement")'
        BY <2>2, <2>3, <2>4 DEF Counting
    <3>3. /\ Counting(a, "increment")' = Counting(a, "increment")
          /\ Cardinality(Counting(a, "decrement")) \in Nat
          /\ Cardinality(Counting(a, "decrement")') = Cardinality(Counting(a, "decrement")) + 1
        BY <2>2, <3>2, CountingMoves
    <3> QED
        BY <2>1, <3>1, <3>3 DEF Exact, Exists
  <2>5. CASE b # a
    <3>1. Installers(a)' = Installers(a)
        BY <2>1, <2>5 DEF Installers
    <3> QED
        BY <2>1, <2>2, <2>3, <2>5, <3>1, OtherAgent
  <2> QED
      BY <2>4, <2>5
<1>6. ASSUME NEW r \in Reqs, NEW new \in Row, SaveRow(req[r].agent, new), Finish(r),
             req[r].op \in OwnerOps
      PROVE  Exact(a)'
  <2>1. req[r].agent \in Agents /\ req'[r].op = "idle" /\ \A q \in Reqs \ {r} : req'[q] = req[q]
      BY <1>0, <1>6, UnderWay, EndTyped, IdleHolds DEF OwnerOps
  <2>2. UNCHANGED <<installs, installed>> /\ drifted \subseteq drifted'
      BY <1>6 DEF SaveRow
  <2>3. Exists(a)' /\ a \notin drifted' =>
          /\ Exists(a)
          /\ agents'[a].active = agents[a].active /\ agents'[a].total = agents[a].total
    <3>1. CASE req[r].agent = a
        BY <1>6, <2>1, <3>1 DEF SaveRow, Typed
    <3>2. CASE req[r].agent # a
        BY <1>6, <3>2 DEF SaveRow, Typed, Exists
    <3> QED
        BY <3>1, <3>2
  <2> QED
      BY <1>6, <2>1, <2>2, <2>3, NotCounting DEF Installers, OwnerOps
<1>7. ASSUME NEW r \in Reqs, Update(r) \/ Publish(r) PROVE Exact(a)'
  <2>1. req[r].op \in OwnerOps /\ Finish(r)
      BY <1>7 DEF Update, Publish, OwnerOps
  <2>2. req[r].row \in Row /\ [req[r].row EXCEPT !.public = TRUE] \in Row
      BY <1>0, <2>1, RowsTyped DEF TypedReq, Holds
  <2> QED
      BY <1>6, <1>7, <2>1, <2>2 DEF Update, Publish
<1>8. ASSUME NEW r \in Reqs, Finish(r), UNCHANGED <<installs, installed>>, drifted \subseteq drifted',
             req[r].op \notin {"increment", "decrement"},
             Exists(a)' /\ a \notin drifted' =>
               /\ Exists(a)
               /\ agents'[a].active = agents[a].active /\ agents'[a].total = agents[a].total
      PROVE  Exact(a)'
  <2>1. req'[r].op = "idle" /\ \A q \in Reqs \ {r} : req'[q] = req[q]
      BY <1>0, <1>8, EndTyped, IdleHolds
  <2> QED
      BY <1>8, <2>1, NotCounting DEF Installers
<1>9. ASSUME NEW r \in Reqs, Delete(r) PROVE Exact(a)'
  <2>1. Exists(a)' => Exists(a) /\ agents'[a] = agents[a]
      BY <1>9 DEF Delete, DeleteRow, Exists, Typed
  <2> QED
      BY <1>8, <1>9, <2>1 DEF Delete
<1>10. ASSUME NEW r \in Reqs, NEW u \in Users, Reply(r, u) PROVE Exact(a)'
    BY <1>8, <1>10 DEF Reply, history, Exists
<1>11. ASSUME NEW r \in Reqs, WriteRating(r) PROVE Exact(a)'
  <2>1. Exists(a)' => /\ Exists(a)
                      /\ agents'[a].active = agents[a].active /\ agents'[a].total = agents[a].total
    <3>1. CASE Exists(req[r].agent) /\ req[r].agent = a
      <4> DEFINE new == [agents[a] EXCEPT !.rated = req[r].row]
      <4>1. new.active = agents[a].active /\ new.total = agents[a].total
          BY <3>1 DEF Exists, Typed, Row
      <4>2. agents'[a] = new
          BY <1>11, <3>1 DEF WriteRating, Typed
      <4> QED
          BY <3>1, <4>1, <4>2
    <3>2. CASE ~(Exists(req[r].agent) /\ req[r].agent = a)
      <4>1. agents'[a] = agents[a]
          BY <1>11, <3>2 DEF WriteRating, Typed
      <4> QED
          BY <4>1 DEF Exists
    <3> QED
        BY <3>1, <3>2
  <2> QED
      BY <1>8, <1>11, <2>1 DEF WriteRating, history
<1>12. ASSUME NEW r \in Reqs, Abort(r) PROVE Exact(a)'
  <2>1. /\ UNCHANGED <<agents, installs, installed>> /\ drifted \subseteq drifted' /\ Finish(r)
      BY <1>12 DEF Abort, tables
  <2>2. CASE req[r].op \notin {"increment", "decrement"}
      BY <1>8, <2>1, <2>2 DEF Exists
  <2>3. CASE req[r].op \in {"increment", "decrement"} /\ req[r].agent = a
      BY <1>12, <2>3 DEF Abort, Exact
  <2>4. CASE req[r].agent # a
    <3>1. req'[r].op = "idle" /\ \A q \in Reqs \ {r} : req'[q] = req[q]
        BY <1>0, <2>1, EndTyped, IdleHolds
    <3> QED
        BY <2>1, <2>4, <3>1, OtherAgent DEF Installers
  <2> QED
      BY <2>2, <2>3, <2>4
<1>13. ASSUME NEW r \in Reqs, NEW op \in PlainOps \ {"increment", "decrement"}, Step(r, op),
              req[r].op \notin {"idle", "increment", "decrement"},
              UNCHANGED <<agents, installs, installed, drifted>>
       PROVE  Exact(a)'
  <2>1. req'[r].op = op /\ \A q \in Reqs \ {r} : req'[q] = req[q]
      BY <1>0, <1>13, StepTyped
  <2> QED
      BY <1>13, <2>1, NotCounting DEF Exists, Installers
<1>14. ASSUME NEW r \in Reqs, Finish(r), req[r].op \notin {"increment", "decrement"},
              UNCHANGED <<agents, installs, installed, drifted>>
       PROVE  Exact(a)'
    BY <1>8, <1>14 DEF Exists
<1>15. ASSUME NEW r \in Reqs, CheckInstall(r) \/ CheckInstalled(r) \/ CheckReview(r)
       PROVE  Exact(a)'
    BY <1>13, <1>14, <1>15 DEF CheckInstall, CheckInstalled, CheckReview, PlainOps, tables, history
<1>16. ASSUME NEW r \in Reqs, CreateReview(r) PROVE Exact(a)'
    BY <1>13, <1>14, <1>16 DEF CreateReview, PlainOps, history
<1>17. ASSUME NEW r \in Reqs, ReadRating(r) PROVE Exact(a)'
  <2>1. req[r] \in Request
      BY <1>0, <1>17, UnderWay DEF ReadRating
  <2> DEFINE new == [req[r] EXCEPT !.op = "rate", !.row = Reviewers(req[r].agent)]
  <2>2. new.op = "rate"
      BY <2>1 DEF Request
  <2>3. req'[r] = new /\ \A q \in Reqs \ {r} : req'[q] = req[q]
      BY <1>0, <1>17 DEF ReadRating, TypedReq
  <2>4. UNCHANGED <<agents, installs, installed, drifted>> /\ req[r].op = "average"
      BY <1>17 DEF ReadRating, tables, history
  <2> HIDE DEF new
  <2> QED
      BY <2>2, <2>3, <2>4, NotCounting DEF Exists, Installers
<1>18. ASSUME NEW r \in Reqs, NEW v \in BOOLEAN, CreateInstall(r, v) PROVE Exact(a)'
  <2>0. PICK u \in Users, b \in Agents : u = req[r].user /\ b = req[r].agent
      BY <1>0, <1>18, UnderWay DEF CreateInstall
  <2>1. CASE <<u, b>> \in installs
      BY <1>14, <1>18, <2>0, <2>1 DEF CreateInstall
  <2>2. CASE <<u, b>> \notin installs
    <3>1. /\ UNCHANGED <<agents, drifted>> /\ Step(r, "increment")
          /\ installs' = installs \union {<<u, b>>}
          /\ installed' = [installed EXCEPT ![b] = @ + 1]
          /\ req[r].op = "createInstall"
        BY <1>18, <2>0, <2>2 DEF CreateInstall, InsertInstall
    <3>2. req'[r].op = "increment" /\ req'[r].agent = b /\ \A q \in Reqs \ {r} : req'[q] = req[q]
        BY <1>0, <2>0, <3>1, StepTyped DEF PlainOps
    <3>3. CASE b = a
      <4>1. Cardinality(Installers(a)) \in Nat /\ Cardinality(Installers(a)') = Cardinality(Installers(a)) + 1
          BY <2>2, <3>1, <3>3, InstallersMove
      <4>2. /\ r \notin Counting(a, "increment") /\ r \in Counting(a, "increment")'
            /\ r \notin Counting(a, "decrement") /\ r \notin Counting(a, "decrement")'
          BY <3>1, <3>2, <3>3 DEF Counting
      <4>3. /\ Counting(a, "decrement")' = Counting(a, "decrement")
            /\ Cardinality(Counting(a, "decrement")) \in Nat
            /\ Cardinality(Counting(a, "increment")) \in Nat
            /\ Cardinality(Counting(a, "increment")') = Cardinality(Counting(a, "increment")) + 1
          BY <3>2, <4>2, CountingMoves
      <4>4. installed'[a] = installed[a] + 1 /\ installed[a] \in Nat
          BY <3>1, <3>3 DEF Typed
      <4>5. Exists(a) => agents[a].active \in Nat /\ agents[a].total \in Nat
          BY DEF Exists, Typed, Row
      <4> SUFFICES ASSUME Exists(a), a \notin drifted
                   PROVE  /\ agents[a].active + Cardinality(Counting(a, "increment")')
                               = Cardinality(Installers(a)') + Cardinality(Counting(a, "decrement"))
                          /\ agents[a].total + Cardinality(Counting(a, "increment")') = installed'[a]
          BY <3>1, <4>3 DEF Exact, Exists
      <4>6. /\ agents[a].active + Cardinality(Counting(a, "increment"))
                 = Cardinality(Installers(a)) + Cardinality(Counting(a, "decrement"))
            /\ agents[a].total + Cardinality(Counting(a, "increment")) = installed[a]
          BY DEF Exact
      <4> QED
          BY <4>1, <4>3, <4>4, <4>5, <4>6
    <3>4. CASE b # a
      <4>1. Installers(a)' = Installers(a) /\ installed'[a] = installed[a]
          BY <3>1, <3>4 DEF Installers, Typed
      <4> QED
          BY <2>0, <3>1, <3>2, <3>4, <4>1, OtherAgent
    <3> QED
        BY <3>3, <3>4
  <2> QED
      BY <2>1, <2>2
<1>19. ASSUME NEW r \in Reqs, IncrementInstalls(r) PROVE Exact(a)'
  <2>0. PICK b \in Agents : b = req[r].agent
      BY <1>0, <1>19, UnderWay DEF IncrementInstalls
  <2>1. UNCHANGED <<installs, installed, drifted>> /\ Finish(r) /\ req[r].op = "increment"
      BY <1>19 DEF IncrementInstalls, history
  <2>2. req'[r].op = "idle" /\ \A q \in Reqs \ {r} : req'[q] = req[q]
      BY <1>0, <2>1, EndTyped, IdleHolds
  <2>3. CASE b # a
    <3>1. agents'[a] = agents[a]
        BY <1>19, <2>0, <2>3 DEF IncrementInstalls, Typed
    <3> QED
        BY <2>0, <2>1, <2>2, <2>3, <3>1, OtherAgent DEF Installers
  <2>4. CASE b = a /\ ~Exists(a)
      BY <1>19, <2>0, <2>4 DEF IncrementInstalls, Exact, Exists
  <2>5. CASE b = a /\ Exists(a)
    <3> DEFINE new == [agents[a] EXCEPT !.total = @ + 1, !.active = @ + 1]
    <3>1. /\ agents[a].active \in Nat /\ agents[a].total \in Nat
          /\ new.active = agents[a].active + 1 /\ new.total = agents[a].total + 1
        BY <2>5 DEF Exists, Typed, Row
    <3>2. agents'[a] = new
        BY <1>19, <2>0, <2>5 DEF IncrementInstalls, Typed
    <3>3. /\ r \in Counting(a, "increment") /\ r \notin Counting(a, "increment")'
          /\ r \notin Counting(a, "decrement") /\ r \notin Counting(a, "decrement")'
        BY <2>0, <2>1, <2>2, <2>5 DEF Counting
    <3>4. /\ Counting(a, "decrement")' = Counting(a, "decrement")
          /\ Cardinality(Counting(a, "decrement")) \in Nat
          /\ Cardinality(Counting(a, "increment")) \in Nat
          /\ Cardinality(Counting(a, "increment")') = Cardinality(Counting(a, "increment")) - 1
        BY <2>2, <3>3, CountingMoves
    <3>5. Installers(a)' = Installers(a)
        BY <2>1 DEF Installers
    <3> HIDE DEF new
    <3> QED
        BY <2>1, <2>5, <3>1, <3>2, <3>4, <3>5 DEF Exact
  <2> QED
      BY <2>3, <2>4, <2>5
<1>20. ASSUME NEW r \in Reqs, DecrementActiveInstalls(r) PROVE Exact(a)'
  <2>0. PICK b \in Agents : b = req[r].agent
      BY <1>0, <1>20, UnderWay DEF DecrementActiveInstalls
  <2>1. /\ UNCHANGED <<installs, installed>> /\ Finish(r) /\ req[r].op = "decrement"
        /\ drifted \subseteq drifted'
      BY <1>20 DEF DecrementActiveInstalls
  <2>2. req'[r].op = "idle" /\ \A q \in Reqs \ {r} : req'[q] = req[q]
      BY <1>0, <2>1, EndTyped, IdleHolds
  <2>3. CASE b # a
    <3>1. agents'[a] = agents[a]
        BY <1>20, <2>0, <2>3 DEF DecrementActiveInstalls, Typed
    <3> QED
        BY <2>0, <2>1, <2>2, <2>3, <3>1, OtherAgent DEF Installers
  <2>4. CASE b = a /\ ~Exists(a)
      BY <1>20, <2>0, <2>4 DEF DecrementActiveInstalls, Exact, Exists
  <2>5. CASE b = a /\ Exists(a) /\ agents[a].active = 0
      BY <1>20, <2>0, <2>5 DEF DecrementActiveInstalls, Exact
  <2>6. CASE b = a /\ Exists(a) /\ agents[a].active # 0
    <3> DEFINE new == [agents[a] EXCEPT !.active = Decremented(@)]
    <3>1. /\ agents[a].active \in Nat /\ agents[a].total \in Nat
          /\ new.active = Decremented(agents[a].active) /\ new.total = agents[a].total
        BY <2>6 DEF Exists, Typed, Row
    <3>2. new.active = agents[a].active - 1
        BY <2>6, <3>1 DEF Decremented
    <3>3. agents'[a] = new
        BY <1>20, <2>0, <2>6 DEF DecrementActiveInstalls, Typed
    <3>4. /\ r \notin Counting(a, "increment") /\ r \notin Counting(a, "increment")'
          /\ r \in Counting(a, "decrement") /\ r \notin Counting(a, "decrement")'
        BY <2>0, <2>1, <2>2, <2>6 DEF Counting
    <3>5. /\ Counting(a, "increment")' = Counting(a, "increment")
          /\ Cardinality(Counting(a, "increment")) \in Nat
          /\ Cardinality(Counting(a, "decrement")) \in Nat
          /\ Cardinality(Counting(a, "decrement")') = Cardinality(Counting(a, "decrement")) - 1
        BY <2>2, <3>4, CountingMoves
    <3>6. Installers(a)' = Installers(a)
        BY <2>1 DEF Installers
    <3>7. Cardinality(Installers(a)) \in Nat
      <4>1. Installers(a) \subseteq Users
          BY DEF Installers
      <4> QED
          BY <4>1, FS_Subset, FS_CardinalityType
    <3> HIDE DEF new
    <3>8. agents'[a].active = agents[a].active - 1 /\ agents'[a].total = agents[a].total
        BY <3>1, <3>2, <3>3
    <3>9. ASSUME a \notin drifted'
          PROVE  /\ agents'[a].active + Cardinality(Counting(a, "increment")')
                      = Cardinality(Installers(a)') + Cardinality(Counting(a, "decrement")')
                 /\ agents'[a].total + Cardinality(Counting(a, "increment")') = installed'[a]
      <4>1. /\ agents[a].active + Cardinality(Counting(a, "increment"))
                 = Cardinality(Installers(a)) + Cardinality(Counting(a, "decrement"))
            /\ agents[a].total + Cardinality(Counting(a, "increment")) = installed[a]
          BY <2>1, <2>6, <3>9 DEF Exact
      <4> QED
          BY <2>1, <3>1, <3>5, <3>6, <3>7, <3>8, <4>1
    <3> QED
        BY <3>9 DEF Exact
  <2> QED
      BY <2>3, <2>4, <2>5, <2>6
<1>21. ASSUME NEW u \in Users, NEW b \in Agents, NEW v \in BOOLEAN, UpdateScopes(u, b, v)
       PROVE  Exact(a)'
    BY <1>2, <1>21 DEF UpdateScopes, history
<1>22. ASSUME NEW b \in Agents, UpdateEmbedding(b) \/ DeleteEmbedding(b) PROVE Exact(a)'
    BY <1>2, <1>22 DEF UpdateEmbedding, DeleteEmbedding, tables, history
<1>23. CASE UNCHANGED vars
    BY <1>2, <1>23 DEF vars, tables, history
<1>24. ASSUME NEW r \in Reqs, ReqStep(r) PROVE Exact(a)'
    BY <1>7, <1>9, <1>10, <1>11, <1>12, <1>15, <1>16, <1>17, <1>18, <1>19, <1>20, <1>24 DEF ReqStep
<1>25. ASSUME NEW u \in Users, NEW b \in Agents, NEW r \in Reqs,
              \/ BeginUpdate(r, u, b) \/ BeginPublish(r, u, b)
              \/ BeginDelete(r, u, b) \/ BeginReply(r, u, b)
              \/ BeginInstall(r, u, b) \/ BeginReview(r, u, b)
       PROVE  Exact(a)'
    BY <1>3, <1>4, <1>25 DEF BeginUpdate, BeginPublish, BeginDelete, BeginReply, BeginInstall,
       BeginReview, OwnerOps
<1>26. ASSUME NEW u \in Users, SeedAgent(u) PROVE Exact(a)'
  <2>0. /\ UNCHANGED <<req, installs, installed>> /\ drifted \subseteq drifted'
        /\ agents' = [agents EXCEPT ![EchoAgent] = NewAgent(u)]
        /\ EchoAgent \in created => EchoAgent \in drifted'
      BY <1>26 DEF SeedAgent
  <2>1. CASE EchoAgent = a /\ a \notin created
    <3>1. Counting(a, "increment")' = {} /\ Counting(a, "decrement")' = {} /\ Installers(a)' = {}
        BY <2>0, <2>1 DEF CreatedFirst, Counting, Installers
    <3>2. installed'[a] = 0
        BY <2>0, <2>1 DEF CreatedFirst
    <3>3. agents'[a].active = 0 /\ agents'[a].total = 0
        BY <2>0, <2>1 DEF Typed, NewAgent
    <3>4. Cardinality({}) = 0
        BY FS_EmptySet
    <3> QED
        BY <3>1, <3>2, <3>3, <3>4 DEF Exact
  <2>2. CASE EchoAgent # a
    <3>1. agents'[a] = agents[a]
        BY <2>0, <2>2 DEF Typed
    <3> QED
        BY <2>0, <3>1, Unaffected DEF Exists, Counting, Installers
  <2>3. CASE EchoAgent = a /\ a \in created
    <3>1. a \in drifted'
        BY <2>0, <2>3
    <3> QED
        BY <3>1 DEF Exact
  <2> QED
      BY <2>1, <2>2, <2>3
<1>27. ASSUME NEW u \in Users, SeedInstall(u) PROVE Exact(a)'
  <2>0. /\ UNCHANGED <<req, agents>> /\ drifted' = drifted \union {EchoAgent}
        /\ installs' = installs \union {<<u, EchoAgent>>}
        /\ installed' = [installed EXCEPT ![EchoAgent] = @ + 1]
      BY <1>27 DEF SeedInstall, InsertInstall
  <2>1. CASE EchoAgent = a
    <3>1. a \in drifted'
        BY <2>0, <2>1
    <3> QED
        BY <3>1 DEF Exact
  <2>2. CASE EchoAgent # a
    <3>1. installed'[a] = installed[a] /\ Installers(a)' = Installers(a)
        BY <2>0, <2>2 DEF Typed, Installers
    <3> QED
        BY <2>0, <3>1, Unaffected DEF Exists, Counting
  <2> QED
      BY <2>1, <2>2
<1> QED
    BY <1>1, <1>5, <1>21, <1>22, <1>23, <1>24, <1>25, <1>26, <1>27 DEF Next

\* active_installs and total_installs are moved by statements of their own,
\* without a transaction: they still count the installations exactly, up to
\* the requests between their two statements, until one of the named causes
\* (a stale Save, a clamped decrement, an abandoned request, the seed command)
\* makes them drift, for any number of concurrent requests.
THEOREM CountersAlwaysExact == Spec => []CountersExact
<1> DEFINE Inv == Typed /\ CreatedFirst /\ \A a \in Agents : Exact(a)
<1>1. Init => Inv
  <2>1. Init => CreatedFirst
      BY IdleHolds DEF Init, CreatedFirst, Exists
  <2> QED
      BY <2>1, TypedInit DEF Init, Exact, Exists
<1>2. Inv /\ [Next]_vars => Inv'
    BY TypedStep, CreatedStep, ExactStep
<1>3. Inv => CountersExact
    BY DEF CountersExact, Exact
<1> QED
    BY <1>1, <1>2, <1>3, PTL DEF Spec

=============================================================================
