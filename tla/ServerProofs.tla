---------------------------- MODULE ServerProofs ----------------------------
(***************************************************************************)
(* Proofs about Accounts, for any users, profiles, agents, secrets and     *)
(* prefixes and any number of requests at once, and about HTTPService, for *)
(* any finite set of requests, any burst and any number of clean-ups.      *)
(* The two share no name: each is proved from its own specification.       *)
(***************************************************************************)
EXTENDS Accounts, HTTPService, FiniteSetTheorems, TLAPS

-----------------------------------------------------------------------------
(* Types *)

PCs == Ops \union {"sync", "insert", "getKey", "delete"}

\* A request that is under way, with the row and the key it has read.
Request == [pc : PCs, op : Ops, user : Users, profile : Profiles,
            row : UserRow \union {NoRow}, key : Secrets \union {NoRow}]

Typed ==
    /\ users \in [Users -> UserRow \union {NoRow}]
    /\ keys \in [Secrets -> Users \union Agents \union {NoRow}]
    /\ req \in [Reqs -> Request \union {Idle}]
    /\ \A r \in Reqs : req[r].pc = "delete" => req[r].key \in Secrets

LEMMA TypedInit == ASSUME Init PROVE Typed
<1>1. Idle.pc # "delete"
    BY DEF Idle
<1> QED
    BY <1>1 DEF Init, Typed

\* Only a request that is under way has a step of its own.
LEMMA UnderWay ==
    ASSUME Typed, NEW r \in Reqs, req[r].pc # "idle"
    PROVE  req[r] \in Request
    BY DEF Typed, Idle

\* A request that ends, or goes on at a position that is not "delete".
LEMMA RequestEnds ==
    ASSUME Typed, NEW r \in Reqs, Finish(r)
    PROVE  /\ req' \in [Reqs -> Request \union {Idle}]
           /\ \A q \in Reqs : req'[q].pc = "delete" => req'[q].key \in Secrets
<1>1. Idle.pc # "delete"
    BY DEF Idle
<1> QED
    BY <1>1 DEF Typed, Finish

LEMMA RequestSteps ==
    ASSUME Typed, NEW r \in Reqs, req[r] \in Request, NEW pc \in PCs \ {"delete"}, Step(r, pc)
    PROVE  /\ req' \in [Reqs -> Request \union {Idle}]
           /\ \A q \in Reqs : req'[q].pc = "delete" => req'[q].key \in Secrets
<1>1. [req[r] EXCEPT !.pc = pc] \in Request /\ [req[r] EXCEPT !.pc = pc].pc = pc
    BY DEF Request
<1> QED
    BY <1>1 DEF Typed, Step

LEMMA TypedStep == ASSUME Typed, [Next]_vars PROVE Typed'
<1> USE AccountsAssumption
<1>1. ASSUME NEW r \in Reqs, NEW u \in Users, NEW p \in Profiles, NEW op \in Ops,
             Authenticate(r, u, p, op)
      PROVE  Typed'
  <2> DEFINE new == [pc |-> "sync", op |-> op, user |-> u, profile |-> p,
                     row |-> users[u], key |-> NoRow]
  <2>1. new \in Request /\ new.pc = "sync"
      BY DEF Typed, Request, PCs
  <2>2. req' = [req EXCEPT ![r] = new] /\ UNCHANGED rows
      BY <1>1 DEF Authenticate
  <2> QED
      BY <2>1, <2>2 DEF Typed, rows
<1>2. ASSUME NEW r \in Reqs, SyncFromJWT(r) PROVE Typed'
  <2>1. req[r] \in Request
      BY <1>2, UnderWay DEF SyncFromJWT
  <2>2. req[r].op \in PCs \ {"delete"} /\ req[r].user \in Users /\ req[r].profile \in Profiles
        /\ req[r].row \in UserRow \union {NoRow}
      BY <2>1 DEF Request, PCs, Ops
  <2>3. users' \in [Users -> UserRow \union {NoRow}]
    <3>1. NewUser(req[r].profile) \in UserRow
        BY <2>2 DEF NewUser, UserRow
    <3>2. req[r].row # NoRow => [req[r].row EXCEPT !.profile = req[r].profile] \in UserRow
        BY <2>2 DEF UserRow
    <3> QED
        BY <1>2, <2>2, <3>1, <3>2 DEF SyncFromJWT, Typed
  <2> QED
      BY <1>2, <2>1, <2>2, <2>3, RequestSteps DEF SyncFromJWT, Typed
<1>3. ASSUME NEW r \in Reqs, Me(r) \/ Abort(r) PROVE Typed'
    BY <1>3, RequestEnds DEF Me, Abort, rows, Typed
<1>4. ASSUME NEW r \in Reqs, BecomeDeveloper(r) PROVE Typed'
  <2>1. req[r].user \in Users
      BY <1>4, UnderWay DEF BecomeDeveloper, Request
  <2>2. users' \in [Users -> UserRow \union {NoRow}]
    <3>1. ASSUME Exists(req[r].user) PROVE [users[req[r].user] EXCEPT !.dev = TRUE] \in UserRow
        BY <2>1, <3>1 DEF Exists, Typed, UserRow
    <3> QED
        BY <1>4, <2>1, <3>1 DEF BecomeDeveloper, SetDeveloper, Typed
  <2> QED
      BY <1>4, <2>2, RequestEnds DEF BecomeDeveloper, Typed
<1>5. ASSUME NEW r \in Reqs, RequireDeveloper(r) PROVE Typed'
  <2>1. req[r] \in Request
      BY <1>5, UnderWay DEF RequireDeveloper
  <2> QED
      BY <1>5, <2>1, RequestSteps, RequestEnds DEF RequireDeveloper, PCs, rows, Typed
<1>6. ASSUME NEW r \in Reqs, CreateKey(r) PROVE Typed'
  <2>1. req[r].user \in Users
      BY <1>6, UnderWay DEF CreateKey, Request
  <2> QED
      BY <1>6, <2>1, RequestEnds DEF CreateKey, Insert, rows, Typed
<1>7. ASSUME NEW r \in Reqs, NEW s \in Secrets, GetKey(r, s) PROVE Typed'
  <2>1. req[r] \in Request
      BY <1>7, UnderWay DEF GetKey
  <2> DEFINE new == [req[r] EXCEPT !.pc = "delete", !.key = s]
  <2>2. new \in Request /\ new.key = s
      BY <2>1 DEF Request, PCs
  <2>3. req' = [req EXCEPT ![r] = new]
      BY <1>7 DEF GetKey
  <2> QED
      BY <1>7, <2>2, <2>3 DEF GetKey, rows, Typed
<1>8. ASSUME NEW r \in Reqs, DeleteKey(r) PROVE Typed'
    BY <1>8, RequestEnds DEF DeleteKey, DeleteRow, Typed
<1>9. ASSUME NEW s \in Secrets, Expire(s) \/ Connect(s) PROVE Typed'
    BY <1>9 DEF Expire, Connect, Typed
<1>10. ASSUME NEW a \in Agents, NEW s \in Secrets, SeedAPIKey(a, s) PROVE Typed'
    BY <1>10 DEF SeedAPIKey, Insert, Typed
<1>11. CASE UNCHANGED vars
    BY <1>11 DEF vars, rows, Typed
<1>12. ASSUME NEW u \in Users, NEW p \in Profiles, SeedUser(u, p) PROVE Typed'
  <2>1. [profile |-> p, dev |-> TRUE] \in UserRow
      BY DEF UserRow
  <2> QED
      BY <1>12, <2>1 DEF SeedUser, Typed
<1>13. ASSUME NEW a \in Agents, GetByOwner(a) PROVE Typed'
    BY <1>13 DEF GetByOwner, rows, Typed
<1> QED
    BY <1>1, <1>2, <1>3, <1>4, <1>5, <1>6, <1>7, <1>8, <1>9, <1>10, <1>11, <1>12, <1>13 DEF Next

-----------------------------------------------------------------------------
(* The keys *)

\* The unique index keeps the prefixes of the rows apart, ...
UniquePrefix ==
    \A k, l \in Secrets :
        keys[k] # NoRow /\ keys[l] # NoRow /\ Prefix[k] = Prefix[l] => k = l

\* ... only the seed command gives a key to an agent, and what has connected
\* was such a key.
AgentKeysSeeded == \A s \in Secrets : keys[s] \in Agents => s \in seeded

KeysInv == Typed /\ UniquePrefix /\ AgentKeysSeeded /\ OnlySeededKeysConnect

\* What a new row does to the table, whoever owns it.
LEMMA InsertKeepsApart ==
    ASSUME Typed, UniquePrefix, NEW s \in Secrets, NEW owner \in Users \union Agents,
           Insert(s, owner)
    PROVE  UniquePrefix'
    BY DEF Typed, UniquePrefix, Insert, PrefixTaken

\* A key a handler makes or deletes: none of these gives a key to an agent.
LEMMA KeysStep == ASSUME KeysInv, [Next]_vars PROVE KeysInv'
<1> USE AccountsAssumption
<1>0. Typed'
    BY TypedStep DEF KeysInv
<1>1. ASSUME NEW r \in Reqs, CreateKey(r) PROVE KeysInv'
  <2>1. req[r].user \in Users
      BY <1>1, UnderWay DEF CreateKey, Request, KeysInv
  <2>2. ASSUME NEW s \in Secrets, Insert(s, req[r].user) PROVE UniquePrefix' /\ AgentKeysSeeded'
    <3>1. UniquePrefix'
        BY <2>1, <2>2, InsertKeepsApart DEF KeysInv
    <3>2. AgentKeysSeeded'
        BY <1>1, <2>1, <2>2 DEF KeysInv, Typed, AgentKeysSeeded, Insert, CreateKey, history
    <3> QED
        BY <3>1, <3>2
  <2>3. ASSUME UNCHANGED rows PROVE UniquePrefix' /\ AgentKeysSeeded'
      BY <1>1, <2>3 DEF KeysInv, UniquePrefix, AgentKeysSeeded, CreateKey, rows, history
  <2> QED
      BY <1>0, <1>1, <2>2, <2>3 DEF CreateKey, KeysInv, OnlySeededKeysConnect, history
<1>2. ASSUME NEW r \in Reqs, DeleteKey(r) PROVE KeysInv'
  <2>1. req[r].key \in Secrets
      BY <1>2 DEF DeleteKey, KeysInv, Typed
  <2> QED
      BY <1>0, <1>2, <2>1 DEF DeleteKey, DeleteRow, KeysInv, Typed, UniquePrefix, AgentKeysSeeded,
         OnlySeededKeysConnect, history
<1>3. ASSUME NEW a \in Agents, NEW s \in Secrets, SeedAPIKey(a, s) PROVE KeysInv'
  <2>1. UniquePrefix'
      BY <1>3, InsertKeepsApart DEF SeedAPIKey, KeysInv
  <2> QED
      BY <1>0, <1>3, <2>1 DEF SeedAPIKey, Insert, KeysInv, Typed, AgentKeysSeeded,
         OnlySeededKeysConnect
<1>4. ASSUME NEW s \in Secrets, Connect(s) PROVE KeysInv'
    BY <1>0, <1>4 DEF Connect, ValidateAgentAccess, KeysInv, UniquePrefix, AgentKeysSeeded,
       OnlySeededKeysConnect
<1>5. ASSUME UNCHANGED <<keys, seeded, connected>> PROVE KeysInv'
    BY <1>0, <1>5 DEF KeysInv, UniquePrefix, AgentKeysSeeded, OnlySeededKeysConnect
<1>6. ASSUME NEW r \in Reqs, NEW u \in Users, NEW p \in Profiles, NEW op \in Ops,
             Authenticate(r, u, p, op)
      PROVE  KeysInv'
    BY <1>5, <1>6 DEF Authenticate, rows
<1>7. ASSUME NEW r \in Reqs,
             SyncFromJWT(r) \/ Me(r) \/ Abort(r) \/ BecomeDeveloper(r) \/ RequireDeveloper(r)
      PROVE  KeysInv'
    BY <1>5, <1>7 DEF SyncFromJWT, Me, Abort, BecomeDeveloper, RequireDeveloper, rows, history
<1>8. ASSUME NEW r \in Reqs, NEW s \in Secrets, GetKey(r, s) PROVE KeysInv'
    BY <1>5, <1>8 DEF GetKey, rows, history
<1>9. ASSUME NEW s \in Secrets, Expire(s) PROVE KeysInv'
    BY <1>5, <1>9 DEF Expire, history
<1>10. CASE UNCHANGED vars
    BY <1>5, <1>10 DEF vars, rows, history
<1>11. ASSUME NEW u \in Users, NEW p \in Profiles, SeedUser(u, p) PROVE KeysInv'
    BY <1>5, <1>11 DEF SeedUser
<1>12. ASSUME NEW a \in Agents, GetByOwner(a) PROVE KeysInv'
    BY <1>5, <1>12 DEF GetByOwner, rows, history
<1> QED
    BY <1>1, <1>2, <1>3, <1>4, <1>6, <1>7, <1>8, <1>9, <1>10, <1>11, <1>12 DEF Next

LEMMA KeysAlways == Spec => []KeysInv
<1>1. Init => KeysInv
    BY TypedInit, AccountsAssumption
       DEF Init, KeysInv, UniquePrefix, AgentKeysSeeded, OnlySeededKeysConnect
<1> QED
    BY <1>1, KeysStep, PTL DEF Spec

\* When no two rows share a prefix, the one row that Validate looks at is the
\* secret's own, if it has one.
LEMMA ExactLookup ==
    ASSUME Typed, UniquePrefix, NEW s \in Secrets
    PROVE  Validate(s) = s <=> keys[s] # NoRow /\ s \notin expired
<1> USE AccountsAssumption
<1> DEFINE found == {k \in Secrets : keys[k] # NoRow /\ Prefix[k] = Prefix[s]}
<1> DEFINE first == CHOOSE k \in found : TRUE
<1>1. found # {} => first \in found
    OBVIOUS
<1>2. CASE keys[s] # NoRow
  <2>1. s \in found /\ \A k \in found : k = s
      BY <1>2 DEF UniquePrefix
  <2>2. first = s
      BY <1>1, <2>1
  <2> QED
      BY <1>2, <2>1, <2>2 DEF Validate
<1>3. CASE keys[s] = NoRow
  <2>1. s \notin found
      BY <1>3
  <2>2. ~(found # {} /\ first = s)
      BY <1>1, <2>1
  <2> QED
      BY <1>3, <2>2 DEF Validate
<1> QED
    BY <1>2, <1>3

\* Store.Validate looks at the first row with the prefix only, and the prefix
\* has three random characters: the unique index alone makes the lookup exact,
\* for any assignment of prefixes to secrets.
THEOREM LookupExact == Spec => []ValidateIsExact
<1>1. KeysInv => ValidateIsExact
    BY ExactLookup DEF KeysInv, ValidateIsExact
<1> QED
    BY <1>1, KeysAlways, PTL

\* APIKeyAuth passes the key's own owner to ValidateAgentAccess; what connects
\* is nevertheless a key of the seed command.
THEOREM ConnectionsSeeded == Spec => []OnlySeededKeysConnect
<1>1. KeysInv => OnlySeededKeysConnect
    BY DEF KeysInv
<1> QED
    BY <1>1, KeysAlways, PTL

-----------------------------------------------------------------------------
(* The developer's status *)

ClaimsTyped ==
    /\ claims \in [Users -> SUBSET Profiles]
    /\ \A u \in Users : IsFiniteSet(claims[u])
    /\ asked \subseteq Users

\* Every profile in a row, or in a row a request has read, came with a token,
\* and so did the one a request is about to write.
ProfilesClaimed ==
    /\ \A u \in Users : users[u] # NoRow => users[u].profile \in claims[u]
    /\ \A r \in Reqs : req[r] \in Request =>
         /\ req[r].profile \in claims[req[r].user]
         /\ req[r].row # NoRow => req[r].row.profile \in claims[req[r].user]

\* A user who asked has a row, and the flag as long as all tokens agree.
Agree(u) == \A p, q \in claims[u] : p = q
StatusKept == \A u \in asked : users[u] # NoRow /\ (Agree(u) => users[u].dev = TRUE)

StatusInv == Typed /\ ClaimsTyped /\ ProfilesClaimed /\ StatusKept

\* A request that stops, or goes on with what it has read.
LEMMA ClaimsOfRequests ==
    ASSUME StatusInv, NEW r \in Reqs, UNCHANGED claims,
           \/ Finish(r)
           \/ \E pc \in PCs : req[r] \in Request /\ Step(r, pc)
    PROVE  \A q \in Reqs : req'[q] \in Request =>
             /\ req'[q].profile \in claims'[req'[q].user]
             /\ req'[q].row # NoRow => req'[q].row.profile \in claims'[req'[q].user]
<1>1. CASE Finish(r)
  <2>1. Idle \notin Request
      BY DEF Idle, Request, PCs, Ops
  <2> QED
      BY <1>1, <2>1 DEF Finish, StatusInv, ProfilesClaimed, Typed
<1>2. ASSUME NEW pc \in PCs, req[r] \in Request, Step(r, pc)
      PROVE  \A q \in Reqs : req'[q] \in Request =>
               /\ req'[q].profile \in claims'[req'[q].user]
               /\ req'[q].row # NoRow => req'[q].row.profile \in claims'[req'[q].user]
  <2> DEFINE new == [req[r] EXCEPT !.pc = pc]
  <2>1. /\ new.profile = req[r].profile /\ new.user = req[r].user /\ new.row = req[r].row
        /\ req' = [req EXCEPT ![r] = new]
      BY <1>2 DEF Step, Request
  <2> QED
      BY <1>2, <2>1 DEF StatusInv, ProfilesClaimed, Typed
<1> QED
    BY <1>1, <1>2

LEMMA StatusStep == ASSUME StatusInv, [Next]_vars PROVE StatusInv'
<1> USE AccountsAssumption
<1>0. Typed'
    BY TypedStep DEF StatusInv
<1>1. ASSUME NEW r \in Reqs, NEW u \in Users, NEW p \in Profiles, NEW op \in Ops,
             Authenticate(r, u, p, op)
      PROVE  StatusInv'
  <2> DEFINE new == [pc |-> "sync", op |-> op, user |-> u, profile |-> p,
                     row |-> users[u], key |-> NoRow]
  <2>1. /\ req' = [req EXCEPT ![r] = new] /\ UNCHANGED <<users, asked>>
        /\ claims' = [claims EXCEPT ![u] = @ \union {p}]
        /\ new.user = u /\ new.profile = p /\ new.row = users[u]
      BY <1>1 DEF Authenticate, rows
  <2>2. IsFiniteSet(claims[u] \union {p})
      BY FS_AddElement DEF StatusInv, ClaimsTyped
  <2>3. ClaimsTyped'
      BY <2>1, <2>2 DEF StatusInv, ClaimsTyped
  <2>4. \A v \in Users : claims[v] \subseteq claims'[v]
      BY <2>1 DEF StatusInv, ClaimsTyped
  <2>5. p \in claims'[u]
      BY <2>1 DEF StatusInv, ClaimsTyped
  <2>6. ProfilesClaimed'
    <3>1. \A q \in Reqs : req[q] \in Request => req[q].user \in Users
        BY DEF Request
    <3> QED
        BY <2>1, <2>4, <2>5, <3>1 DEF StatusInv, ProfilesClaimed, Typed
  <2>7. StatusKept'
      BY <2>1, <2>4 DEF StatusInv, ClaimsTyped, StatusKept, Agree
  <2> QED
      BY <1>0, <2>3, <2>6, <2>7 DEF StatusInv
<1>2. ASSUME NEW r \in Reqs, SyncFromJWT(r) PROVE StatusInv'
  <2> DEFINE u == req[r].user
             p == req[r].profile
             row == req[r].row
  <2>1. req[r] \in Request
      BY <1>2, UnderWay DEF SyncFromJWT, StatusInv
  <2>2. u \in Users /\ p \in Profiles /\ row \in UserRow \union {NoRow} /\ req[r].op \in PCs
      BY <2>1 DEF Request, PCs
  <2>3. UNCHANGED <<claims, asked>> /\ Step(r, req[r].op)
      BY <1>2 DEF SyncFromJWT, history
  <2>4. p \in claims[u] /\ (row # NoRow => row.profile \in claims[u])
      BY <2>1 DEF StatusInv, ProfilesClaimed
  <2>5. (\A v \in Users : users[v] # NoRow => users[v].profile \in claims[v])' /\ StatusKept'
    <3>1. CASE UNCHANGED users
        BY <2>3, <3>1 DEF StatusInv, ProfilesClaimed, StatusKept, Agree
    <3>2. CASE row = NoRow /\ ~Exists(u) /\ users' = [users EXCEPT ![u] = NewUser(p)]
      <4>1. u \notin asked
          BY <3>2 DEF Exists, StatusInv, StatusKept
      <4>2. NewUser(p).profile = p
          BY DEF NewUser
      <4> QED
          BY <2>2, <2>3, <2>4, <3>2, <4>1, <4>2
             DEF StatusInv, ProfilesClaimed, ClaimsTyped, StatusKept, Agree, Typed
    <3>3. CASE row # NoRow /\ NeedsSync(row, p) /\ users' = [users EXCEPT ![u] = [row EXCEPT !.profile = p]]
      <4> DEFINE new == [row EXCEPT !.profile = p]
      <4>1. new \in UserRow /\ new.profile = p /\ new # NoRow
          BY <2>2, <3>3 DEF UserRow
      <4>2. ~Agree(u)
          BY <2>4, <3>3 DEF NeedsSync, Agree
      <4> HIDE DEF new
      <4>3. users' = [users EXCEPT ![u] = new]
          BY <3>3 DEF new
      <4> QED
          BY <2>2, <2>3, <2>4, <4>1, <4>2, <4>3
             DEF StatusInv, ProfilesClaimed, ClaimsTyped, StatusKept, Agree, Typed
    <3> QED
        BY <1>2, <3>1, <3>2, <3>3 DEF SyncFromJWT
  <2> QED
      BY <1>0, <2>1, <2>2, <2>3, <2>5, ClaimsOfRequests DEF StatusInv, ClaimsTyped, ProfilesClaimed
<1>3. ASSUME NEW r \in Reqs, BecomeDeveloper(r) PROVE StatusInv'
  <2> DEFINE u == req[r].user
  <2>1. u \in Users /\ UNCHANGED claims /\ Finish(r)
      BY <1>3, UnderWay DEF BecomeDeveloper, Request, StatusInv
  <2>2. CASE Exists(u)
    <3> DEFINE new == [users[u] EXCEPT !.dev = TRUE]
    <3>1. new \in UserRow /\ new.profile = users[u].profile /\ new.dev = TRUE /\ new # NoRow
        BY <2>1, <2>2 DEF Exists, StatusInv, Typed, UserRow
    <3>2. users' = [users EXCEPT ![u] = new] /\ asked' = asked \union {u}
        BY <1>3, <2>2 DEF BecomeDeveloper, SetDeveloper
    <3> HIDE DEF new, u
    <3>3. ClaimsTyped'
        BY <2>1, <3>2 DEF StatusInv, ClaimsTyped
    <3>4. ProfilesClaimed'
      <4>1. \A v \in Users : users'[v] # NoRow => users'[v].profile \in claims'[v]
          BY <2>1, <2>2, <3>1, <3>2 DEF StatusInv, ProfilesClaimed, Typed, Exists
      <4> QED
          BY <2>1, <4>1, ClaimsOfRequests DEF ProfilesClaimed
    <3>5. StatusKept'
        BY <2>1, <3>1, <3>2 DEF StatusInv, StatusKept, Agree, ClaimsTyped, Typed
    <3> QED
        BY <1>0, <3>3, <3>4, <3>5 DEF StatusInv
  <2>3. CASE ~Exists(u)
    <3>1. UNCHANGED <<users, asked>>
        BY <1>3, <2>3 DEF BecomeDeveloper
    <3>2. ClaimsTyped' /\ StatusKept'
        BY <2>1, <3>1 DEF StatusInv, ClaimsTyped, StatusKept, Agree
    <3>3. ProfilesClaimed'
        BY <2>1, <3>1, ClaimsOfRequests DEF StatusInv, ProfilesClaimed
    <3> QED
        BY <1>0, <3>2, <3>3 DEF StatusInv
  <2> QED
      BY <2>2, <2>3
<1>4. ASSUME NEW r \in Reqs, UNCHANGED <<users, claims, asked>>,
             \/ Finish(r)
             \/ \E pc \in PCs : req[r] \in Request /\ Step(r, pc)
      PROVE  StatusInv'
    BY <1>0, <1>4, ClaimsOfRequests DEF StatusInv, ProfilesClaimed, ClaimsTyped, StatusKept, Agree
<1>5. ASSUME NEW r \in Reqs, Me(r) \/ Abort(r) PROVE StatusInv'
    BY <1>4, <1>5 DEF Me, Abort, rows, history
<1>6. ASSUME NEW r \in Reqs, CreateKey(r) \/ DeleteKey(r) PROVE StatusInv'
    BY <1>4, <1>6 DEF CreateKey, DeleteKey, Insert, rows, history
<1>7. ASSUME NEW r \in Reqs, RequireDeveloper(r) PROVE StatusInv'
  <2>1. req[r] \in Request
      BY <1>7, UnderWay DEF RequireDeveloper, StatusInv
  <2> QED
      BY <1>4, <1>7, <2>1 DEF RequireDeveloper, PCs, rows, history
<1>8. ASSUME NEW r \in Reqs, NEW s \in Secrets, GetKey(r, s) PROVE StatusInv'
  <2>1. req[r] \in Request
      BY <1>8, UnderWay DEF GetKey, StatusInv
  <2> DEFINE new == [req[r] EXCEPT !.pc = "delete", !.key = s]
  <2>2. new.profile = req[r].profile /\ new.user = req[r].user /\ new.row = req[r].row
      BY <2>1 DEF Request
  <2>3. req' = [req EXCEPT ![r] = new] /\ UNCHANGED <<users, claims, asked>>
      BY <1>8 DEF GetKey, rows, history
  <2> QED
      BY <1>0, <2>1, <2>2, <2>3
         DEF StatusInv, ProfilesClaimed, ClaimsTyped, StatusKept, Agree, Typed
<1>9. ASSUME UNCHANGED <<users, req, claims, asked>> PROVE StatusInv'
    BY <1>0, <1>9 DEF StatusInv, ProfilesClaimed, ClaimsTyped, StatusKept, Agree
<1>10. ASSUME NEW s \in Secrets, Expire(s) \/ Connect(s) PROVE StatusInv'
    BY <1>9, <1>10 DEF Expire, Connect, history
<1>11. ASSUME NEW a \in Agents, NEW s \in Secrets, SeedAPIKey(a, s) PROVE StatusInv'
    BY <1>9, <1>11 DEF SeedAPIKey, Insert
<1>12. CASE UNCHANGED vars
    BY <1>9, <1>12 DEF vars, rows, history
<1>13. ASSUME NEW a \in Agents, GetByOwner(a) PROVE StatusInv'
    BY <1>9, <1>13 DEF GetByOwner, rows, history
<1>14. ASSUME NEW u \in Users, NEW p \in Profiles, SeedUser(u, p) PROVE StatusInv'
  <2> DEFINE new == [profile |-> p, dev |-> TRUE]
  <2>1. new.profile = p /\ users' = [users EXCEPT ![u] = new] /\ UNCHANGED <<req, asked>>
        /\ claims' = [claims EXCEPT ![u] = @ \union {p}]
      BY <1>14 DEF SeedUser
  <2> HIDE DEF new
  <2>2. u \notin asked
      BY <1>14 DEF SeedUser, Exists, StatusInv, StatusKept
  <2>3. ClaimsTyped'
      BY <2>1, FS_AddElement DEF StatusInv, ClaimsTyped
  <2>4. ProfilesClaimed'
      BY <2>1 DEF StatusInv, ProfilesClaimed, ClaimsTyped, Typed
  <2>5. StatusKept'
      BY <2>1, <2>2 DEF StatusInv, StatusKept, Agree, ClaimsTyped, Typed
  <2> QED
      BY <1>0, <2>3, <2>4, <2>5 DEF StatusInv
<1> QED
    BY <1>1, <1>2, <1>3, <1>5, <1>6, <1>7, <1>8, <1>10, <1>11, <1>12, <1>13, <1>14 DEF Next

\* Every request writes back the whole row it has read, at any later time, and
\* so could undo BecomeDeveloper; that takes a token with another profile.
THEOREM StatusSafe == Spec => []StableClaimsKeepStatus
<1>1. Init => StatusInv
  <2>1. Idle \notin Request
      BY DEF Idle, Request, PCs, Ops
  <2>2. Init => ClaimsTyped
      BY FS_EmptySet DEF Init, ClaimsTyped
  <2>3. Init => ProfilesClaimed /\ StatusKept
      BY <2>1 DEF Init, ProfilesClaimed, StatusKept
  <2> QED
      BY <2>2, <2>3, TypedInit DEF StatusInv
<1>2. StatusInv => StableClaimsKeepStatus
  <2> SUFFICES ASSUME StatusInv, NEW u \in asked, Cardinality(claims[u]) = 1
               PROVE  users[u].dev
      BY DEF StableClaimsKeepStatus
  <2>1. \E x : claims[u] = {x}
      BY FS_Singleton DEF StatusInv, ClaimsTyped
  <2>2. Agree(u)
      BY <2>1 DEF Agree
  <2> QED
      BY <2>2 DEF StatusInv, StatusKept
<1> QED
    BY <1>1, <1>2, StatusStep, PTL DEF Spec

-----------------------------------------------------------------------------
(* HTTPService: the readiness probe *)

Places == {"idle", "checks", "lookup", "create", "allow", "done"}

ProbeTyped ==
    /\ at \in [Requests -> Places]
    /\ dependency \in [Components -> {"up", "half", "down"}]
    /\ components \in [Requests -> [Components -> Status \union {None}]]
    /\ answer \in [Requests -> {None, 200, 503}]
    /\ wasUp \in [Requests -> SUBSET Critical]
    /\ wasDown \in [Requests -> SUBSET Critical]

\* Between two requests nothing of the last one is left, and no answer is given
\* before the end.
Unanswered(r) ==
    /\ at[r] \in {"idle", "checks"} => answer[r] = None
    /\ at[r] = "idle" => components[r] = NoResults

\* While a probe runs its history has the present state of each critical
\* component, and so every state that a check has reported.
Witnessed(r) ==
    at[r] = "checks" =>
        \A c \in Critical :
            /\ dependency[c] = "up" => c \in wasUp[r]
            /\ dependency[c] = "down" => c \in wasDown[r]
            /\ components[r][c] \in {None, "healthy", "unhealthy"}
            /\ components[r][c] = "healthy" => c \in wasUp[r]
            /\ components[r][c] = "unhealthy" => c \in wasDown[r]

\* An answer agrees with the history.
Truthful(r) ==
    /\ answer[r] = 503 => wasDown[r] # {}
    /\ answer[r] = 200 => Critical \subseteq wasUp[r]

ProbeInv ==
    /\ ProbeTyped
    /\ \A c \in Critical : dependency[c] # "half"
    /\ \A r \in Requests : Unanswered(r) /\ Witnessed(r) /\ Truthful(r)

\* A check of the database or of Redis reports what it finds.
LEMMA CriticalCheck ==
  ASSUME ProbeTyped, NEW c \in Critical, dependency[c] # "half", NEW status \in Check(c)
  PROVE  \/ status = "healthy" /\ dependency[c] = "up"
         \/ status = "unhealthy" /\ dependency[c] = "down"
BY DEF ProbeTyped, Critical, Components, Check, CheckDatabase, CheckRedis, EvaluateDBStats

\* Every check reports a status.
LEMMA CheckTyped ==
  ASSUME ProbeTyped, NEW c \in Components, NEW status \in Check(c)
  PROVE  status \in Status
BY DEF ProbeTyped, Components, Status, Check, CheckDatabase, CheckRedis, CheckQdrant, CheckSTT,
   CheckTTS, EvaluateDBStats

\* The answer follows from the five results.
LEMMA ProbeResponds ==
  ASSUME ProbeInv, NEW r \in Requests, Respond(r)
  PROVE  ProbeInv'
<1> USE ServiceAssumption
<1>1. /\ at[r] = "checks" /\ at' = [at EXCEPT ![r] = "done"]
      /\ UNCHANGED <<dependency, components, wasUp, wasDown>>
      /\ \A c \in Critical : components[r][c] # None
  BY DEF Respond, Waited, Critical, Components
<1>2. PICK code \in {200, 503} :
        /\ answer' = [answer EXCEPT ![r] = code]
        /\ code = 503 <=> \E c \in Critical : components[r][c] = "unhealthy"
  <2>1. PICK overall : overall = ComputeOverallStatus(components[r])
    OBVIOUS
  <2>2. overall = "unhealthy" <=> \E c \in Critical : components[r][c] = "unhealthy"
    BY <2>1 DEF ComputeOverallStatus
  <2>3. answer' = [answer EXCEPT ![r] = IF overall = "unhealthy" THEN 503 ELSE 200]
    BY <2>1 DEF Respond
  <2>4. CASE overall = "unhealthy"
    BY <2>2, <2>3, <2>4
  <2>5. CASE overall # "unhealthy"
    BY <2>2, <2>3, <2>5
  <2> QED
    BY <2>4, <2>5
<1>3. ProbeTyped'
  BY <1>1, <1>2 DEF ProbeInv, ProbeTyped, Places
<1>4. Truthful(r)'
  <2>1. answer'[r] = code /\ Witnessed(r)
    BY <1>2 DEF ProbeInv, ProbeTyped
  <2>2. code = 503 => wasDown[r] # {}
    BY <1>1, <1>2, <2>1 DEF Witnessed
  <2>3. code = 200 => Critical \subseteq wasUp[r]
    BY <1>1, <1>2, <2>1 DEF Witnessed
  <2> QED
    BY <1>1, <2>1, <2>2, <2>3 DEF Truthful
<1>5. ASSUME NEW s \in Requests PROVE Unanswered(s)' /\ Witnessed(s)' /\ Truthful(s)'
  <2>1. CASE s = r
    <3>1. at'[r] = "done"
      BY <1>1 DEF ProbeInv, ProbeTyped
    <3> QED
      BY <1>4, <2>1, <3>1 DEF Unanswered, Witnessed
  <2>2. CASE s # r
    <3>1. at'[s] = at[s] /\ answer'[s] = answer[s]
      BY <1>1, <1>2, <2>2 DEF ProbeInv, ProbeTyped
    <3> QED
      BY <1>1, <3>1 DEF ProbeInv, Unanswered, Witnessed, Truthful
  <2> QED
    BY <2>1, <2>2
<1> QED
  BY <1>1, <1>3, <1>5 DEF ProbeInv

LEMMA ProbeStep == ProbeInv /\ [HTTPNext]_httpVars => ProbeInv'
<1> SUFFICES ASSUME ProbeInv, [HTTPNext]_httpVars PROVE ProbeInv'
  OBVIOUS
<1> USE ServiceAssumption DEF ProbeTyped, Places
<1>1. ASSUME NEW r \in Requests, Readiness(r) PROVE ProbeInv'
  <2>1. /\ at[r] = "idle" /\ at' = [at EXCEPT ![r] = "checks"]
        /\ wasUp' = [wasUp EXCEPT ![r] = Critical \ Down]
        /\ wasDown' = [wasDown EXCEPT ![r] = Down]
        /\ UNCHANGED <<dependency, components, answer>>
    BY <1>1 DEF Readiness, MetricsMiddleware
  <2>2. ProbeTyped'
    BY <2>1 DEF ProbeInv, Down
  <2>3. ASSUME NEW s \in Requests PROVE Unanswered(s)' /\ Witnessed(s)' /\ Truthful(s)'
    <3>1. CASE s = r
      <4>1. /\ at'[r] = "checks" /\ wasUp'[r] = Critical \ Down /\ wasDown'[r] = Down
            /\ answer'[r] = None /\ components'[r] = NoResults
        BY <2>1 DEF ProbeInv, Unanswered
      <4>2. \A c \in Critical : NoResults[c] = None
        BY DEF NoResults, Critical, Components
      <4> QED
        BY <2>1, <3>1, <4>1, <4>2 DEF ProbeInv, Unanswered, Witnessed, Truthful, Down, Status
    <3>2. CASE s # r
      BY <2>1, <3>2 DEF ProbeInv, Unanswered, Witnessed, Truthful
    <3> QED
      BY <3>1, <3>2
  <2> QED
    BY <2>1, <2>2, <2>3 DEF ProbeInv
<1>2. ASSUME NEW r \in Requests, NEW c \in Components, CheckDone(r, c) PROVE ProbeInv'
  <2>1. PICK status \in Check(c) : components' = [components EXCEPT ![r][c] = status]
    BY <1>2 DEF CheckDone
  <2>2. at[r] = "checks" /\ UNCHANGED <<at, dependency, answer, wasUp, wasDown>>
    BY <1>2 DEF CheckDone
  <2>3. status \in Status
    BY CheckTyped DEF ProbeInv
  <2>4. components' \in [Requests -> [Components -> Status \union {None}]]
    BY <2>1, <2>3 DEF ProbeInv
  <2>5. ASSUME NEW s \in Requests PROVE Unanswered(s)' /\ Witnessed(s)' /\ Truthful(s)'
    <3>1. CASE s = r
      <4>1. ASSUME NEW d \in Critical
            PROVE  /\ components'[r][d] \in {None, "healthy", "unhealthy"}
                   /\ components'[r][d] = "healthy" => d \in wasUp[r]
                   /\ components'[r][d] = "unhealthy" => d \in wasDown[r]
        <5>1. d \in Components
          BY DEF Critical, Components
        <5>2. CASE d = c
          <6>1. components'[r][d] = status
            BY <2>1, <5>1, <5>2 DEF ProbeInv
          <6>2. dependency[d] # "half"
            BY DEF ProbeInv
          <6>3. \/ status = "healthy" /\ dependency[d] = "up"
                \/ status = "unhealthy" /\ dependency[d] = "down"
            BY <5>2, <6>2, CriticalCheck DEF ProbeInv
          <6> QED
            BY <2>2, <6>1, <6>3 DEF ProbeInv, Witnessed
        <5>3. CASE d # c
          <6>1. components'[r][d] = components[r][d]
            BY <2>1, <5>1, <5>3 DEF ProbeInv
          <6> QED
            BY <2>2, <6>1 DEF ProbeInv, Witnessed
        <5> QED
          BY <5>2, <5>3
      <4> QED
        BY <2>2, <3>1, <4>1 DEF ProbeInv, Unanswered, Witnessed, Truthful
    <3>2. CASE s # r
      <4>1. components'[s] = components[s]
        BY <2>1, <3>2 DEF ProbeInv
      <4> QED
        BY <2>2, <4>1 DEF ProbeInv, Unanswered, Witnessed, Truthful
    <3> QED
      BY <3>1, <3>2
  <2> QED
    BY <2>2, <2>4, <2>5 DEF ProbeInv
<1>3. ASSUME NEW r \in Requests, DecrementConnections(r) PROVE ProbeInv'
  <2>1. /\ at' = [at EXCEPT ![r] = "idle"] /\ answer' = [answer EXCEPT ![r] = None]
        /\ components' = [components EXCEPT ![r] = NoResults]
        /\ wasUp' = [wasUp EXCEPT ![r] = {}] /\ wasDown' = [wasDown EXCEPT ![r] = {}]
        /\ UNCHANGED dependency
    BY <1>3 DEF DecrementConnections
  <2>2. ProbeTyped'
    BY <2>1 DEF ProbeInv, NoResults
  <2>3. ASSUME NEW s \in Requests PROVE Unanswered(s)' /\ Witnessed(s)' /\ Truthful(s)'
    BY <2>1 DEF ProbeInv, Unanswered, Witnessed, Truthful
  <2> QED
    BY <2>1, <2>2, <2>3 DEF ProbeInv
<1>4. ASSUME NEW c \in Components, NEW state \in {"up", "half", "down"}, DependencyChanges(c, state)
      PROVE  ProbeInv'
  <2>1. /\ dependency' = [dependency EXCEPT ![c] = state] /\ (state = "half" => c = "tts")
        /\ UNCHANGED <<at, components, answer>>
    BY <1>4 DEF DependencyChanges
  <2>2. /\ wasUp' = [r \in Requests |-> IF at[r] = "checks" /\ state = "up" /\ c \in Critical
                                        THEN wasUp[r] \union {c} ELSE wasUp[r]]
        /\ wasDown' = [r \in Requests |-> IF at[r] = "checks" /\ state = "down" /\ c \in Critical
                                          THEN wasDown[r] \union {c} ELSE wasDown[r]]
    BY <1>4 DEF DependencyChanges
  <2>3. ProbeTyped' /\ \A d \in Critical : dependency'[d] # "half"
    BY <2>1, <2>2 DEF ProbeInv, Critical, Components
  <2>4. ASSUME NEW s \in Requests PROVE Unanswered(s)' /\ Witnessed(s)' /\ Truthful(s)'
    <3>1. /\ wasUp[s] \subseteq wasUp'[s] /\ wasDown[s] \subseteq wasDown'[s]
          /\ at[s] = "checks" /\ c \in Critical => /\ state = "up" => c \in wasUp'[s]
                                                   /\ state = "down" => c \in wasDown'[s]
      BY <2>2
    <3>2. Witnessed(s)'
      <4> SUFFICES ASSUME at[s] = "checks", NEW d \in Critical
                   PROVE  /\ dependency'[d] = "up" => d \in wasUp'[s]
                          /\ dependency'[d] = "down" => d \in wasDown'[s]
                          /\ components[s][d] \in {None, "healthy", "unhealthy"}
                          /\ components[s][d] = "healthy" => d \in wasUp'[s]
                          /\ components[s][d] = "unhealthy" => d \in wasDown'[s]
        BY <2>1 DEF Witnessed
      <4>1. d = c \/ dependency'[d] = dependency[d]
        BY <2>1 DEF ProbeInv
      <4>2. dependency'[c] = state
        BY <2>1 DEF ProbeInv
      <4> QED
        BY <3>1, <4>1, <4>2 DEF ProbeInv, Witnessed
    <3> QED
      BY <2>1, <3>1, <3>2 DEF ProbeInv, Unanswered, Truthful
  <2> QED
    BY <2>3, <2>4 DEF ProbeInv
<1>5. ASSUME NEW r \in Requests, RateLimiter(r) \/ GetLimiter(r) \/ MakeLimiter(r) \/ Allow(r)
      PROVE  ProbeInv'
  <2>1. UNCHANGED <<dependency, components, answer, wasUp, wasDown>>
    BY <1>5 DEF RateLimiter, GetLimiter, MakeLimiter, Allow, MetricsMiddleware, probeVars
  <2>2. \E there \in {"lookup", "create", "allow", "done"} : at' = [at EXCEPT ![r] = there]
    BY <1>5 DEF RateLimiter, GetLimiter, MakeLimiter, Allow, MetricsMiddleware
  <2> QED
    BY <2>1, <2>2 DEF ProbeInv, Unanswered, Witnessed, Truthful
<1>6. CASE UNCHANGED <<at, dependency, components, answer, wasUp, wasDown>>
  BY <1>6 DEF ProbeInv, Unanswered, Witnessed, Truthful
<1>7. CASE (\E l \in Limiters : Refill(l)) \/ CleanupLoop \/ UNCHANGED httpVars
  BY <1>6, <1>7 DEF Refill, CleanupLoop, probeVars, httpVars
<1> QED
  BY <1>1, <1>2, <1>3, <1>4, <1>5, <1>7, ProbeResponds DEF HTTPNext, RequestStep

\* In whatever order the five goroutines finish and whatever changes meanwhile,
\* for any number of probes at once: 503 means that the database or Redis was
\* down during the probe, and 200 that each was up at some moment of it.
THEOREM ProbesTellTheTruth == HTTPSpec => []ProbeIsTruthful
<1>1. HTTPInit => ProbeInv
  BY ServiceAssumption DEF HTTPInit, ProbeInv, ProbeTyped, Places, NoResults, Critical, Components,
     Unanswered, Witnessed, Truthful
<1>2. ProbeInv => ProbeIsTruthful
  BY DEF ProbeInv, Truthful, ProbeIsTruthful
<1> QED
  BY <1>1, <1>2, ProbeStep, PTL DEF HTTPSpec

-----------------------------------------------------------------------------
(* HTTPService: the rate limiter *)

\* The requests that have no limiter yet, when they stand where a says.
Unserved(a) == {r \in Requests : a[r] \in {"lookup", "create"}}

\* What a request at this place adds to their number.
Needs(place) == IF place \in {"lookup", "create"} THEN 1 ELSE 0

\* A request goes from a to b.
Moves(r, a, place, b) ==
    a \in [Requests -> Places] /\ place \in Places /\ b = [a EXCEPT ![r] = place]

\* The tokens that the first n limiters have left, one by one.
LeftOf(n, t) == {p \in (1 .. n) \X (1 .. Burst) : p[2] <= t[p[1]]}

LimiterTyped ==
    /\ at \in [Requests -> Places]
    /\ total \in 0 .. MaxArrivals
    /\ made \in Nat /\ ticks \in Nat /\ refills \in Nat /\ admitted \in Nat
    /\ tokens \in [Limiters -> 0 .. Burst]
    /\ held \in [Requests -> (1 .. made) \union {None}]
    /\ limiters \in (1 .. made) \union {None}

\* A request makes one limiter at most, so that none is made beyond the last.
Numbered == made + Cardinality(Unserved(at)) <= total

\* A limiter is made for an empty table only, and only a clean-up empties it.
OnePerPeriod == made + (IF limiters = None THEN 1 ELSE 0) <= 1 + ticks

\* Every token a limiter was made with or was given is left or has been taken.
TokensAccounted ==
    /\ \A l \in Limiters : l > made => tokens[l] = Burst
    /\ admitted + Cardinality(LeftOf(made, tokens)) = Burst * made + refills

LimiterInv ==
    /\ LimiterTyped
    /\ Numbered
    /\ OnePerPeriod
    /\ \A r \in Requests : at[r] = "allow" => held[r] # None
    /\ TokensAccounted

\* A move of one request adds it to the unserved ones or takes it from them.
LEMMA UnservedMoves ==
  ASSUME NEW r \in Requests, NEW a, NEW place, NEW b, Moves(r, a, place, b)
  PROVE  /\ Cardinality(Unserved(a)) \in Nat /\ Cardinality(Unserved(b)) \in Nat
         /\ Cardinality(Unserved(b)) =
              Cardinality(Unserved(a)) - Needs(a[r]) + Needs(place)
<1> USE DEF Moves
<1>1. /\ IsFiniteSet(Unserved(a)) /\ Cardinality(Unserved(a)) \in Nat
      /\ Cardinality(Unserved(b)) \in Nat
  BY ServiceAssumption, FS_Subset, FS_CardinalityType DEF Unserved
<1>2. PICK rest : rest = Unserved(a) \ {r}
  OBVIOUS
<1>3. /\ IsFiniteSet(rest)
      /\ Cardinality(rest) = Cardinality(Unserved(a)) - Needs(a[r])
  <2>1. /\ IsFiniteSet(rest)
        /\ Cardinality(rest) = IF r \in Unserved(a) THEN Cardinality(Unserved(a)) - 1
                               ELSE Cardinality(Unserved(a))
    BY <1>1, <1>2, FS_RemoveElement
  <2>2. r \in Unserved(a) <=> a[r] \in {"lookup", "create"}
    BY DEF Unserved
  <2> QED
    BY <1>1, <2>1, <2>2 DEF Needs
<1>4. r \notin rest
  BY <1>2
<1>5. CASE place \in {"lookup", "create"}
  <2>1. Unserved(b) = rest \union {r}
    BY <1>2, <1>5 DEF Unserved
  <2>2. Cardinality(Unserved(b)) = Cardinality(rest) + 1
    BY <1>3, <1>4, <2>1, FS_AddElement
  <2> QED
    BY <1>1, <1>3, <1>5, <2>2 DEF Needs
<1>6. CASE place \notin {"lookup", "create"}
  <2>1. Unserved(b) = rest
    BY <1>2, <1>6 DEF Unserved
  <2> QED
    BY <1>1, <1>3, <1>6, <2>1 DEF Needs
<1> QED
  BY <1>5, <1>6

LEMMA LeftOfFinite ==
  ASSUME NEW n \in Nat, NEW t
  PROVE  IsFiniteSet(LeftOf(n, t)) /\ Cardinality(LeftOf(n, t)) \in Nat
<1>1. IsFiniteSet(1 .. n) /\ IsFiniteSet(1 .. Burst)
  <2>1. 1 \in Int /\ n \in Int /\ Burst \in Int
    BY ServiceAssumption
  <2> QED
    BY <2>1, FS_Interval, Zenon
<1>2. IsFiniteSet((1 .. n) \X (1 .. Burst))
  BY <1>1, FS_Product, Zenon
<1> QED
  BY <1>2, FS_Subset, FS_CardinalityType DEF LeftOf

\* Taking a token leaves one less.
LEMMA TokenTaken ==
  ASSUME NEW n \in 0 .. MaxArrivals, NEW t \in [Limiters -> 0 .. Burst], NEW l \in 1 .. n, t[l] > 0,
         NEW u, u = [t EXCEPT ![l] = @ - 1]
  PROVE  Cardinality(LeftOf(n, u)) = Cardinality(LeftOf(n, t)) - 1
<1> USE ServiceAssumption DEF Limiters
<1>1. LeftOf(n, u) = LeftOf(n, t) \ {<<l, t[l]>>}
  <2>1. ASSUME NEW p \in (1 .. n) \X (1 .. Burst)
        PROVE  p[2] <= u[p[1]] <=> p[2] <= t[p[1]] /\ p # <<l, t[l]>>
    <3>1. CASE p[1] = l
      BY <3>1
    <3>2. CASE p[1] # l
      BY <3>2
    <3> QED
      BY <3>1, <3>2
  <2> QED
    BY <2>1 DEF LeftOf
<1>2. <<l, t[l]>> \in LeftOf(n, t)
  BY DEF LeftOf
<1>3. IsFiniteSet(LeftOf(n, t)) /\ Cardinality(LeftOf(n, t)) \in Nat
  BY LeftOfFinite
<1>4. Cardinality(LeftOf(n, t) \ {<<l, t[l]>>}) = Cardinality(LeftOf(n, t)) - 1
  <2> HIDE ServiceAssumption DEF Limiters
  <2> QED
    BY <1>2, <1>3, FS_RemoveElement, Zenon
<1> QED
  BY <1>1, <1>4

\* Giving one back leaves one more.
LEMMA TokenGiven ==
  ASSUME NEW n \in 0 .. MaxArrivals, NEW t \in [Limiters -> 0 .. Burst], NEW l \in 1 .. n,
         t[l] < Burst, NEW u, u = [t EXCEPT ![l] = @ + 1]
  PROVE  Cardinality(LeftOf(n, u)) = Cardinality(LeftOf(n, t)) + 1
<1> USE ServiceAssumption DEF Limiters
<1>1. LeftOf(n, u) = LeftOf(n, t) \union {<<l, t[l] + 1>>}
  <2>1. ASSUME NEW p \in (1 .. n) \X (1 .. Burst)
        PROVE  p[2] <= u[p[1]] <=> p[2] <= t[p[1]] \/ p = <<l, t[l] + 1>>
    <3>1. CASE p[1] = l
      BY <3>1
    <3>2. CASE p[1] # l
      BY <3>2
    <3> QED
      BY <3>1, <3>2
  <2>2. <<l, t[l] + 1>> \in (1 .. n) \X (1 .. Burst)
    OBVIOUS
  <2> QED
    BY <2>1, <2>2 DEF LeftOf
<1>2. <<l, t[l] + 1>> \notin LeftOf(n, t)
  BY DEF LeftOf
<1>3. IsFiniteSet(LeftOf(n, t)) /\ Cardinality(LeftOf(n, t)) \in Nat
  BY LeftOfFinite
<1> QED
  BY <1>1, <1>2, <1>3, FS_AddElement

\* A new limiter comes with a burst of them.
LEMMA BurstAdded ==
  ASSUME NEW n \in Nat, n + 1 <= MaxArrivals, NEW t \in [Limiters -> 0 .. Burst], t[n + 1] = Burst
  PROVE  Cardinality(LeftOf(n + 1, t)) = Cardinality(LeftOf(n, t)) + Burst
<1> USE ServiceAssumption DEF Limiters
<1>1. PICK full : full = {n + 1} \X (1 .. Burst)
  OBVIOUS
<1>2. IsFiniteSet(full) /\ Cardinality(full) = Burst
  <2>1. IsFiniteSet({n + 1}) /\ Cardinality({n + 1}) = 1
    BY FS_Singleton
  <2>2. IsFiniteSet(1 .. Burst) /\ Cardinality(1 .. Burst) = Burst
    BY FS_Interval
  <2>3. /\ IsFiniteSet({n + 1} \X (1 .. Burst))
        /\ Cardinality({n + 1} \X (1 .. Burst)) = Cardinality({n + 1}) * Cardinality(1 .. Burst)
    <3> HIDE ServiceAssumption DEF Limiters
    <3> QED
      BY <2>1, <2>2, FS_Product, Zenon
  <2> QED
    BY <1>1, <2>1, <2>2, <2>3
<1>3. LeftOf(n + 1, t) = LeftOf(n, t) \union full
  <2>1. ASSUME NEW p \in LeftOf(n + 1, t) PROVE p \in LeftOf(n, t) \union full
    BY <1>1 DEF LeftOf
  <2>2. ASSUME NEW p \in LeftOf(n, t) PROVE p \in LeftOf(n + 1, t)
    BY DEF LeftOf
  <2>3. ASSUME NEW p \in full PROVE p \in LeftOf(n + 1, t)
    BY <1>1 DEF LeftOf
  <2> QED
    BY <2>1, <2>2, <2>3
<1>4. LeftOf(n, t) \intersect full = {}
  BY <1>1 DEF LeftOf
<1>5. Cardinality(LeftOf(n + 1, t)) = Cardinality(LeftOf(n, t)) + Cardinality(full) - Cardinality({})
  BY <1>2, <1>3, <1>4, LeftOfFinite, FS_Union
<1> QED
  BY <1>2, <1>5, LeftOfFinite, FS_EmptySet

\* A request that moves without touching the limiters, whether it is a new one
\* or one that needs no limiter any more.
LEMMA LimiterMoves ==
  ASSUME LimiterInv, NEW r \in Requests, NEW place \in Places \ {"allow"},
         at' = [at EXCEPT ![r] = place], total' \in 0 .. MaxArrivals,
         total' = total + Needs(place) \/ total' = total + 1,
         held' = held \/ held' = [held EXCEPT ![r] = None],
         UNCHANGED <<limiters, made, tokens, ticks, refills, admitted>>
  PROVE  LimiterInv'
<1> USE ServiceAssumption DEF LimiterInv
<1>1. LimiterTyped'
  <2>1. at' \in [Requests -> Places]
    BY DEF LimiterTyped
  <2>2. held' \in [Requests -> (1 .. made) \union {None}]
    BY DEF LimiterTyped
  <2> QED
    BY <2>1, <2>2 DEF LimiterTyped
<1>2. Numbered'
  <2>1. PICK a, b, before, after :
          /\ a = at /\ b = at'
          /\ before = Cardinality(Unserved(a)) /\ after = Cardinality(Unserved(b))
    OBVIOUS
  <2>2. /\ before \in Nat /\ after \in Nat
        /\ after <= before + Needs(place)
    <3>1. Moves(r, a, place, b)
      BY <2>1 DEF LimiterTyped, Places, Moves
    <3>2. /\ Cardinality(Unserved(a)) \in Nat /\ Cardinality(Unserved(b)) \in Nat
           /\ Cardinality(Unserved(b)) =
                Cardinality(Unserved(a)) - Needs(a[r]) + Needs(place)
      BY <3>1, UnservedMoves
    <3> QED
      BY <2>1, <3>1, <3>2 DEF Needs
  <2>3. Numbered' <=> made' + after <= total'
    BY <2>1 DEF Numbered
  <2>4. made + before <= total
    BY <2>1 DEF Numbered
  <2> QED
    BY <2>2, <2>3, <2>4 DEF LimiterTyped, Needs
<1>3. OnePerPeriod' /\ TokensAccounted'
  BY DEF OnePerPeriod, TokensAccounted
<1>4. ASSUME NEW s \in Requests, at'[s] = "allow" PROVE held'[s] # None
  <2>1. s # r /\ at[s] = "allow"
    BY <1>4 DEF LimiterTyped, Places
  <2> QED
    BY <2>1 DEF LimiterTyped
<1> QED
  BY <1>1, <1>2, <1>3, <1>4

\* getLimiter under the read lock.
LEMMA LimiterLookedUp ==
  ASSUME LimiterInv, NEW r \in Requests, GetLimiter(r)
  PROVE  LimiterInv'
<1> USE ServiceAssumption DEF LimiterInv
<1>1. PICK place \in {"create", "allow"} :
        at' = [at EXCEPT ![r] = place] /\ (place = "allow" => limiters # None)
  BY DEF GetLimiter
<1>2. /\ at[r] = "lookup" /\ held' = [held EXCEPT ![r] = limiters]
      /\ UNCHANGED <<total, limiters, made, tokens, ticks, refills, admitted>>
  BY DEF GetLimiter
<1>3. LimiterTyped'
  BY <1>1, <1>2 DEF LimiterTyped, Places
<1>4. Numbered'
  <2>1. PICK a, b, before, after :
          /\ a = at /\ b = at'
          /\ before = Cardinality(Unserved(a)) /\ after = Cardinality(Unserved(b))
    OBVIOUS
  <2>2. before \in Nat /\ after \in Nat /\ after <= before
    <3>1. Moves(r, a, place, b) /\ a[r] = "lookup"
      BY <1>1, <1>2, <2>1 DEF LimiterTyped, Places, Moves
    <3>2. /\ Cardinality(Unserved(a)) \in Nat /\ Cardinality(Unserved(b)) \in Nat
           /\ Cardinality(Unserved(b)) =
                Cardinality(Unserved(a)) - Needs(a[r]) + Needs(place)
      BY <3>1, UnservedMoves, Zenon
    <3> QED
      BY <2>1, <3>1, <3>2 DEF Needs
  <2>3. Numbered' <=> made + after <= total
    BY <1>2, <2>1 DEF Numbered
  <2>4. made + before <= total
    BY <2>1 DEF Numbered
  <2> QED
    BY <2>2, <2>3, <2>4 DEF LimiterTyped
<1>5. OnePerPeriod' /\ TokensAccounted'
  BY <1>2 DEF OnePerPeriod, TokensAccounted
<1>6. ASSUME NEW s \in Requests, at'[s] = "allow" PROVE held'[s] # None
  BY <1>1, <1>2, <1>6 DEF LimiterTyped
<1> QED
  BY <1>3, <1>4, <1>5, <1>6

\* getLimiter under the write lock: the second look keeps the limiters to one
\* for each period.
LEMMA LimiterMade ==
  ASSUME LimiterInv, NEW r \in Requests, MakeLimiter(r)
  PROVE  LimiterInv'
<1> USE ServiceAssumption DEF LimiterInv
<1>1. /\ at[r] = "create" /\ at' = [at EXCEPT ![r] = "allow"]
      /\ held' = [held EXCEPT ![r] = limiters']
      /\ UNCHANGED <<total, tokens, ticks, refills, admitted>>
  BY DEF MakeLimiter
<1>2. PICK a, b, before, after :
        /\ a = at /\ b = at'
        /\ before = Cardinality(Unserved(a)) /\ after = Cardinality(Unserved(b))
  OBVIOUS
<1>3. before \in Nat /\ after \in Nat /\ after = before - 1 /\ "allow" \in Places
  <2>1. Moves(r, a, "allow", b) /\ a[r] = "create"
    BY <1>1, <1>2 DEF LimiterTyped, Places, Moves
  <2>2. /\ Cardinality(Unserved(a)) \in Nat /\ Cardinality(Unserved(b)) \in Nat
         /\ Cardinality(Unserved(b)) =
              Cardinality(Unserved(a)) - Needs(a[r]) + Needs("allow")
    BY <2>1, UnservedMoves, Zenon
  <2> QED
    BY <1>2, <2>1, <2>2 DEF Needs, Places
<1>4. made + before <= total
  BY <1>2 DEF Numbered
<1>5. Numbered' <=> made' + after <= total
  BY <1>1, <1>2 DEF Numbered
<1>6. CASE limiters = None
  <2>1. made' = made + 1 /\ limiters' = made + 1
    BY <1>6 DEF MakeLimiter, StillMissing
  <2>2. Numbered'
    BY <1>3, <1>4, <1>5, <2>1 DEF LimiterTyped
  <2>3. made + 1 \in Limiters
    BY <1>3, <1>4 DEF LimiterTyped, Limiters
  <2>4. limiters' # None
    BY <2>1, <2>3
  <2>5. LimiterTyped'
    <3>1. held' \in [Requests -> (1 .. made + 1) \union {None}]
      BY <1>1, <2>1 DEF LimiterTyped
    <3> QED
      BY <1>1, <1>3, <2>1, <3>1 DEF LimiterTyped
  <2>6. OnePerPeriod'
    BY <1>1, <1>6, <2>1, <2>4 DEF OnePerPeriod, LimiterTyped
  <2>7. TokensAccounted'
    <3>1. PICK left, leftThen : /\ left = Cardinality(LeftOf(made, tokens))
                                /\ leftThen = Cardinality(LeftOf(made + 1, tokens))
      OBVIOUS
    <3>2. tokens[made + 1] = Burst
      BY <2>3 DEF TokensAccounted, LimiterTyped
    <3>3. leftThen = left + Burst /\ left \in Nat
      BY <2>3, <3>1, <3>2, BurstAdded, LeftOfFinite DEF LimiterTyped, Limiters
    <3>4. admitted + left = Burst * made + refills
      BY <3>1 DEF TokensAccounted
    <3>5. Burst * (made + 1) = Burst * made + Burst /\ Burst * made \in Nat
      BY DEF LimiterTyped
    <3>6. admitted + leftThen = Burst * (made + 1) + refills
      BY <3>3, <3>4, <3>5 DEF LimiterTyped
    <3>7. \A l \in Limiters : l > made + 1 => tokens[l] = Burst
      BY DEF TokensAccounted, LimiterTyped, Limiters
    <3> QED
      BY <1>1, <2>1, <3>1, <3>6, <3>7 DEF TokensAccounted
  <2>8. ASSUME NEW s \in Requests, at'[s] = "allow" PROVE held'[s] # None
    BY <1>1, <2>4, <2>8 DEF LimiterTyped
  <2> QED
    BY <2>2, <2>5, <2>6, <2>7, <2>8
<1>7. CASE limiters # None
  <2>1. UNCHANGED <<made, limiters>>
    BY <1>7 DEF MakeLimiter, StillMissing
  <2>2. LimiterTyped'
    BY <1>1, <1>3, <2>1 DEF LimiterTyped
  <2>3. Numbered'
    BY <1>3, <1>4, <1>5, <2>1 DEF LimiterTyped
  <2>4. OnePerPeriod' /\ TokensAccounted'
    BY <1>1, <2>1 DEF OnePerPeriod, TokensAccounted
  <2>5. ASSUME NEW s \in Requests, at'[s] = "allow" PROVE held'[s] # None
    BY <1>1, <1>7, <2>1, <2>5 DEF LimiterTyped
  <2> QED
    BY <2>2, <2>3, <2>4, <2>5
<1> QED
  BY <1>6, <1>7

\* No limiter is numbered beyond the last.
LEMMA MadeBounded ==
  ASSUME LimiterInv
  PROVE  made \in 0 .. MaxArrivals
<1>1. PICK before : before = Cardinality(Unserved(at))
  OBVIOUS
<1>2. before \in Nat
  BY <1>1, ServiceAssumption, FS_Subset, FS_CardinalityType DEF Unserved
<1> QED
  BY <1>1, <1>2, ServiceAssumption DEF LimiterInv, LimiterTyped, Numbered

\* Allow takes a token of the limiter the request holds, even if a clean-up has
\* forgotten that limiter since.
LEMMA EventAllowed ==
  ASSUME LimiterInv, NEW r \in Requests, Allow(r)
  PROVE  LimiterInv'
<1> USE ServiceAssumption DEF LimiterInv
<1>1. /\ at[r] = "allow" /\ at' = [at EXCEPT ![r] = "done"]
      /\ UNCHANGED <<total, limiters, made, held, ticks, refills>>
  BY DEF Allow
<1>2. "done" \in Places \ {"allow"}
  BY DEF Places
<1>3. CASE UNCHANGED <<tokens, admitted>>
  <2>1. total' = total + Needs("done") /\ total' \in 0 .. MaxArrivals
    BY <1>1 DEF LimiterTyped, Needs
  <2> QED
    BY <1>1, <1>2, <1>3, <2>1, LimiterMoves
<1>4. CASE tokens[held[r]] > 0
  <2>1. PICK l : l = held[r]
    OBVIOUS
  <2>2. l \in 1 .. made /\ made \in 0 .. MaxArrivals /\ l \in Limiters
    BY <1>1, <2>1, MadeBounded DEF LimiterTyped, Limiters
  <2>3. tokens[l] > 0 /\ tokens' = [tokens EXCEPT ![l] = @ - 1] /\ admitted' = admitted + 1
    BY <1>4, <2>1 DEF Allow
  <2>4. LimiterTyped'
    <3>1. at' \in [Requests -> Places]
      BY <1>1, <1>2 DEF LimiterTyped
    <3>2. tokens' \in [Limiters -> 0 .. Burst]
      BY <2>2, <2>3 DEF LimiterTyped
    <3> QED
      BY <1>1, <2>3, <3>1, <3>2 DEF LimiterTyped
  <2>5. Numbered'
    <3>1. PICK a, b, before, after :
            /\ a = at /\ b = at'
            /\ before = Cardinality(Unserved(a)) /\ after = Cardinality(Unserved(b))
      OBVIOUS
    <3>2. before \in Nat /\ after = before
      <4>1. Moves(r, a, "done", b) /\ a[r] = "allow"
        BY <1>1, <3>1 DEF LimiterTyped, Places, Moves
      <4>2. /\ Cardinality(Unserved(a)) \in Nat /\ Cardinality(Unserved(b)) \in Nat
             /\ Cardinality(Unserved(b)) =
                  Cardinality(Unserved(a)) - Needs(a[r]) + Needs("done")
        BY <4>1, UnservedMoves, Zenon
      <4> QED
        BY <3>1, <4>1, <4>2 DEF Needs
    <3> QED
      BY <1>1, <3>1, <3>2 DEF Numbered
  <2>6. OnePerPeriod'
    BY <1>1 DEF OnePerPeriod
  <2>7. TokensAccounted'
    <3>1. PICK t, u, left, leftThen :
            /\ t = tokens /\ u = tokens'
            /\ left = Cardinality(LeftOf(made, t)) /\ leftThen = Cardinality(LeftOf(made, u))
      OBVIOUS
    <3>2. leftThen = left - 1 /\ left \in Nat
      <4>1. t \in [Limiters -> 0 .. Burst] /\ t[l] > 0 /\ u = [t EXCEPT ![l] = @ - 1] /\ made \in Nat
        BY <2>3, <3>1 DEF LimiterTyped
      <4> QED
        <5>1. Cardinality(LeftOf(made, u)) = Cardinality(LeftOf(made, t)) - 1
          BY <2>2, <4>1, TokenTaken, Zenon
        <5>2. Cardinality(LeftOf(made, t)) \in Nat
          BY <4>1, LeftOfFinite, Zenon
        <5> QED
          BY <3>1, <5>1, <5>2
    <3>3. admitted + left = Burst * made + refills
      BY <3>1 DEF TokensAccounted
    <3>4. admitted' + leftThen = Burst * made + refills
      BY <2>3, <3>2, <3>3 DEF LimiterTyped
    <3>5. \A m \in Limiters : m > made => tokens'[m] = Burst
      BY <2>2, <2>3 DEF TokensAccounted, LimiterTyped
    <3> QED
      BY <1>1, <3>1, <3>4, <3>5 DEF TokensAccounted
  <2>8. ASSUME NEW s \in Requests, at'[s] = "allow" PROVE held'[s] # None
    BY <1>1, <2>8 DEF LimiterTyped
  <2> QED
    BY <2>4, <2>5, <2>6, <2>7, <2>8
<1> QED
  BY <1>3, <1>4 DEF Allow

\* Time gives a token back.
LEMMA TokenRefilled ==
  ASSUME LimiterInv, NEW l \in Limiters, Refill(l)
  PROVE  LimiterInv'
<1> USE ServiceAssumption DEF LimiterInv
<1>1. /\ l <= made /\ tokens[l] < Burst /\ tokens' = [tokens EXCEPT ![l] = @ + 1]
      /\ refills' = refills + 1
      /\ UNCHANGED <<at, total, limiters, made, held, ticks, admitted>>
  BY DEF Refill
<1>2. l \in 1 .. made /\ made \in 0 .. MaxArrivals
  BY <1>1, MadeBounded DEF LimiterTyped, Limiters
<1>3. LimiterTyped'
  <2>1. tokens' \in [Limiters -> 0 .. Burst]
    BY <1>1 DEF LimiterTyped
  <2> QED
    BY <1>1, <2>1 DEF LimiterTyped
<1>4. Numbered' /\ OnePerPeriod'
  BY <1>1 DEF Numbered, OnePerPeriod, Unserved
<1>5. TokensAccounted'
  <2>1. PICK t, u, left, leftThen :
          /\ t = tokens /\ u = tokens'
          /\ left = Cardinality(LeftOf(made, t)) /\ leftThen = Cardinality(LeftOf(made, u))
    OBVIOUS
  <2>2. leftThen = left + 1 /\ left \in Nat
    <3>1. t \in [Limiters -> 0 .. Burst] /\ t[l] < Burst /\ u = [t EXCEPT ![l] = @ + 1] /\ made \in Nat
      BY <1>1, <2>1 DEF LimiterTyped
    <3> QED
      <4>1. Cardinality(LeftOf(made, u)) = Cardinality(LeftOf(made, t)) + 1
        BY <1>2, <3>1, TokenGiven, Zenon
      <4>2. Cardinality(LeftOf(made, t)) \in Nat
        BY <3>1, LeftOfFinite, Zenon
      <4> QED
        BY <2>1, <4>1, <4>2
  <2>3. admitted + left = Burst * made + refills /\ Burst * made \in Nat
    BY <2>1 DEF TokensAccounted, LimiterTyped
  <2>4. admitted + leftThen = Burst * made + (refills + 1)
    BY <2>2, <2>3 DEF LimiterTyped
  <2>5. \A m \in Limiters : m > made => tokens'[m] = Burst
    BY <1>1, <1>2 DEF TokensAccounted, LimiterTyped, Limiters
  <2> QED
    BY <1>1, <2>1, <2>4, <2>5 DEF TokensAccounted
<1> QED
  BY <1>1, <1>3, <1>4, <1>5

LEMMA LimiterStep == LimiterInv /\ [HTTPNext]_httpVars => LimiterInv'
<1> SUFFICES ASSUME LimiterInv, [HTTPNext]_httpVars PROVE LimiterInv'
  OBVIOUS
<1> USE ServiceAssumption
<1>1. {"checks", "lookup", "done", "idle"} \subseteq Places \ {"allow"}
  BY DEF Places
<1>2. total \in 0 .. MaxArrivals
  BY DEF LimiterInv, LimiterTyped
<1>3. ASSUME NEW r \in Requests, Readiness(r) \/ RateLimiter(r) PROVE LimiterInv'
  <2>1. total < MaxArrivals /\ total' = total + 1
        /\ UNCHANGED <<limiters, made, tokens, held, ticks, refills, admitted>>
    BY <1>3 DEF Readiness, RateLimiter, MetricsMiddleware, limitVars
  <2>2. PICK first \in {"checks", "lookup"} : at' = [at EXCEPT ![r] = first]
    BY <1>3 DEF Readiness, RateLimiter, MetricsMiddleware
  <2>3. total' \in 0 .. MaxArrivals
    BY <1>2, <2>1
  <2> QED
    BY <1>1, <2>1, <2>2, <2>3, LimiterMoves
<1>4. ASSUME NEW r \in Requests, Respond(r) PROVE LimiterInv'
  <2>1. /\ at' = [at EXCEPT ![r] = "done"]
        /\ UNCHANGED <<total, limiters, made, tokens, held, ticks, refills, admitted>>
    BY <1>4 DEF Respond, limitVars
  <2>2. "done" \in Places \ {"allow"}
    BY <1>1
  <2>3. total' = total + Needs("done")
    BY <1>2, <2>1 DEF Needs
  <2> QED
    BY <1>2, <2>1, <2>2, <2>3, LimiterMoves
<1>5. ASSUME NEW r \in Requests, DecrementConnections(r) PROVE LimiterInv'
  <2>1. /\ at' = [at EXCEPT ![r] = "idle"] /\ held' = [held EXCEPT ![r] = None]
        /\ UNCHANGED <<total, limiters, made, tokens, ticks, refills, admitted>>
    BY <1>5 DEF DecrementConnections
  <2>2. "idle" \in Places \ {"allow"}
    BY <1>1
  <2>3. total' = total + Needs("idle")
    BY <1>2, <2>1 DEF Needs
  <2> QED
    BY <1>2, <2>1, <2>2, <2>3, LimiterMoves
<1>6. CASE CleanupLoop
  <2>1. /\ ticks' = ticks + 1 /\ limiters' = None
        /\ UNCHANGED <<at, total, made, tokens, held, refills, admitted>>
    BY <1>6 DEF CleanupLoop
  <2>2. LimiterTyped' /\ OnePerPeriod'
    BY <2>1 DEF LimiterInv, LimiterTyped, OnePerPeriod
  <2>3. Numbered' /\ TokensAccounted'
    BY <2>1 DEF LimiterInv, Numbered, Unserved, TokensAccounted
  <2> QED
    BY <2>1, <2>2, <2>3 DEF LimiterInv
<1>7. CASE UNCHANGED <<at, total, limitVars>>
  BY <1>7 DEF LimiterInv, LimiterTyped, Numbered, Unserved, OnePerPeriod, TokensAccounted, limitVars
<1>8. ASSUME NEW r \in Requests, NEW c \in Components, CheckDone(r, c) PROVE LimiterInv'
  BY <1>7, <1>8 DEF CheckDone
<1>9. ASSUME NEW c \in Components, NEW state \in {"up", "half", "down"}, DependencyChanges(c, state)
      PROVE  LimiterInv'
  BY <1>7, <1>9 DEF DependencyChanges
<1>10. CASE UNCHANGED httpVars
  BY <1>7, <1>10 DEF httpVars
<1> QED
  BY <1>3, <1>4, <1>5, <1>6, <1>8, <1>9, <1>10, LimiterLookedUp, LimiterMade, EventAllowed,
     TokenRefilled DEF HTTPNext, RequestStep

\* However many first events look for a limiter at once, and whenever the
\* clean-up forgets them: what an agent gets through is at most a burst for each
\* period between two clean-ups and what time gives back, whatever the burst
\* and the number of requests.
THEOREM BudgetIsKept == HTTPSpec => []WithinBudget
<1>1. HTTPInit => LimiterInv
  <2> SUFFICES ASSUME HTTPInit PROVE LimiterInv
    OBVIOUS
  <2> USE ServiceAssumption DEF HTTPInit
  <2>1. LimiterTyped /\ OnePerPeriod
    BY DEF LimiterTyped, OnePerPeriod, Places, Limiters
  <2>2. Unserved(at) = {} /\ LeftOf(0, tokens) = {}
    BY DEF Unserved, LeftOf
  <2>3. Cardinality(Unserved(at)) = 0 /\ Cardinality(LeftOf(0, tokens)) = 0
    BY <2>2, FS_EmptySet
  <2>4. Numbered
    BY <2>3 DEF Numbered
  <2>5. TokensAccounted
    BY <2>3 DEF TokensAccounted
  <2> QED
    BY <2>1, <2>4, <2>5 DEF LimiterInv
<1>2. LimiterInv => WithinBudget
  <2> SUFFICES ASSUME LimiterInv PROVE WithinBudget
    OBVIOUS
  <2> USE ServiceAssumption DEF LimiterInv, LimiterTyped
  <2>1. PICK left : left = Cardinality(LeftOf(made, tokens))
    OBVIOUS
  <2>2. left \in Nat
    BY <2>1, LeftOfFinite
  <2>3. admitted + left = Burst * made + refills
    BY <2>1 DEF TokensAccounted
  <2>4. PICK unused \in Nat : 1 + ticks = made + unused
    <3>1. made <= 1 + ticks
      BY DEF OnePerPeriod
    <3> QED
      BY <3>1
  <2>5. /\ Burst * (made + unused) = Burst * made + Burst * unused
        /\ Burst * made \in Nat /\ Burst * unused \in Nat
    BY <2>4
  <2>6. admitted <= Burst * (made + unused) + refills
    BY <2>2, <2>3, <2>5
  <2> QED
    BY <2>4, <2>6 DEF WithinBudget
<1> QED
  BY <1>1, <1>2, LimiterStep, PTL DEF HTTPSpec

=============================================================================
