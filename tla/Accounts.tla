------------------------------ MODULE Accounts ------------------------------
(***************************************************************************)
(* Users, API keys and who may connect an agent: the JWT middleware, which *)
(* copies the claims of every request into the user's row, the handlers of *)
(* users and keys behind it, the seed command and the API-key middleware   *)
(* of the agent gateway.  Each database statement is a step; there are no  *)
(* transactions.  JWT parsing is external: a request that passes it has a  *)
(* user and the profile (email, name, avatar) its token was issued with.   *)
(* A refused request changes nothing and has no step.                      *)
(***************************************************************************)
EXTENDS Naturals, FiniteSets

CONSTANTS Users, Profiles, Agents,
          Secrets, Prefix,    \* secrets the generator may draw, and the first 12
                              \* characters of each: only 3 of them are random
          Reqs, MaxRequests,  \* requests at once, and in all
          NoRow

\* The columns of a user's row that a request may change.
UserRow == [profile : Profiles, dev : BOOLEAN]

ASSUME AccountsAssumption ==
    /\ Users \intersect Agents = {} /\ NoRow \notin Users \union Agents \union Secrets
    /\ NoRow \notin UserRow
    /\ DOMAIN Prefix = Secrets
    /\ MaxRequests \in Nat

VARIABLES
    users,      \* table users: profile and is_developer
    keys,       \* table api_keys, by secret: the owner (a user or an agent)
    expired,    \* keys whose expires_at has passed
    req,        \* what each request is doing and the row it has read
    accepted,   \* requests begun, up to the bound
    claims,     \* profiles each user's tokens have carried (history)
    asked,      \* users whose BecomeDeveloper was acknowledged (history)
    seeding,    \* agents a run of the seed command is about to make a key for
    seeded,     \* keys made by the seed command (history)
    connected   \* keys that opened an agent connection (history)

rows    == <<users, keys, expired>>
history == <<claims, asked, seeded, connected>>
vars    == <<rows, req, accepted, seeding, history>>

Ops == {"me", "developer", "createKey", "deleteKey"}
Idle == [pc |-> "idle"]
Exists(u) == users[u] # NoRow

\* requireDeveloper of the key handlers: the row exists and has the flag.
IsDeveloper(u) == Exists(u) /\ users[u].dev

Step(r, pc) == req' = [req EXCEPT ![r].pc = pc]
Finish(r)   == req' = [req EXCEPT ![r] = Idle]

-----------------------------------------------------------------------------
(* The JWT middleware *)

\* Authenticate, up to the read of FindOrCreateFromJWT.
Authenticate(r, u, p, op) ==
    /\ req[r] = Idle /\ accepted < MaxRequests
    /\ accepted' = accepted + 1
    /\ claims' = [claims EXCEPT ![u] = @ \union {p}]
    /\ req' = [req EXCEPT ![r] =
         [pc |-> "sync", op |-> op, user |-> u, profile |-> p, row |-> users[u], key |-> NoRow]]
    /\ UNCHANGED <<rows, seeding, asked, seeded, connected>>

\* Mutant: the row is written on every request.
AlwaysSync(row, p) == TRUE

\* Whether the claims differ from the row that was read.
NeedsSync(row, p) == row.profile # p

\* The row of a user seen for the first time.
NewUser(p) == [profile |-> p, dev |-> FALSE]

\* SyncFromJWT: the whole row that was read is written back with the new
\* profile, or a row is created unless another request has created it; the
\* handler runs even if the database refused.
SyncFromJWT(r) ==
    LET u == req[r].user
        p == req[r].profile
        row == req[r].row
    IN
    /\ req[r].pc = "sync"
    /\ \/ UNCHANGED users
       \/ /\ row = NoRow /\ ~Exists(u)
          /\ users' = [users EXCEPT ![u] = NewUser(p)]
       \/ /\ row # NoRow /\ NeedsSync(row, p)
          /\ users' = [users EXCEPT ![u] = [row EXCEPT !.profile = p]]
    /\ Step(r, req[r].op)
    /\ UNCHANGED <<keys, expired, accepted, seeding, history>>

\* Handler.Me only reads.
Me(r) ==
    /\ req[r].pc = "me"
    /\ Finish(r)
    /\ UNCHANGED <<rows, accepted, seeding, history>>

\* SetDeveloper updates one column of the row.
SetDeveloper(u) == users' = [users EXCEPT ![u].dev = TRUE]

\* BecomeDeveloper sets the flag, if there is a row.
BecomeDeveloper(r) ==
    LET u == req[r].user IN
    /\ req[r].pc = "developer"
    /\ IF Exists(u)
       THEN /\ SetDeveloper(u)
            /\ asked' = asked \union {u}
       ELSE UNCHANGED <<users, asked>>
    /\ Finish(r)
    /\ UNCHANGED <<keys, expired, accepted, seeding, claims, seeded, connected>>

-----------------------------------------------------------------------------
(* API keys *)

\* Every key handler asks first.
RequireDeveloper(r) ==
    /\ req[r].pc \in {"createKey", "deleteKey"}
    /\ IF IsDeveloper(req[r].user)
       THEN Step(r, IF req[r].pc = "createKey" THEN "insert" ELSE "getKey")
       ELSE Finish(r)
    /\ UNCHANGED <<rows, accepted, seeding, history>>

\* Mutant: the table has no unique index on the prefix.
NoPrefixTaken(s) == keys[s] # NoRow

\* The unique index on the prefix refuses the row.
PrefixTaken(s) == \E k \in Secrets : keys[k] # NoRow /\ Prefix[k] = Prefix[s]

\* Store.Create with a new secret, with an owner.
Insert(s, owner) ==
    /\ keys[s] = NoRow /\ s \notin expired /\ ~PrefixTaken(s)
    /\ keys' = [keys EXCEPT ![s] = owner]
    /\ UNCHANGED <<users, expired>>

\* Handler.Create makes keys that belong to a user; the row is refused when
\* the prefix is taken.
CreateKey(r) ==
    /\ req[r].pc = "insert"
    /\ \/ \E s \in Secrets : Insert(s, req[r].user)
       \/ UNCHANGED rows
    /\ Finish(r)
    /\ UNCHANGED <<accepted, seeding, history>>

\* Handler.Delete reads the key and compares its owner ...
GetKey(r, s) ==
    /\ req[r].pc = "getKey"
    /\ keys[s] = req[r].user
    /\ req' = [req EXCEPT ![r].pc = "delete", ![r].key = s]
    /\ UNCHANGED <<rows, accepted, seeding, history>>

\* Store.Delete; a secret is never drawn again.
DeleteRow(s) ==
    /\ keys' = [keys EXCEPT ![s] = NoRow]
    /\ expired' = expired \union {s}

\* ... and deletes the row by its id.
DeleteKey(r) ==
    /\ req[r].pc = "delete"
    /\ DeleteRow(req[r].key)
    /\ Finish(r)
    /\ UNCHANGED <<users, accepted, seeding, history>>

\* seedUser: a developer, unless the user has a row.  The token the command
\* prints carries the same profile.
SeedUser(u, p) ==
    /\ ~Exists(u)
    /\ users' = [users EXCEPT ![u] = [profile |-> p, dev |-> TRUE]]
    /\ claims' = [claims EXCEPT ![u] = @ \union {p}]
    /\ UNCHANGED <<keys, expired, req, accepted, seeding, asked, seeded, connected>>

\* seedAPIKey reads the keys of the agent and goes on if there is none, or if
\* the read fails: so it always may.
GetByOwner(a) ==
    /\ seeding' = seeding \union {a}
    /\ UNCHANGED <<rows, req, accepted, history>>

\* It then makes a key that belongs to the agent.  Another run of the command
\* may stand at the same place.
SeedAPIKey(a, s) ==
    /\ a \in seeding
    /\ seeding' \in {seeding, seeding \ {a}}
    /\ Insert(s, a)
    /\ seeded' = seeded \union {s}
    /\ UNCHANGED <<req, accepted, claims, asked, connected>>

\* expires_at of a user's key passes; the seed command sets none.
Expire(s) ==
    /\ keys[s] \in Users
    /\ expired' = expired \union {s}
    /\ UNCHANGED <<users, keys, req, accepted, seeding, history>>

\* Store.Validate: the first row with the prefix of the secret, if its hash
\* is the secret's and it has not expired.
Validate(s) ==
    LET found == {k \in Secrets : keys[k] # NoRow /\ Prefix[k] = Prefix[s]}
        first == CHOOSE k \in found : TRUE
    IN  IF found # {} /\ first = s /\ s \notin expired THEN s ELSE NoRow

\* Mutant: the type of the key's owner is not looked at.
AnyOwner(s) == TRUE

\* ValidateAgentAccess, which APIKeyAuth calls with the key's own owner.
ValidateAgentAccess(s) == keys[s] \in Agents

\* APIKeyAuth lets a connection through; last_used_at, which no
\* decision reads, is left out.
Connect(s) ==
    /\ Validate(s) = s
    /\ connected' = IF ValidateAgentAccess(s) THEN connected \union {s} ELSE connected
    /\ UNCHANGED <<users, keys, expired, req, accepted, seeding, claims, asked, seeded>>

\* The client goes away, or the answer is an error: the statements made stay.
Abort(r) ==
    /\ req[r] # Idle
    /\ Finish(r)
    /\ UNCHANGED <<rows, accepted, seeding, history>>

-----------------------------------------------------------------------------
Init ==
    /\ users = [u \in Users |-> NoRow]
    /\ keys = [s \in Secrets |-> NoRow]
    /\ req = [r \in Reqs |-> Idle]
    /\ claims = [u \in Users |-> {}]
    /\ accepted = 0
    /\ expired = {} /\ seeding = {} /\ asked = {} /\ seeded = {} /\ connected = {}

Next ==
    \/ \E r \in Reqs :
         \/ \E u \in Users, p \in Profiles, op \in Ops : Authenticate(r, u, p, op)
         \/ SyncFromJWT(r) \/ Me(r) \/ BecomeDeveloper(r) \/ RequireDeveloper(r)
         \/ CreateKey(r) \/ \E s \in Secrets : GetKey(r, s)
         \/ DeleteKey(r) \/ Abort(r)
    \/ \E s \in Secrets :
         \/ Expire(s) \/ Connect(s) \/ \E a \in Agents : SeedAPIKey(a, s)
    \/ \E u \in Users, p \in Profiles : SeedUser(u, p)
    \/ \E a \in Agents : GetByOwner(a)

Spec == Init /\ [][Next]_vars

-----------------------------------------------------------------------------
(* Properties *)

\* Although Validate looks at one row with the prefix only, every key that
\* was handed out, is not deleted and has not expired is recognised, and
\* nothing else is.
ValidateIsExact ==
    \A s \in Secrets : Validate(s) = s <=> keys[s] # NoRow /\ s \notin expired

\* A user whose tokens have always carried one profile keeps the developer
\* status that BecomeDeveloper acknowledged: SyncFromJWT writes the row back
\* only when a token says something new.
StableClaimsKeepStatus ==
    \A u \in asked : Cardinality(claims[u]) = 1 => users[u].dev

\* Only a key of the seed command ever connects an agent: the keys the API
\* makes belong to users, and the gateway refuses those.
OnlySeededKeysConnect == connected \subseteq seeded

=============================================================================
