------------------------------- MODULE Accounts -------------------------------
(***************************************************************************)
(* Accounts, sessions and the ownership of projects: auth/service.go and   *)
(* auth/repository.go, and what storage/service.go does for the project    *)
(* routes.                                                                 *)
(*                                                                         *)
(* An action is one call to MongoDB with the code from its answer to the   *)
(* next call.  Any number of calls may fail, and a write may be applied    *)
(* and answered with an error all the same; a read that fails or that the  *)
(* handler answers with 4xx ends a request that has changed nothing, which *)
(* is a stuttering step.  uuids are fresh: the id of a user, a session or  *)
(* a project is its position in the sequence of those there ever were.     *)
(***************************************************************************)
EXTENDS Integers, Sequences, FiniteSets

CONSTANTS Goroutines, Names,
          Credentials,  \* the addresses and passwords that clients send, as records
          AccessTTL, RefreshTTL,  \* accessTTL and refreshTTL of the service
          MaxTime,  \* bounds: on the clock, on what is ever inserted
          MaxSessions, MaxProjects, MaxDocuments

ASSUME AccountsAssumption ==
  /\ \A c \in Credentials : c = [email |-> c.email, password |-> c.password]
  /\ AccessTTL \in Nat /\ RefreshTTL \in Nat
  /\ MaxTime \in Nat
  /\ MaxSessions \in Nat /\ MaxProjects \in Nat /\ MaxDocuments \in Nat

VARIABLES now,       \* time.Now()
          users,     \* the collection users
          welcomed,  \* the credentials that register answered with 201
          sessions,  \* what generateTokens has made, with what it was made for
          tokens,    \* the collection refresh_tokens: the sessions whose refresh token is in it
          known,     \* the sessions whose two tokens a client was given
          projects,  \* the collection projects
          req        \* req[g]: the request that goroutine g is in the middle of

vars == <<now, users, welcomed, sessions, tokens, known, projects, req>>

\* parent of the session of a login: no refresh token was exchanged for it.
NoParent == 0

Session == [user : Nat, born : Nat, parent : Nat, begun : Nat]
Project == [owner : Nat, name : Names]

Idle == [pc |-> "idle"]

Request ==
  {Idle}
    \cup [pc : {"createUser"}, user : Credentials]
    \cup [pc : {"delete"}, token : Nat, begun : Nat]
    \cup [pc : {"save"}, session : Session]
    \cup [pc : {"createProject"}, project : Project]
    \cup [pc : {"rename"}, user : Nat, project : Nat, name : Names]

AccountsTypeOK ==
  /\ now \in Nat
  /\ users \in Seq(Credentials)
  /\ welcomed \subseteq Credentials
  /\ sessions \in Seq(Session)
  /\ known \subseteq DOMAIN sessions
  /\ tokens \subseteq DOMAIN sessions
  /\ projects \in Seq(Project)
  /\ req \in [Goroutines -> Request]
  /\ \A i \in DOMAIN sessions : sessions[i].user \in DOMAIN users
  /\ \A p \in DOMAIN projects : projects[p].owner \in DOMAIN users

Init ==
  /\ now = 0
  /\ users = <<>> /\ sessions = <<>> /\ projects = <<>>
  /\ welcomed = {} /\ tokens = {} /\ known = {}
  /\ req = [g \in Goroutines |-> Idle]

Proceed(g, r) == req' = [req EXCEPT ![g] = r]

Finish(g) == Proceed(g, Idle)

At(g, pc) == req[g].pc = pc

Room == Len(users) + Len(sessions) + Len(projects) < MaxDocuments

Tick ==
  /\ now < MaxTime
  /\ now' = now + 1
  /\ UNCHANGED <<users, welcomed, sessions, tokens, known, projects, req>>

-----------------------------------------------------------------------------
(* Accounts. *)

Registered(email) == \E i \in DOMAIN users : users[i].email = email

\* Register, up to its insertion: nobody has the address yet.
Register(g, c) ==
  /\ At(g, "idle")
  /\ ~ Registered(c.email)
  /\ Proceed(g, [pc |-> "createUser", user |-> c])
  /\ UNCHANGED <<now, users, welcomed, sessions, tokens, known, projects>>

\* Variant of Inserted: without the unique index on email.
UnindexedInserted(user) == users' = Append(users, user)

\* Variant of Inserted: an upsert by email in place of the insertion.
Upserted(user) ==
  users' = IF Registered(user.email)
             THEN [i \in DOMAIN users |-> IF users[i].email = user.email THEN user ELSE users[i]]
             ELSE Append(users, user)

\* InsertOne, under the unique index that createIndexes made.
Inserted(user) ==
  /\ ~ Registered(user.email)
  /\ users' = Append(users, user)

\* CreateUser: refused, or failed, or done, and then the answer may be lost.
CreateUser(g) ==
  /\ At(g, "createUser")
  /\ \/ UNCHANGED <<users, welcomed>>
     \/ /\ Room
        /\ Inserted(req[g].user)
        /\ welcomed' \in {welcomed, welcomed \cup {req[g].user}}
  /\ Finish(g)
  /\ UNCHANGED <<now, sessions, tokens, known, projects>>

-----------------------------------------------------------------------------
(* Sessions. *)

\* expires_at of the refresh token of session i.
Expiry(i) == sessions[i].born + RefreshTTL

\* GetUserByEmail of Login, the comparison with the hash, and generateTokens.
Login(g, c) ==
  /\ At(g, "idle")
  /\ \E i \in DOMAIN users :
       /\ users[i] = c
       /\ Proceed(g, [pc |-> "save", session |->
                        [user |-> i, born |-> now, parent |-> NoParent, begun |-> now]])
  /\ UNCHANGED <<now, users, welcomed, sessions, tokens, known, projects>>

\* Variant of Usable: expiry is left to the TTL index.
StoredIsUsable(t) == t \in tokens

\* What Refresh asks of a token before it exchanges it.
Usable(t) ==
  /\ t \in tokens
  /\ now <= Expiry(t)

\* GetRefreshToken of Refresh, for a token that a client has.
Refresh(g, t) ==
  /\ At(g, "idle")
  /\ t \in known
  /\ Usable(t)
  /\ Proceed(g, [pc |-> "delete", token |-> t, begun |-> now])
  /\ UNCHANGED <<now, users, welcomed, sessions, tokens, known, projects>>

\* Variant of Successor: generateTokens is given the id of the token.
MixedUpSuccessor(r) == [pc |-> "save", session |-> [user |-> r.token, born |-> now,
                                                   parent |-> r.token, begun |-> r.begun]]

\* generateTokens, for the user of the deleted token.
Successor(r) == [pc |-> "save", session |-> [user |-> sessions[r.token].user, born |-> now,
                                            parent |-> r.token, begun |-> r.begun]]

\* Variant of DeleteRefreshToken: an error of the deletion is not looked at.
HeedlessDelete(g) ==
  /\ At(g, "delete")
  /\ tokens' \in {tokens, tokens \ {req[g].token}}
  /\ Proceed(g, Successor(req[g]))
  /\ UNCHANGED <<now, users, welcomed, sessions, known, projects>>

\* DeleteRefreshToken of Refresh.  That it deleted nothing, because another
\* request was faster, is no error; an error may come after it has deleted.
DeleteRefreshToken(g) ==
  /\ At(g, "delete")
  /\ \/ /\ tokens' = tokens \ {req[g].token}
        /\ Proceed(g, Successor(req[g]))
     \/ /\ tokens' \in {tokens, tokens \ {req[g].token}}
        /\ Finish(g)
  /\ UNCHANGED <<now, users, welcomed, sessions, known, projects>>

\* SaveRefreshToken of generateTokens: failed, or done, and then the client
\* may not get the answer.
SaveRefreshToken(g) ==
  /\ At(g, "save")
  /\ \/ UNCHANGED <<sessions, tokens, known>>
     \/ /\ Room
        /\ Len(sessions) < MaxSessions
        /\ sessions' = Append(sessions, req[g].session)
        /\ tokens' = tokens \cup {Len(sessions) + 1}
        /\ known' \in {known, known \cup {Len(sessions) + 1}}
  /\ Finish(g)
  /\ UNCHANGED <<now, users, welcomed, projects>>

\* The TTL index removes an expired document, at some time or never.
TTLMonitor(t) ==
  /\ t \in tokens
  /\ Expiry(t) <= now
  /\ tokens' = tokens \ {t}
  /\ UNCHANGED <<now, users, welcomed, sessions, known, projects, req>>

-----------------------------------------------------------------------------
(* Projects. *)

\* GetUserFromToken: the signature is checked by jwt, and the expiry.
Unexpired(i) == now < sessions[i].born + AccessTTL

\* AuthMiddleware, for an access token that a client has.
Authenticated(i) ==
  /\ i \in known
  /\ Unexpired(i)

\* createProject with a fresh id, which GetProject does not find.
NewProject(g, i, name) ==
  /\ At(g, "idle")
  /\ Authenticated(i)
  /\ Proceed(g, [pc |-> "createProject",
                 project |-> [owner |-> sessions[i].user, name |-> name]])
  /\ UNCHANGED <<now, users, welcomed, sessions, tokens, known, projects>>

CreateProject(g) ==
  /\ At(g, "createProject")
  /\ \/ UNCHANGED projects
     \/ /\ Room
        /\ Len(projects) < MaxProjects
        /\ projects' = Append(projects, req[g].project)
  /\ Finish(g)
  /\ UNCHANGED <<now, users, welcomed, sessions, tokens, known>>

\* Variant of CheckOwnership: that the project exists is enough.
CheckExistence(p, user) == p \in DOMAIN projects

\* CheckOwnership.
CheckOwnership(p, user) ==
  /\ p \in DOMAIN projects
  /\ projects[p].owner = user

\* GetProject and CheckOwnership of UpdateProjectName.
Rename(g, i, p, name) ==
  /\ At(g, "idle")
  /\ Authenticated(i)
  /\ CheckOwnership(p, sessions[i].user)
  /\ Proceed(g, [pc |-> "rename", user |-> sessions[i].user, project |-> p, name |-> name])
  /\ UNCHANGED <<now, users, welcomed, sessions, tokens, known, projects>>

\* The $set of UpdateProjectName.
Renamed(project, name) == [project EXCEPT !.name = name]

\* UpdateOne by project_id, which does not look at the owner again.
UpdateProjectName(g) ==
  /\ At(g, "rename")
  /\ \/ UNCHANGED projects
     \/ projects' = [projects EXCEPT ![req[g].project] = Renamed(@, req[g].name)]
  /\ Finish(g)
  /\ UNCHANGED <<now, users, welcomed, sessions, tokens, known>>

-----------------------------------------------------------------------------
Next ==
  \/ Tick
  \/ \E g \in Goroutines :
       \/ \E c \in Credentials : Register(g, c) \/ Login(g, c)
       \/ CreateUser(g)
       \/ \E t \in known : Refresh(g, t)
       \/ DeleteRefreshToken(g) \/ SaveRefreshToken(g)
       \/ \E i \in known, n \in Names :
            \/ NewProject(g, i, n)
            \/ \E p \in DOMAIN projects : Rename(g, i, p, n)
       \/ CreateProject(g) \/ UpdateProjectName(g)
  \/ \E t \in tokens : TTLMonitor(t)

Spec == Init /\ [][Next]_vars

-----------------------------------------------------------------------------
(* Properties. *)

\* Two registrations of one address that overlap, both past the lookup of
\* Register, never leave two accounts that Login could find.
OneAccountPerEmail ==
  \A i, j \in DOMAIN users : users[i].email = users[j].email => i = j

\* Whoever register told that the account exists can log in with the password
\* of that registration, whatever registrations overlapped with it and came
\* after it and whichever of them failed.
WelcomeHolds ==
  \A c \in welcomed : \E i \in DOMAIN users : users[i] = c

Exchanged(t) == \E i \in DOMAIN sessions : sessions[i].parent = t

\* Once a session has come out of Refresh the token it was exchanged for is
\* not in the collection, although calls fail and requests with one token
\* overlap: only requests that had read it before can still exchange it, no
\* retry of the client's and nobody who finds the old token can.
ExchangedIsGone ==
  \A t \in DOMAIN sessions : Exchanged(t) => t \notin tokens

\* No session comes out of a refresh token that had expired when Refresh was
\* asked, although the TTL index may leave it in the collection for long.
ExpiredIsUseless ==
  \A i \in DOMAIN sessions :
    sessions[i].parent # NoParent => sessions[i].begun <= Expiry(sessions[i].parent)

\* What a project is called changes only by a request of the user who owns it
\* at that moment, although UpdateOne comes later than CheckOwnership and
\* does not repeat it; who owns it never changes.
OnlyOwnerRenames ==
  [][\A p \in DOMAIN projects : projects'[p] # projects[p] =>
       /\ projects'[p].owner = projects[p].owner
       /\ \E g \in Goroutines : /\ At(g, "rename")
                                /\ req[g].project = p
                                /\ req[g].user = projects[p].owner]_vars

=============================================================================
