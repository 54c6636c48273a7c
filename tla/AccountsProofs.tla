---------------------------- MODULE AccountsProofs ----------------------------
(***************************************************************************)
(* Proofs about Accounts, for any credentials, any number of goroutines    *)
(* and any lifetimes of the tokens.                                        *)
(***************************************************************************)
EXTENDS Accounts, TLAPS

\* What the requests carry from one call to the next is still true when the
\* next call is made, whatever the other requests did in between.
Underway ==
  \A g \in Goroutines :
    /\ At(g, "delete") => req[g].token \in DOMAIN sessions
    /\ At(g, "save") =>
         /\ req[g].session.user \in DOMAIN users
         /\ req[g].session.parent # NoParent =>
              req[g].session.parent \in DOMAIN sessions \ tokens
    /\ At(g, "createProject") => req[g].project.owner \in DOMAIN users
    /\ At(g, "rename") => /\ req[g].project \in DOMAIN projects
                          /\ projects[req[g].project].owner = req[g].user

\* Projects stay, with the owner they have.
OwnersStay ==
  \A p \in DOMAIN projects : /\ p \in DOMAIN projects'
                             /\ projects'[p].owner = projects[p].owner

\* The session that a token was exchanged for comes after the token.
Lineage ==
  \A i \in DOMAIN sessions :
    sessions[i].parent # NoParent => sessions[i].parent \in DOMAIN sessions

SessionInv == AccountsTypeOK /\ Underway /\ Lineage /\ ExchangedIsGone

\* A request at a call carries what that call takes.
LEMMA Carried ==
  ASSUME AccountsTypeOK, NEW g \in Goroutines
  PROVE  /\ At(g, "createUser") => req[g].user \in Credentials
         /\ At(g, "delete") => req[g].token \in Nat /\ req[g].begun \in Nat
         /\ At(g, "save") => req[g].session \in Session
         /\ At(g, "createProject") => req[g].project \in Project
         /\ At(g, "rename") => req[g].project \in Nat /\ req[g].name \in Names
<1>1. req[g] \in Request
  BY DEF AccountsTypeOK
<1>2. QED
  BY <1>1 DEF Request, Idle, At

LEMMA SessionInit == Init => SessionInv
  BY DEF Init, SessionInv, AccountsTypeOK, Request, Underway, Lineage, ExchangedIsGone,
         Exchanged, At, Idle

\* A step of g on to request r disturbs no other request, if no document is
\* lost that they need and no token comes back.
LEMMA UnderwayKept ==
  ASSUME AccountsTypeOK, Underway, NEW g \in Goroutines, NEW r, Proceed(g, r),
         DOMAIN users \subseteq DOMAIN users',
         DOMAIN sessions \subseteq DOMAIN sessions',
         tokens' \cap DOMAIN sessions \subseteq tokens,
         OwnersStay,
         r.pc = "delete" => r.token \in DOMAIN sessions',
         r.pc = "save" => /\ r.session.user \in DOMAIN users'
                          /\ r.session.parent # NoParent =>
                               r.session.parent \in DOMAIN sessions' \ tokens',
         r.pc = "createProject" => r.project.owner \in DOMAIN users',
         r.pc = "rename" => /\ r.project \in DOMAIN projects'
                            /\ projects'[r.project].owner = r.user
  PROVE  Underway'
<1>1. req' = [req EXCEPT ![g] = r] /\ req \in [Goroutines -> Request]
  BY DEF Proceed, AccountsTypeOK
<1> SUFFICES ASSUME NEW h \in Goroutines
             PROVE  /\ At(h, "delete")' => req'[h].token \in DOMAIN sessions'
                    /\ At(h, "save")' =>
                         /\ req'[h].session.user \in DOMAIN users'
                         /\ req'[h].session.parent # NoParent =>
                              req'[h].session.parent \in DOMAIN sessions' \ tokens'
                    /\ At(h, "createProject")' => req'[h].project.owner \in DOMAIN users'
                    /\ At(h, "rename")' => /\ req'[h].project \in DOMAIN projects'
                                           /\ projects'[req'[h].project].owner = req'[h].user
  BY DEF Underway
<1>2. CASE h = g
  <2>1. req'[h] = r
    BY <1>1, <1>2
  <2>2. QED
    BY <2>1 DEF At
<1>3. CASE h # g
  <2>1. req'[h] = req[h]
    BY <1>1, <1>3
  <2>2. QED
    BY <2>1 DEF Underway, OwnersStay, At
<1>4. QED
  BY <1>2, <1>3

\* A request that goes on to another call, while nothing else changes.
LEMMA Proceeding ==
  ASSUME SessionInv, NEW g \in Goroutines, NEW r \in Request, Proceed(g, r),
         UNCHANGED <<now, users, welcomed, sessions, tokens, known, projects>>,
         r.pc = "delete" => r.token \in DOMAIN sessions,
         r.pc = "save" => /\ r.session.user \in DOMAIN users
                          /\ r.session.parent # NoParent =>
                               r.session.parent \in DOMAIN sessions \ tokens,
         r.pc = "createProject" => r.project.owner \in DOMAIN users,
         r.pc = "rename" => /\ r.project \in DOMAIN projects
                            /\ projects[r.project].owner = r.user
  PROVE  SessionInv'
<1>1. req' \in [Goroutines -> Request]
  BY DEF Proceed, SessionInv, AccountsTypeOK
<1>2. AccountsTypeOK'
  BY <1>1 DEF SessionInv, AccountsTypeOK
<1>3. Underway'
  BY UnderwayKept DEF SessionInv, OwnersStay
<1>4. (Lineage /\ ExchangedIsGone)'
  BY DEF SessionInv, Lineage, ExchangedIsGone, Exchanged
<1>5. QED
  BY <1>2, <1>3, <1>4 DEF SessionInv

\* The last step of a request.
LEMMA Finishing ==
  ASSUME AccountsTypeOK, Underway, NEW g \in Goroutines, Finish(g),
         DOMAIN users \subseteq DOMAIN users',
         DOMAIN sessions \subseteq DOMAIN sessions',
         tokens' \cap DOMAIN sessions \subseteq tokens,
         OwnersStay
  PROVE  Underway' /\ req' \in [Goroutines -> Request]
<1>1. Proceed(g, Idle) /\ Idle \in Request /\ Idle.pc = "idle"
  BY DEF Finish, Idle, Request
<1>2. Underway'
  BY <1>1, UnderwayKept
<1>3. QED
  BY <1>1, <1>2 DEF Proceed, AccountsTypeOK

-----------------------------------------------------------------------------
(* The steps. *)

LEMMA RegisterStep ==
  ASSUME SessionInv, NEW g \in Goroutines, NEW c \in Credentials, Register(g, c)
  PROVE  SessionInv'
<1> DEFINE r == [pc |-> "createUser", user |-> c]
<1>1. r \in Request /\ r.pc = "createUser" /\ Proceed(g, r)
  BY DEF Register, Request
<1>2. QED
  BY <1>1, Proceeding DEF Register

LEMMA LoginStep ==
  ASSUME SessionInv, NEW g \in Goroutines, NEW c \in Credentials, Login(g, c)
  PROVE  SessionInv'
<1>1. PICK i \in DOMAIN users :
        Proceed(g, [pc |-> "save", session |->
                      [user |-> i, born |-> now, parent |-> NoParent, begun |-> now]])
  BY DEF Login
<1> DEFINE n == [user |-> i, born |-> now, parent |-> NoParent, begun |-> now]
           r == [pc |-> "save", session |-> n]
<1>2. i \in Nat /\ now \in Nat
  BY DEF SessionInv, AccountsTypeOK
<1>3. n \in Session
  BY <1>2 DEF Session, NoParent
<1>4. r \in Request /\ r.pc = "save" /\ r.session.user = i /\ r.session.parent = NoParent
  BY <1>3 DEF Request
<1>5. QED
  BY <1>1, <1>4, Proceeding DEF Login

LEMMA RefreshStep ==
  ASSUME SessionInv, NEW g \in Goroutines, NEW t \in known, Refresh(g, t)
  PROVE  SessionInv'
<1> DEFINE r == [pc |-> "delete", token |-> t, begun |-> now]
<1>1. t \in DOMAIN sessions /\ t \in Nat /\ now \in Nat
  BY DEF SessionInv, AccountsTypeOK
<1>2. r \in Request /\ r.pc = "delete" /\ r.token = t /\ Proceed(g, r)
  BY <1>1 DEF Refresh, Request
<1>3. QED
  BY <1>1, <1>2, Proceeding DEF Refresh

LEMMA NewProjectStep ==
  ASSUME SessionInv, NEW g \in Goroutines, NEW i \in known, NEW n \in Names,
         NewProject(g, i, n)
  PROVE  SessionInv'
<1> DEFINE u == sessions[i].user
           r == [pc |-> "createProject", project |-> [owner |-> u, name |-> n]]
<1>1. u \in DOMAIN users /\ u \in Nat
  BY DEF SessionInv, AccountsTypeOK
<1>2. r \in Request /\ r.pc = "createProject" /\ r.project.owner = u /\ Proceed(g, r)
  BY <1>1 DEF NewProject, Request, Project
<1>3. QED
  BY <1>1, <1>2, Proceeding DEF NewProject

LEMMA RenameStep ==
  ASSUME SessionInv, NEW g \in Goroutines, NEW i \in known, NEW n \in Names,
         NEW p \in DOMAIN projects, Rename(g, i, p, n)
  PROVE  SessionInv'
<1> DEFINE r == [pc |-> "rename", user |-> sessions[i].user, project |-> p, name |-> n]
<1>1. sessions[i].user \in Nat /\ p \in Nat
  BY DEF SessionInv, AccountsTypeOK
<1>2. r \in Request /\ r.pc = "rename" /\ Proceed(g, r)
  BY <1>1 DEF Rename, Request
<1>3. r.project = p /\ r.user = projects[p].owner
  BY DEF Rename, CheckOwnership
<1>4. QED
  BY <1>2, <1>3, Proceeding DEF Rename

LEMMA CreateUserStep ==
  ASSUME SessionInv, NEW g \in Goroutines, CreateUser(g)
  PROVE  SessionInv'
<1>1. users' = users \/ (users' = Append(users, req[g].user) /\ req[g].user \in Credentials)
  BY Carried DEF CreateUser, Inserted, SessionInv
<1>2. users \in Seq(Credentials) /\ DOMAIN users = 1..Len(users) /\ Len(users) \in Nat
  BY DEF SessionInv, AccountsTypeOK
<1>3. users' \in Seq(Credentials) /\ DOMAIN users \subseteq DOMAIN users'
  <2>1. CASE users' = users
    BY <1>2, <2>1
  <2>2. CASE users' = Append(users, req[g].user) /\ req[g].user \in Credentials
    BY <1>2, <2>2
  <2>3. QED
    BY <1>1, <2>1, <2>2
<1>4. welcomed' \subseteq Credentials
  BY Carried DEF CreateUser, SessionInv, AccountsTypeOK
<1>5. Underway' /\ req' \in [Goroutines -> Request]
  BY <1>3, Finishing DEF CreateUser, SessionInv, OwnersStay
<1>6. AccountsTypeOK'
  BY <1>3, <1>4, <1>5 DEF CreateUser, SessionInv, AccountsTypeOK
<1>7. (Lineage /\ ExchangedIsGone)'
  BY DEF CreateUser, SessionInv, Lineage, ExchangedIsGone, Exchanged
<1>8. QED
  BY <1>5, <1>6, <1>7 DEF SessionInv

\* A token only leaves the collection: that disturbs nothing.
LEMMA TokenGone ==
  ASSUME SessionInv, tokens' \subseteq tokens,
         UNCHANGED <<now, users, welcomed, sessions, known, projects>>,
         req' \in [Goroutines -> Request], Underway'
  PROVE  SessionInv'
<1>1. AccountsTypeOK'
  BY DEF SessionInv, AccountsTypeOK
<1>2. (Lineage /\ ExchangedIsGone)'
  BY DEF SessionInv, Lineage, ExchangedIsGone, Exchanged
<1>3. QED
  BY <1>1, <1>2 DEF SessionInv

LEMMA DeleteStep ==
  ASSUME SessionInv, NEW g \in Goroutines, DeleteRefreshToken(g)
  PROVE  SessionInv'
<1> DEFINE t == req[g].token
           n == [user |-> sessions[t].user, born |-> now, parent |-> t, begun |-> req[g].begun]
           r == Successor(req[g])
<1>1. t \in DOMAIN sessions /\ t \in Nat /\ req[g].begun \in Nat /\ now \in Nat
  BY Carried DEF DeleteRefreshToken, SessionInv, Underway, AccountsTypeOK
<1>2. sessions[t].user \in DOMAIN users /\ sessions[t].user \in Nat
  BY <1>1 DEF SessionInv, AccountsTypeOK
<1>3. r = [pc |-> "save", session |-> n] /\ n \in Session
  BY <1>1, <1>2 DEF Successor, Session
<1>4. r \in Request /\ r.pc = "save" /\ r.session.user = sessions[t].user /\ r.session.parent = t
  BY <1>3 DEF Request
<1>5. CASE tokens' = tokens \ {t} /\ Proceed(g, r)
  <2>1. Underway'
    BY <1>1, <1>2, <1>4, <1>5, UnderwayKept DEF DeleteRefreshToken, SessionInv, OwnersStay
  <2>2. req' \in [Goroutines -> Request]
    BY <1>4, <1>5 DEF Proceed, SessionInv, AccountsTypeOK
  <2>3. QED
    BY <1>5, <2>1, <2>2, TokenGone DEF DeleteRefreshToken
<1>6. CASE tokens' \in {tokens, tokens \ {t}} /\ Finish(g)
  <2>1. Underway' /\ req' \in [Goroutines -> Request]
    BY <1>6, Finishing DEF DeleteRefreshToken, SessionInv, OwnersStay
  <2>2. QED
    BY <1>6, <2>1, TokenGone DEF DeleteRefreshToken
<1>7. QED
  BY <1>5, <1>6 DEF DeleteRefreshToken

\* The new token is not the parent of any session, and its own parent had left.
LEMMA SaveStep ==
  ASSUME SessionInv, NEW g \in Goroutines, SaveRefreshToken(g)
  PROVE  SessionInv'
<1> DEFINE n == req[g].session
           k == Len(sessions) + 1
<1>1. n \in Session /\ n.user \in DOMAIN users
        /\ (n.parent # NoParent => n.parent \in DOMAIN sessions \ tokens)
  BY Carried DEF SaveRefreshToken, SessionInv, Underway
<1>2. CASE UNCHANGED <<sessions, tokens, known>>
  <2>1. Underway' /\ req' \in [Goroutines -> Request]
    BY <1>2, Finishing DEF SaveRefreshToken, SessionInv, OwnersStay
  <2>2. QED
    BY <1>2, <2>1, TokenGone DEF SaveRefreshToken
<1>3. CASE /\ sessions' = Append(sessions, n)
           /\ tokens' = tokens \cup {k}
           /\ known' \in {known, known \cup {k}}
  <2>1. /\ sessions \in Seq(Session) /\ sessions' \in Seq(Session)
        /\ DOMAIN sessions = 1..Len(sessions) /\ Len(sessions) \in Nat
        /\ DOMAIN sessions' = DOMAIN sessions \cup {k} /\ k \notin DOMAIN sessions
        /\ sessions'[k] = n /\ \A i \in DOMAIN sessions : sessions'[i] = sessions[i]
    BY <1>1, <1>3 DEF SessionInv, AccountsTypeOK
  <2>2. Underway' /\ req' \in [Goroutines -> Request]
    BY <1>3, <2>1, Finishing DEF SaveRefreshToken, SessionInv, OwnersStay
  <2>3. AccountsTypeOK'
    BY <1>1, <1>3, <2>1, <2>2 DEF SaveRefreshToken, SessionInv, AccountsTypeOK
  <2>4. Lineage'
    BY <1>1, <2>1 DEF SessionInv, Lineage
  <2>5. ExchangedIsGone'
    <3> SUFFICES ASSUME NEW t \in DOMAIN sessions', NEW i \in DOMAIN sessions',
                        sessions'[i].parent = t
                 PROVE  t \notin tokens'
      BY DEF ExchangedIsGone, Exchanged
    <3>1. t # NoParent
      BY <2>1 DEF NoParent
    <3>2. CASE i = k
      BY <1>1, <1>3, <2>1, <3>1, <3>2
    <3>3. CASE i \in DOMAIN sessions
      <4>1. t \in DOMAIN sessions
        BY <2>1, <3>1, <3>3 DEF SessionInv, Lineage
      <4>2. t \notin tokens
        BY <2>1, <3>3, <4>1 DEF SessionInv, ExchangedIsGone, Exchanged
      <4>3. QED
        BY <1>3, <2>1, <4>1, <4>2
    <3>4. QED
      BY <2>1, <3>2, <3>3
  <2>6. QED
    BY <2>2, <2>3, <2>4, <2>5 DEF SessionInv
<1>4. QED
  BY <1>2, <1>3 DEF SaveRefreshToken

LEMMA TTLMonitorStep ==
  ASSUME SessionInv, NEW t \in tokens, TTLMonitor(t)
  PROVE  SessionInv'
<1>1. Underway' /\ req' \in [Goroutines -> Request]
  BY DEF TTLMonitor, SessionInv, AccountsTypeOK, Underway, At
<1>2. QED
  BY <1>1, TokenGone DEF TTLMonitor

\* Projects change, and nobody's owner does.
LEMMA ProjectStep ==
  ASSUME SessionInv, NEW g \in Goroutines, Finish(g), OwnersStay,
         projects' \in Seq(Project),
         \A p \in DOMAIN projects' : projects'[p].owner \in DOMAIN users,
         UNCHANGED <<now, users, welcomed, sessions, tokens, known>>
  PROVE  SessionInv'
<1>1. Underway' /\ req' \in [Goroutines -> Request]
  BY Finishing DEF SessionInv
<1>2. AccountsTypeOK'
  BY <1>1 DEF SessionInv, AccountsTypeOK
<1>3. (Lineage /\ ExchangedIsGone)'
  BY DEF SessionInv, Lineage, ExchangedIsGone, Exchanged
<1>4. QED
  BY <1>1, <1>2, <1>3 DEF SessionInv

LEMMA CreateProjectStep ==
  ASSUME SessionInv, NEW g \in Goroutines, CreateProject(g)
  PROVE  SessionInv'
<1> DEFINE n == req[g].project
<1>1. n \in Project /\ n.owner \in DOMAIN users
  BY Carried DEF CreateProject, SessionInv, Underway
<1>2. /\ projects \in Seq(Project)
      /\ \A p \in DOMAIN projects : projects[p].owner \in DOMAIN users
  BY DEF SessionInv, AccountsTypeOK
<1>3. projects' = projects \/ projects' = Append(projects, n)
  BY DEF CreateProject
<1>4. projects' \in Seq(Project) /\ OwnersStay
        /\ \A p \in DOMAIN projects' : projects'[p].owner \in DOMAIN users
  BY <1>1, <1>2, <1>3 DEF OwnersStay
<1>5. QED
  BY <1>4, ProjectStep DEF CreateProject

LEMMA RenamedType ==
  ASSUME NEW project \in Project, NEW name \in Names
  PROVE  Renamed(project, name) \in Project /\ Renamed(project, name).owner = project.owner
  BY DEF Renamed, Project

\* What UpdateProjectName changes, on the strength of what Rename had read.
LEMMA RenamedByOwner ==
  ASSUME SessionInv, NEW g \in Goroutines, UpdateProjectName(g)
  PROVE  /\ req[g].project \in DOMAIN projects
         /\ projects[req[g].project].owner = req[g].user
         /\ projects' \in Seq(Project)
         /\ DOMAIN projects' = DOMAIN projects
         /\ \A p \in DOMAIN projects : projects'[p].owner = projects[p].owner
         /\ \A p \in DOMAIN projects : projects'[p] # projects[p] => p = req[g].project
<1> DEFINE q == req[g].project
<1>1. q \in DOMAIN projects /\ projects[q].owner = req[g].user /\ req[g].name \in Names
  BY Carried DEF UpdateProjectName, SessionInv, Underway
<1>2. projects \in Seq(Project) /\ \A p \in DOMAIN projects : projects[p] \in Project
  BY DEF SessionInv, AccountsTypeOK
<1>3. projects' = projects \/ projects' = [projects EXCEPT ![q] = Renamed(projects[q], req[g].name)]
  BY DEF UpdateProjectName
<1>4. Renamed(projects[q], req[g].name) \in Project
        /\ Renamed(projects[q], req[g].name).owner = projects[q].owner
  BY <1>1, <1>2, RenamedType
<1>5. CASE projects' = projects
  BY <1>1, <1>2, <1>5
<1>6. CASE projects' = [projects EXCEPT ![q] = Renamed(projects[q], req[g].name)]
  BY <1>1, <1>2, <1>4, <1>6
<1>7. QED
  BY <1>3, <1>5, <1>6

LEMMA UpdateProjectNameStep ==
  ASSUME SessionInv, NEW g \in Goroutines, UpdateProjectName(g)
  PROVE  SessionInv'
<1>1. OwnersStay /\ projects' \in Seq(Project)
        /\ \A p \in DOMAIN projects' : projects'[p].owner \in DOMAIN users
  BY RenamedByOwner DEF OwnersStay, SessionInv, AccountsTypeOK
<1>2. QED
  BY <1>1, ProjectStep DEF UpdateProjectName

LEMMA SessionNext == SessionInv /\ [Next]_vars => SessionInv'
<1> SUFFICES ASSUME SessionInv, [Next]_vars PROVE SessionInv'
  OBVIOUS
<1>1. CASE Tick
  BY <1>1 DEF Tick, SessionInv, AccountsTypeOK, Underway, Lineage, ExchangedIsGone, Exchanged, At
<1>2. CASE UNCHANGED vars
  BY <1>2 DEF vars, SessionInv, AccountsTypeOK, Underway, Lineage, ExchangedIsGone, Exchanged, At
<1>3. ASSUME NEW g \in Goroutines, NEW c \in Credentials, Register(g, c) \/ Login(g, c)
      PROVE  SessionInv'
  BY <1>3, RegisterStep, LoginStep
<1>4. ASSUME NEW g \in Goroutines, NEW t \in known, Refresh(g, t)
      PROVE  SessionInv'
  BY <1>4, RefreshStep
<1>5. ASSUME NEW g \in Goroutines, NEW i \in known, NEW n \in Names,
             NewProject(g, i, n) \/ \E p \in DOMAIN projects : Rename(g, i, p, n)
      PROVE  SessionInv'
  BY <1>5, NewProjectStep, RenameStep
<1>6. ASSUME NEW g \in Goroutines,
             \/ CreateUser(g) \/ DeleteRefreshToken(g) \/ SaveRefreshToken(g)
             \/ CreateProject(g) \/ UpdateProjectName(g)
      PROVE  SessionInv'
  BY <1>6, CreateUserStep, DeleteStep, SaveStep, CreateProjectStep, UpdateProjectNameStep
<1>7. ASSUME NEW t \in tokens, TTLMonitor(t)
      PROVE  SessionInv'
  BY <1>7, TTLMonitorStep
<1>8. QED
  BY <1>1, <1>2, <1>3, <1>4, <1>5, <1>6, <1>7 DEF Next

-----------------------------------------------------------------------------
(* The theorems. *)

LEMMA SessionInvariant == Spec => []SessionInv
  BY SessionInit, SessionNext, PTL DEF Spec

\* The documents stay well formed: no request gives a session or a project to
\* a user who is not in the collection users.
THEOREM TypeCorrect == Spec => []AccountsTypeOK
<1>1. SessionInv => AccountsTypeOK
  BY DEF SessionInv
<1>2. QED
  BY <1>1, SessionInvariant, PTL

\* A refresh token that was exchanged is not in the collection, however many
\* requests overlap and whichever of their calls fail.
THEOREM ExchangedStaysGone == Spec => []ExchangedIsGone
<1>1. SessionInv => ExchangedIsGone
  BY DEF SessionInv
<1>2. QED
  BY <1>1, SessionInvariant, PTL

\* Overlapping registrations leave one account per address, and the one that
\* was answered with 201 is that account.
AccountsInv == SessionInv /\ OneAccountPerEmail /\ WelcomeHolds

LEMMA AccountsNext == AccountsInv /\ [Next]_vars => AccountsInv'
<1> SUFFICES ASSUME AccountsInv, [Next]_vars PROVE AccountsInv'
  OBVIOUS
<1>1. SessionInv'
  BY SessionNext DEF AccountsInv
<1>2. CASE UNCHANGED <<users, welcomed>>
  BY <1>1, <1>2 DEF AccountsInv, OneAccountPerEmail, WelcomeHolds
<1>3. ASSUME NEW g \in Goroutines, CreateUser(g), users' # users \/ welcomed' # welcomed
      PROVE  AccountsInv'
  <2> DEFINE u == req[g].user
             k == Len(users) + 1
  <2>1. ~ Registered(u.email) /\ users' = Append(users, u)
          /\ welcomed' \in {welcomed, welcomed \cup {u}}
    BY <1>3 DEF CreateUser, Inserted
  <2>2. users \in Seq(Credentials) /\ u \in Credentials
    BY <1>3, Carried DEF CreateUser, AccountsInv, SessionInv, AccountsTypeOK
  <2>3. /\ DOMAIN users' = DOMAIN users \cup {k} /\ users'[k] = u
        /\ \A i \in DOMAIN users : users'[i] = users[i]
    BY <2>1, <2>2
  <2>4. \A i \in DOMAIN users : users[i].email # u.email
    BY <2>1 DEF Registered
  <2>5. OneAccountPerEmail'
    BY <2>3, <2>4 DEF AccountsInv, OneAccountPerEmail
  <2>6. WelcomeHolds'
    BY <2>1, <2>3 DEF AccountsInv, WelcomeHolds
  <2>7. QED
    BY <1>1, <2>5, <2>6 DEF AccountsInv
<1>4. QED
  BY <1>2, <1>3 DEF Next, vars, Tick, Register, Login, Refresh, DeleteRefreshToken,
       SaveRefreshToken, NewProject, Rename, CreateProject, UpdateProjectName, TTLMonitor

LEMMA AccountsInvariant == Spec => []AccountsInv
<1>1. Init => AccountsInv
  BY SessionInit DEF Init, AccountsInv, OneAccountPerEmail, WelcomeHolds
<1>2. QED
  BY <1>1, AccountsNext, PTL DEF Spec

\* No overlap of registrations makes two accounts with one address.
THEOREM AccountsAreUnique == Spec => []OneAccountPerEmail
<1>1. AccountsInv => OneAccountPerEmail
  BY DEF AccountsInv
<1>2. QED
  BY <1>1, AccountsInvariant, PTL

\* An account that register confirmed is there with the confirmed password.
THEOREM WelcomeIsKept == Spec => []WelcomeHolds
<1>1. AccountsInv => WelcomeHolds
  BY DEF AccountsInv
<1>2. QED
  BY <1>1, AccountsInvariant, PTL

\* A project is renamed on behalf of its owner only, and keeps its owner: what
\* CheckOwnership has read is still true when UpdateOne runs.
THEOREM RenamingIsOwned == Spec => OnlyOwnerRenames
<1> DEFINE Owned(p) == projects'[p] # projects[p] =>
             /\ projects'[p].owner = projects[p].owner
             /\ \E g \in Goroutines : /\ At(g, "rename")
                                      /\ req[g].project = p
                                      /\ req[g].user = projects[p].owner
           A == \A p \in DOMAIN projects : Owned(p)
<1>1. SessionInv /\ [Next]_vars => [A]_vars
  <2> SUFFICES ASSUME SessionInv, Next PROVE A
    OBVIOUS
  <2>1. CASE UNCHANGED projects
    BY <2>1
  <2>2. ASSUME NEW g \in Goroutines, CreateProject(g) PROVE A
    <3>1. projects \in Seq(Project) /\ req[g].project \in Project
      BY <2>2, Carried DEF CreateProject, SessionInv, AccountsTypeOK
    <3>2. CASE projects' = Append(projects, req[g].project)
      BY <3>1, <3>2
    <3>3. QED
      BY <2>1, <2>2, <3>2 DEF CreateProject
  <2>3. ASSUME NEW g \in Goroutines, UpdateProjectName(g) PROVE A
    BY <2>3, RenamedByOwner DEF UpdateProjectName
  <2>4. QED
    BY <2>1, <2>2, <2>3 DEF Next, vars, Tick, Register, CreateUser, Login, Refresh,
         DeleteRefreshToken, SaveRefreshToken, NewProject, Rename, TTLMonitor
<1>2. QED
  BY <1>1, SessionInvariant, PTL DEF Spec, OnlyOwnerRenames

-----------------------------------------------------------------------------
(* Expired tokens. *)

\* A session under way carries a token that had not expired when its request
\* began.
InTime ==
  \A g \in Goroutines :
    /\ At(g, "delete") => req[g].begun <= Expiry(req[g].token)
    /\ At(g, "save") /\ req[g].session.parent # NoParent
         => req[g].session.begun <= Expiry(req[g].session.parent)

ExpiryInv == InTime /\ ExpiredIsUseless

LEMMA ExpiryNext == SessionInv /\ ExpiryInv /\ [Next]_vars => ExpiryInv'
<1> SUFFICES ASSUME SessionInv, ExpiryInv, [Next]_vars PROVE ExpiryInv'
  OBVIOUS
<1>1. req \in [Goroutines -> Request]
  BY DEF SessionInv, AccountsTypeOK
<1>2. ASSUME NEW g \in Goroutines, NEW r, Proceed(g, r), UNCHANGED sessions,
             r.pc = "delete" => r.begun <= Expiry(r.token),
             r.pc = "save" /\ r.session.parent # NoParent
               => r.session.begun <= Expiry(r.session.parent)
      PROVE  ExpiryInv'
  <2>1. req'[g] = r /\ \A h \in Goroutines \ {g} : req'[h] = req[h]
    BY <1>1, <1>2 DEF Proceed
  <2>2. InTime'
    BY <1>2, <2>1 DEF ExpiryInv, InTime, At, Expiry
  <2>3. ExpiredIsUseless'
    BY <1>2 DEF ExpiryInv, ExpiredIsUseless, Expiry
  <2>4. QED
    BY <2>2, <2>3 DEF ExpiryInv
<1>3. Idle.pc = "idle"
  BY DEF Idle
<1>4. ASSUME NEW g \in Goroutines, Finish(g), UNCHANGED sessions
      PROVE  ExpiryInv'
  BY <1>2, <1>3, <1>4 DEF Finish
<1>5. CASE UNCHANGED <<sessions, req>>
  BY <1>5 DEF ExpiryInv, InTime, ExpiredIsUseless, At, Expiry
<1>6. ASSUME NEW g \in Goroutines, NEW c \in Credentials, Register(g, c)
      PROVE  ExpiryInv'
  <2> DEFINE r == [pc |-> "createUser", user |-> c]
  <2>1. Proceed(g, r) /\ UNCHANGED sessions /\ r.pc = "createUser"
    BY <1>6 DEF Register
  <2>2. QED
    BY <1>2, <2>1
<1>7. ASSUME NEW g \in Goroutines, NEW c \in Credentials, Login(g, c)
      PROVE  ExpiryInv'
  <2>1. PICK i \in DOMAIN users :
          Proceed(g, [pc |-> "save", session |->
                        [user |-> i, born |-> now, parent |-> NoParent, begun |-> now]])
    BY <1>7 DEF Login
  <2> DEFINE r == [pc |-> "save", session |->
                     [user |-> i, born |-> now, parent |-> NoParent, begun |-> now]]
  <2>2. r.pc = "save" /\ r.session.parent = NoParent
    OBVIOUS
  <2>3. QED
    BY <1>2, <1>7, <2>1, <2>2 DEF Login
<1>8. ASSUME NEW g \in Goroutines, NEW t \in known, Refresh(g, t)
      PROVE  ExpiryInv'
  <2> DEFINE r == [pc |-> "delete", token |-> t, begun |-> now]
  <2>1. /\ Proceed(g, r) /\ UNCHANGED sessions
        /\ r.pc = "delete" /\ r.token = t /\ r.begun = now /\ now <= Expiry(t)
    BY <1>8 DEF Refresh, Usable
  <2>2. QED
    BY <1>2, <2>1
<1>9. ASSUME NEW g \in Goroutines, DeleteRefreshToken(g)
      PROVE  ExpiryInv'
  <2> DEFINE r == Successor(req[g])
  <2>1. r.pc = "save" /\ r.session.parent = req[g].token /\ r.session.begun = req[g].begun
    BY DEF Successor
  <2>2. req[g].begun <= Expiry(req[g].token)
    BY <1>9 DEF DeleteRefreshToken, ExpiryInv, InTime
  <2>3. CASE Proceed(g, r)
    BY <1>2, <1>9, <2>1, <2>2, <2>3 DEF DeleteRefreshToken
  <2>4. CASE Finish(g)
    BY <1>4, <1>9, <2>4 DEF DeleteRefreshToken
  <2>5. QED
    BY <1>9, <2>3, <2>4 DEF DeleteRefreshToken
<1>10. ASSUME NEW g \in Goroutines, SaveRefreshToken(g), sessions' # sessions
       PROVE  ExpiryInv'
  <2> DEFINE n == req[g].session
             k == Len(sessions) + 1
             Until(t) == sessions'[t].born + RefreshTTL
  <2>1. /\ sessions' = Append(sessions, n) /\ At(g, "save") /\ Finish(g)
    BY <1>10 DEF SaveRefreshToken
  <2>2. n \in Session /\ sessions \in Seq(Session)
    BY <2>1, Carried DEF SessionInv, AccountsTypeOK
  <2>3. /\ DOMAIN sessions' = DOMAIN sessions \cup {k}
        /\ sessions'[k] = n /\ \A i \in DOMAIN sessions : sessions'[i] = sessions[i]
    BY <2>1, <2>2
  <2>4. \A i \in DOMAIN sessions : Until(i) = Expiry(i)
    BY <2>3 DEF Expiry
  <2>5. req'[g] = Idle /\ \A h \in Goroutines \ {g} : req'[h] = req[h]
    BY <1>1, <2>1 DEF Finish, Proceed
  <2>6. InTime'
    <3> SUFFICES ASSUME NEW h \in Goroutines
                 PROVE  /\ At(h, "delete")' => req'[h].begun <= Until(req'[h].token)
                        /\ At(h, "save")' /\ req'[h].session.parent # NoParent
                             => req'[h].session.begun <= Until(req'[h].session.parent)
      BY DEF InTime, Expiry
    <3>1. CASE h = g
      BY <1>3, <2>5, <3>1 DEF At
    <3>2. CASE h # g
      <4>1. req'[h] = req[h]
        BY <2>5, <3>2
      <4>2. /\ At(h, "delete") => req[h].token \in DOMAIN sessions
            /\ At(h, "save") /\ req[h].session.parent # NoParent
                 => req[h].session.parent \in DOMAIN sessions
        BY DEF SessionInv, Underway
      <4>3. QED
        BY <2>4, <4>1, <4>2 DEF ExpiryInv, InTime, At
    <3>3. QED
      BY <3>1, <3>2
  <2>7. ExpiredIsUseless'
    <3> SUFFICES ASSUME NEW i \in DOMAIN sessions', sessions'[i].parent # NoParent
                 PROVE  sessions'[i].begun <= Until(sessions'[i].parent)
      BY DEF ExpiredIsUseless, Expiry
    <3>1. CASE i = k
      <4>1. n.parent \in DOMAIN sessions /\ n.begun <= Expiry(n.parent)
        BY <2>1, <2>3, <3>1 DEF SessionInv, Underway, ExpiryInv, InTime
      <4>2. QED
        BY <2>3, <2>4, <3>1, <4>1
    <3>2. CASE i \in DOMAIN sessions
      <4>1. /\ sessions[i].parent \in DOMAIN sessions
            /\ sessions[i].begun <= Expiry(sessions[i].parent)
        BY <2>3, <3>2 DEF SessionInv, Lineage, ExpiryInv, ExpiredIsUseless
      <4>2. QED
        BY <2>3, <2>4, <3>2, <4>1
    <3>3. QED
      BY <2>3, <3>1, <3>2
  <2>8. QED
    BY <2>6, <2>7 DEF ExpiryInv
<1>11. ASSUME NEW g \in Goroutines, NEW i \in known, NEW n \in Names, NewProject(g, i, n)
       PROVE  ExpiryInv'
  <2> DEFINE r == [pc |-> "createProject",
                   project |-> [owner |-> sessions[i].user, name |-> n]]
  <2>1. Proceed(g, r) /\ UNCHANGED sessions /\ r.pc = "createProject"
    BY <1>11 DEF NewProject
  <2>2. QED
    BY <1>2, <2>1
<1>12. ASSUME NEW g \in Goroutines, NEW i \in known, NEW n \in Names,
              NEW p \in DOMAIN projects, Rename(g, i, p, n)
       PROVE  ExpiryInv'
  <2> DEFINE r == [pc |-> "rename", user |-> sessions[i].user, project |-> p, name |-> n]
  <2>1. Proceed(g, r) /\ UNCHANGED sessions /\ r.pc = "rename"
    BY <1>12 DEF Rename
  <2>2. QED
    BY <1>2, <2>1
<1>13. ASSUME NEW g \in Goroutines,
              \/ CreateUser(g) \/ CreateProject(g) \/ UpdateProjectName(g)
              \/ SaveRefreshToken(g) /\ sessions' = sessions
       PROVE  ExpiryInv'
  BY <1>4, <1>13 DEF CreateUser, CreateProject, UpdateProjectName, SaveRefreshToken
<1>14. CASE Tick \/ UNCHANGED vars \/ \E t \in tokens : TTLMonitor(t)
  BY <1>5, <1>14 DEF Tick, TTLMonitor, vars
<1>15. QED
  BY <1>6, <1>7, <1>8, <1>9, <1>10, <1>11, <1>12, <1>13, <1>14 DEF Next

\* However late the TTL index removes an expired token, and whatever overlaps,
\* no session comes out of it.
THEOREM ExpiredStaysUseless == Spec => []ExpiredIsUseless
<1>1. Init => ExpiryInv
  BY DEF Init, ExpiryInv, InTime, ExpiredIsUseless, At, Idle
<1>2. ExpiryInv => ExpiredIsUseless
  BY DEF ExpiryInv
<1>3. QED
  BY <1>1, <1>2, SessionInvariant, ExpiryNext, PTL DEF Spec

=============================================================================
