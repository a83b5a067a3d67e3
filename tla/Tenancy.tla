------------------------------ MODULE Tenancy ------------------------------
(***************************************************************************)
(* Who may do what: accounts (registration, verification of the address,   *)
(* passwords, tokens), workspaces, their members with policies, and        *)
(* invitations.                                                            *)
(*                                                                         *)
(* A request is let in on what the middlewares read, handlers read again   *)
(* what they check, and a transaction writes later: job keeps what a       *)
(* request knows meanwhile.  The reads a request makes in a row before it  *)
(* waits for its transaction are one step.  A transaction (READ COMMITTED) *)
(* is one step, its commit, except for the deletion that begins an update  *)
(* of policies, which takes what it can see before.  Names, slugs and what *)
(* mails say are left out; who receives the mail knows the token in it.    *)
(***************************************************************************)
EXTENDS Naturals, FiniteSets, FiniteSetsExt

CONSTANTS
    Request,        \* requests handled at the same time
    None,
    User, Workspace, Invitation, Token,   \* ids, none is used twice
    Email,          \* addresses as they are typed
    lower,          \* strings.ToLower(strings.TrimSpace(.)) of an address
    Su,             \* su@sudo, which stands for no address one can type
    Secret,         \* passwords
    Policy, Given,  \* policies, and the sets of them that requests give
    AllowRegistration, RequireEmailVerification,   \* env
    StartUser, StartLink, StartReset,    \* rows there are when the model starts
    StartWorkspace, StartMember, StartInvitation,
    Kinds,          \* kinds of requests that arrive
    MaxRequests, MaxFaults, MaxExpiries

ASSUME TenancyAssumption ==
    /\ lower \in [Email -> Email] /\ \A e \in Email : lower[lower[e]] = lower[e]
    /\ Su \notin Email /\ {"admin", "members"} \subseteq Policy
    /\ Given \subseteq SUBSET Policy
    /\ {AllowRegistration, RequireEmailVerification} \subseteq BOOLEAN
    /\ MaxRequests \in Nat /\ MaxFaults \in Nat /\ MaxExpiries \in Nat

\* Rows of users, password_reset_tokens, workspace_invitations and
\* workspace_members.
UserRow == [email : Email \cup {Su}, password : Secret \cup {None}, role : {"admin", "user"},
            verified : BOOLEAN]
ResetRow == [user : User, used : BOOLEAN, expired : BOOLEAN]
InvitationRow == [workspace : Workspace, email : Email, by : User,
                  given : SUBSET Policy, used : BOOLEAN, expired : BOOLEAN]
MemberRow == [rows : SUBSET (Policy \X Nat), change : Nat, id : Nat]

ASSUME RowAssumption ==
    /\ None \notin UserRow /\ None \notin ResetRow
    /\ None \notin InvitationRow /\ None \notin MemberRow
    /\ Token \cap Invitation = {}

\* The rows there are when the model starts: what refers to a row refers to one
\* that is there, who has a link to follow is not verified, and every workspace
\* has its creator.
ASSUME StartAssumption ==
    /\ StartUser \in [User -> UserRow \cup {None}]
    /\ \A u \in StartLink : u \in User /\ StartUser[u] # None /\ ~StartUser[u].verified
    /\ StartReset \in [Token -> ResetRow \cup {None}]
    /\ StartWorkspace \subseteq Workspace
    /\ DOMAIN StartMember \subseteq StartWorkspace \X {u \in User : StartUser[u] # None}
    /\ \A p \in DOMAIN StartMember : StartMember[p] \subseteq Policy
    /\ \A w \in StartWorkspace :
         \E u \in User : <<w, u>> \in DOMAIN StartMember /\ StartMember[<<w, u>>] = Policy
    /\ StartInvitation \in [Invitation -> InvitationRow \cup {None}]
    /\ \A i \in Invitation : StartInvitation[i] # None =>
         /\ StartInvitation[i].workspace \in StartWorkspace
         /\ StartUser[StartInvitation[i].by] # None

VARIABLES
    user,          \* id -> row of users, None if there is none
    verification,  \* user -> state of its row of email_verifications
    reset,         \* token -> row of password_reset_tokens
    workspace,     \* rows of workspaces
    member,        \* workspace and user -> row of workspace_members
    invitation,    \* id -> row of workspace_invitations
    session,       \* users whose JWT somebody holds
    taken,         \* ids that were used
    job,           \* request -> what it does next, for whom, and what it read
    requests, faults, expiries,
    spent,         \* reset tokens and invitations that were used (history)
    stripped       \* workspaces one of whose rulers was changed (history)

accounts == <<user, verification, reset, session>>
spaces   == <<workspace, member, invitation>>
history  == <<spent, stripped>>
bounds   == <<requests, faults, expiries>>
vars     == <<accounts, spaces, taken, job, bounds, history>>

Row == {"none", "pending", "verified", "expired"}
Ids == User \cup Workspace \cup Invitation \cup Token

Idle == [at |-> "idle", by |-> None, on |-> None, data |-> None, number |-> 0]

Lower(e) == IF e = Su THEN Su ELSE lower[e]

NewUser(email, secret, role, verified) ==
    [email |-> email, password |-> secret, role |-> role, verified |-> verified]

\* id is the number of the request that inserts the row.  Its policies are
\* pairs: the policy and the number of the change that inserted it.
NewMember(id, policies) ==
    [rows |-> policies \X {0}, change |-> 0, id |-> id]

Init ==
    /\ user = StartUser
    /\ verification = [u \in User |-> IF u \in StartLink THEN "pending" ELSE "none"]
    /\ reset = StartReset
    /\ workspace = StartWorkspace
    /\ member = [p \in Workspace \X User |->
                   IF p \in DOMAIN StartMember THEN NewMember(0, StartMember[p]) ELSE None]
    /\ invitation = StartInvitation
    /\ session = {u \in User : user[u] # None}
    /\ taken = session \cup workspace \cup {t \in Token : reset[t] # None}
                \cup {i \in Invitation : invitation[i] # None}
    /\ job = [r \in Request |-> Idle]
    /\ requests = 0 /\ faults = 0 /\ expiries = 0
    /\ spent = {} /\ stripped = {}

----------------------------------------------------------------------------
(* The middlewares.                                                        *)

HasEmail(e) == {u \in User : user[u] # None /\ user[u].email = e}

\* UserMiddleware: the row the token names has to exist.
Authenticated(u) == u \in session /\ user[u] # None

EmailVerified(u) == RequireEmailVerification => user[u].verified

SuperUser(u) == Authenticated(u) /\ user[u].role = "admin"

Policies(p) == {x[1] : x \in member[p].rows}

\* The member p has the policy that stands for all others.
Rules(p) == member[p] # None /\ "admin" \in Policies(p)

\* WorkspaceMiddleware and RequirePolicy.
MayUse(u, w, policy) ==
    /\ Authenticated(u) /\ EmailVerified(u)
    /\ w \in workspace /\ member[<<w, u>>] # None
    /\ Policies(<<w, u>>) \cap {"admin", policy} # {}

\* A request arrives and passes its middlewares and first checks.
Begin(r, kind, by, on, data) ==
    /\ kind \in Kinds /\ job[r] = Idle /\ requests < MaxRequests
    /\ job' = [job EXCEPT ![r] = [at |-> kind, by |-> by, on |-> on, data |-> data,
                                    number |-> requests + 1]]
    /\ requests' = requests + 1
    /\ UNCHANGED <<accounts, spaces, taken, faults, expiries, history>>

At(r, step) == job[r].at = step

Done(r) == /\ job' = [job EXCEPT ![r] = Idle]
           /\ UNCHANGED bounds

\* The database fails, a constraint is violated or the process ends: a
\* transaction leaves nothing behind.
Fail(r) ==
    /\ job[r] # Idle /\ faults < MaxFaults
    /\ faults' = faults + 1
    /\ job' = [job EXCEPT ![r] = Idle]
    /\ UNCHANGED <<accounts, spaces, taken, requests, expiries, history>>

Refused(r) == Done(r) /\ UNCHANGED <<accounts, spaces, taken, history>>

----------------------------------------------------------------------------
(* Accounts.                                                               *)

\* The rows that go with a user: ON DELETE CASCADE.
DropUser(u) ==
    /\ user' = [user EXCEPT ![u] = None]
    /\ verification' = [verification EXCEPT ![u] = "none"]
    /\ reset' = [t \in Token |->
                   IF reset[t] # None /\ reset[t].user = u THEN None ELSE reset[t]]
    /\ member' = [p \in DOMAIN member |-> IF p[2] = u THEN None ELSE member[p]]
    /\ invitation' = [i \in Invitation |->
                        IF invitation[i] # None /\ invitation[i].by = u
                        THEN None ELSE invitation[i]]
    /\ stripped' = stripped \cup {w \in Workspace : Rules(<<w, u>>)}
    /\ UNCHANGED <<workspace, session, taken, spent>>

\* Not the code: a policy that cannot be stored is passed over.
OpenWorkspacePartly(w, u) ==
    /\ workspace' = workspace \cup {w}
    /\ \E some \in SUBSET Policy : member' = [member EXCEPT ![<<w, u>>] = NewMember(0, some)]

\* The creator of a workspace is given every policy.
OpenWorkspace(w, u) ==
    /\ workspace' = workspace \cup {w}
    /\ member' = [member EXCEPT ![<<w, u>>] = NewMember(0, Policy)]

StartRegister(r) ==
    /\ AllowRegistration
    /\ \E e \in Email, s \in Secret :
         HasEmail(lower[e]) = {} /\ Begin(r, "register", None, lower[e], s)

Register(r) ==
    /\ At(r, "register")
    /\ IF HasEmail(job[r].on) # {} THEN Refused(r)   \* the e-mail is unique
       ELSE \E u \in User \ taken, w \in Workspace \ taken :
            /\ user' = [user EXCEPT ![u] = NewUser(job[r].on, job[r].data, "user",
                                                   ~RequireEmailVerification)]
            /\ verification' = [verification EXCEPT ![u] =
                                  IF RequireEmailVerification THEN "pending" ELSE "none"]
            /\ OpenWorkspace(w, u)
            /\ taken' = taken \cup {u, w}
            /\ Done(r) /\ UNCHANGED <<reset, session, invitation, history>>

\* A link that was used or has expired changes nothing.
StartVerifyEmail(r) ==
    \E u \in User : verification[u] = "pending" /\ Begin(r, "verify", None, u, None)

\* Not the code: the link and the user are marked one after the other.
VerifyEmailInTwo(r) ==
    /\ At(r, "verify")
    /\ IF job[r].data = None
       THEN /\ verification' = [verification EXCEPT ![job[r].on] =
                                  IF user[job[r].on] = None THEN @ ELSE "verified"]
            /\ job' = [job EXCEPT ![r].data = "marked"]
            /\ UNCHANGED <<user, reset, session, spaces, taken, bounds, history>>
       ELSE /\ user' = IF user[job[r].on] = None THEN user
                       ELSE [user EXCEPT ![job[r].on].verified = TRUE]
            /\ Done(r) /\ UNCHANGED <<verification, reset, session, spaces, taken, history>>

VerifyEmail(r) ==
    /\ At(r, "verify")
    /\ LET u == job[r].on
       IN  IF user[u] = None THEN Refused(r)
           ELSE /\ verification' = [verification EXCEPT ![u] = "verified"]
                /\ user' = [user EXCEPT ![u].verified = TRUE]
                /\ Done(r) /\ UNCHANGED <<reset, session, spaces, taken, history>>

\* The unused tokens of the user are deleted, and a new one is stored later.
\* Nobody looks at the error of the deletion.
StartForgotPassword(r) ==
    /\ "forgot" \in Kinds /\ job[r] = Idle /\ requests < MaxRequests
    /\ \E e \in Email : \E u \in HasEmail(lower[e]) :
         /\ \/ /\ reset' = [t \in Token |->
                             IF reset[t] # None /\ reset[t].user = u /\ ~reset[t].used
                             THEN None ELSE reset[t]]
               /\ faults' = faults
            \/ /\ faults < MaxFaults /\ faults' = faults + 1
               /\ reset' = reset
         /\ job' = [job EXCEPT ![r] = [Idle EXCEPT !.at = "forgot", !.on = u]]
    /\ requests' = requests + 1
    /\ UNCHANGED <<user, verification, session, spaces, taken, expiries, history>>

ForgotPassword(r) ==
    /\ At(r, "forgot")
    /\ IF user[job[r].on] = None THEN Refused(r)
       ELSE \E t \in Token \ taken :
            /\ reset' = [reset EXCEPT ![t] =
                           [user |-> job[r].on, used |-> FALSE, expired |-> FALSE]]
            /\ taken' = taken \cup {t}
            /\ Done(r) /\ UNCHANGED <<user, verification, session, spaces, history>>

IsValid(row) == row # None /\ ~row.used /\ ~row.expired

StartResetPassword(r) ==
    \E t \in Token, s \in Secret :
       IsValid(reset[t]) /\ Begin(r, "reset", reset[t].user, t, s)

\* Both rows are written by their ids, whatever became of them.
ResetPassword(r) ==
    /\ At(r, "reset")
    /\ LET t == job[r].on  u == job[r].by
       IN  /\ user' = IF user[u] = None THEN user
                      ELSE [user EXCEPT ![u].password = job[r].data]
           /\ reset' = IF reset[t] = None THEN reset ELSE [reset EXCEPT ![t].used = TRUE]
           /\ spent' = spent \cup {t}
    /\ Done(r) /\ UNCHANGED <<verification, session, spaces, taken, stripped>>

Login(e, s) ==
    /\ \E u \in HasEmail(e) : user[u].password = s /\ session' = session \cup {u}
    /\ session' # session
    /\ UNCHANGED <<user, verification, reset, spaces, taken, job, bounds, history>>

\* A user's tokens run out; until then they can be exchanged for new ones.
SessionExpires(u) ==
    /\ expiries < MaxExpiries /\ u \in session
    /\ session' = session \ {u} /\ expiries' = expiries + 1
    /\ UNCHANGED <<user, verification, reset, spaces, taken, job, requests, faults, history>>

LinkExpires(t) ==
    /\ expiries < MaxExpiries
    /\ \/ /\ t \in User /\ verification[t] = "pending"
          /\ verification' = [verification EXCEPT ![t] = "expired"]
          /\ UNCHANGED <<reset, invitation>>
       \/ /\ t \in Token /\ reset[t] # None /\ ~reset[t].expired
          /\ reset' = [reset EXCEPT ![t].expired = TRUE]
          /\ UNCHANGED <<verification, invitation>>
       \/ /\ t \in Invitation /\ invitation[t] # None /\ ~invitation[t].expired
          /\ invitation' = [invitation EXCEPT ![t].expired = TRUE]
          /\ UNCHANGED <<verification, reset>>
    /\ expiries' = expiries + 1
    /\ UNCHANGED <<user, session, workspace, member, taken, job, requests, faults, history>>

\* The administrator's requests.  The address is stored as it was typed, and
\* the role as it was asked for.
StartUserRequest(r) ==
    \E by \in User, u \in User, e \in Email :
       /\ SuperUser(by)
       /\ \/ Begin(r, "createUser", by, e, None)
          \/ /\ user[u] # None /\ user[u].email # Su
             /\ \/ Begin(r, "updateUser", by, u, e)
                \/ Begin(r, "deleteUser", by, u, None)

CreateUser(r) ==
    /\ At(r, "createUser")
    /\ IF HasEmail(job[r].on) # {} THEN Refused(r)
       ELSE \E u \in User \ taken, s \in Secret, role \in {"admin", "user"} :
            /\ user' = [user EXCEPT ![u] = NewUser(job[r].on, s, role, FALSE)]
            /\ taken' = taken \cup {u}
            /\ Done(r) /\ UNCHANGED <<verification, reset, session, spaces, history>>

UpdateUserByID(r) ==
    /\ At(r, "updateUser")
    /\ LET u == job[r].on
       IN  IF user[u] = None \/ HasEmail(job[r].data) \ {u} # {} THEN Refused(r)
           ELSE /\ \E role \in {"admin", "user"} :
                     user' = [user EXCEPT ![u].email = job[r].data, ![u].role = role]
                /\ Done(r)
                /\ UNCHANGED <<verification, reset, session, spaces, taken, history>>

DeleteUserByID(r) == At(r, "deleteUser") /\ DropUser(job[r].on) /\ Done(r)

StartMe(r) ==
    \E u \in User, s \in Secret :
       /\ Authenticated(u)
       /\ Begin(r, "deleteMe", u, u, None) \/ Begin(r, "updateMe", u, u, s)

UpdateCurrentUser(r) ==
    /\ At(r, "updateMe")
    /\ user' = IF user[job[r].on] = None THEN user
               ELSE [user EXCEPT ![job[r].on].password = job[r].data]
    /\ Done(r) /\ UNCHANGED <<verification, reset, session, spaces, taken, history>>

DeleteCurrentUser(r) == At(r, "deleteMe") /\ DropUser(job[r].on) /\ Done(r)

----------------------------------------------------------------------------
(* Workspaces and members.                                                 *)

StartCreate(r) ==
    \E u \in User : Authenticated(u) /\ EmailVerified(u) /\ Begin(r, "create", u, None, None)

Create(r) ==
    /\ At(r, "create")
    /\ IF user[job[r].by] = None THEN Refused(r)
       ELSE \E w \in Workspace \ taken :
            /\ OpenWorkspace(w, job[r].by)
            /\ taken' = taken \cup {w}
            /\ Done(r) /\ UNCHANGED <<accounts, invitation, history>>

StartDelete(r) ==
    \E u \in User, w \in Workspace :
       MayUse(u, w, "admin") /\ Begin(r, "delete", u, w, None)

Delete(r) ==
    /\ At(r, "delete")
    /\ LET w == job[r].on
       IN  /\ workspace' = workspace \ {w}
           /\ member' = [p \in DOMAIN member |-> IF p[1] = w THEN None ELSE member[p]]
           /\ invitation' = [i \in Invitation |->
                               IF invitation[i] # None /\ invitation[i].workspace = w
                               THEN None ELSE invitation[i]]
    /\ Done(r) /\ UNCHANGED <<accounts, taken, history>>

\* Foreign keys of a member: its workspace and its user.  Both are unique.
CanJoin(p) == p[1] \in workspace /\ user[p[2]] # None /\ member[p] = None

\* The requests of somebody who may manage the members of a workspace.
StartMemberRequest(r) ==
    \E by \in User, w \in Workspace, u \in User, given \in Given :
       /\ MayUse(by, w, "members")
       /\ \/ member[<<w, u>>] = None /\ Begin(r, "add", by, <<w, u>>, given)
          \/ Begin(r, "find", by, <<w, u>>, given)
          \/ Begin(r, "remove", by, <<w, u>>, None)

AddMember(r) ==
    /\ At(r, "add")
    /\ IF ~CanJoin(job[r].on) THEN Refused(r)
       ELSE /\ member' = [member EXCEPT ![job[r].on] = NewMember(job[r].number, job[r].data)]
            /\ Done(r) /\ UNCHANGED <<accounts, workspace, invitation, taken, history>>

\* UpdateMemberPolicies reads the member; its transaction deletes the rows of
\* policies it can see, and inserts the new ones if the member is still there.
FindMember(r) ==
    /\ At(r, "find")
    /\ LET m == member[job[r].on]
       IN  IF m = None THEN Refused(r)
           ELSE /\ job' = [job EXCEPT
                             ![r].at = "update",
                             ![r].data = [given |-> @, seen |-> m.rows,
                                          id |-> m.id]]
                /\ UNCHANGED <<accounts, spaces, taken, bounds, history>>

UpdateMemberPolicies(r) ==
    /\ At(r, "update")
    /\ LET p == job[r].on  m == member[p]  d == job[r].data
       IN  IF m = None \/ m.id # d.id THEN Refused(r)
           ELSE /\ member' = [member EXCEPT ![p] =
                     [rows   |-> (m.rows \ d.seen) \cup (d.given \X {m.change + 1}),
                      change |-> m.change + 1, id |-> m.id]]
                /\ stripped' = stripped \cup {w \in {p[1]} : Rules(p)}
                /\ Done(r) /\ UNCHANGED <<accounts, workspace, invitation, taken, spent>>

RemoveMember(r) ==
    /\ At(r, "remove")
    /\ member' = [member EXCEPT ![job[r].on] = None]
    /\ stripped' = stripped \cup {w \in {job[r].on[1]} : Rules(job[r].on)}
    /\ Done(r) /\ UNCHANGED <<accounts, workspace, invitation, taken, spent>>

----------------------------------------------------------------------------
(* Invitations.                                                            *)

Pending(i) == invitation[i] # None /\ ~invitation[i].used /\ ~invitation[i].expired

StartCreateInvitation(r) ==
    \E by \in User, w \in Workspace, e \in Email, given \in Given :
       /\ MayUse(by, w, "members")
       /\ \A u \in User : user[u] # None /\ Lower(user[u].email) = lower[e]
                            => member[<<w, u>>] = None
       /\ \A i \in Invitation : Pending(i) /\ invitation[i].workspace = w
                                  => invitation[i].email # lower[e]
       /\ Begin(r, "invite", by, w, [email |-> lower[e], given |-> given])

CreateInvitation(r) ==
    /\ At(r, "invite")
    /\ IF job[r].on \notin workspace \/ user[job[r].by] = None THEN Refused(r)
       ELSE \E i \in Invitation \ taken :
            /\ invitation' = [invitation EXCEPT ![i] =
                 [workspace |-> job[r].on, email |-> job[r].data.email, by |-> job[r].by,
                  given |-> job[r].data.given, used |-> FALSE, expired |-> FALSE]]
            /\ taken' = taken \cup {i}
            /\ Done(r) /\ UNCHANGED <<accounts, workspace, member, history>>

StartRevokeInvitation(r) ==
    \E by \in User, i \in Invitation :
       /\ invitation[i] # None /\ MayUse(by, invitation[i].workspace, "members")
       /\ Begin(r, "revoke", by, i, None)

RevokeInvitation(r) ==
    /\ At(r, "revoke")
    /\ LET i == job[r].on
       IN  IF invitation[i] = None \/ invitation[i].used THEN Refused(r)
           ELSE /\ invitation' = [invitation EXCEPT ![i] = None]
                /\ Done(r) /\ UNCHANGED <<accounts, workspace, member, taken, history>>

StartClaimInvitation(r) ==
    \E by \in User, i \in Invitation :
       /\ Authenticated(by) /\ EmailVerified(by) /\ Pending(i)
       /\ Lower(user[by].email) = invitation[i].email
       /\ Begin(r, "claim", by, i, invitation[i])

\* Not the code: the invitation is saved as it was read.
ClaimUnmarked(r) ==
    /\ At(r, "claim")
    /\ LET i == job[r].on  row == job[r].data  p == <<row.workspace, job[r].by>>
       IN  IF ~CanJoin(p) \/ user[row.by] = None THEN Refused(r)
           ELSE /\ member' = [member EXCEPT ![p] = NewMember(job[r].number, row.given)]
                /\ invitation' = [invitation EXCEPT ![i] = row]
                /\ spent' = spent \cup {i}
                /\ Done(r) /\ UNCHANGED <<accounts, workspace, taken, stripped>>

\* The invitation is saved as it was read, and accepted: one that was revoked
\* meanwhile is inserted again.
ClaimInvitation(r) ==
    /\ At(r, "claim")
    /\ LET i == job[r].on  row == job[r].data  p == <<row.workspace, job[r].by>>
       IN  IF ~CanJoin(p) \/ user[row.by] = None THEN Refused(r)
           ELSE /\ member' = [member EXCEPT ![p] = NewMember(job[r].number, row.given)]
                /\ invitation' = [invitation EXCEPT ![i] = [row EXCEPT !.used = TRUE]]
                /\ spent' = spent \cup {i}
                /\ Done(r) /\ UNCHANGED <<accounts, workspace, taken, stripped>>

----------------------------------------------------------------------------
Start(r) ==
    \/ StartRegister(r) \/ StartVerifyEmail(r) \/ StartForgotPassword(r)
    \/ StartResetPassword(r) \/ StartUserRequest(r) \/ StartMe(r)
    \/ StartCreate(r) \/ StartDelete(r) \/ StartMemberRequest(r)
    \/ StartCreateInvitation(r) \/ StartRevokeInvitation(r) \/ StartClaimInvitation(r)

\* A login; a token that is exchanged for another one changes nothing here.
OAuthTokenHandler == \E e \in Email, s \in Secret : Login(e, s)

Finish(r) ==
    \/ Register(r) \/ VerifyEmail(r) \/ ForgotPassword(r) \/ ResetPassword(r)
    \/ CreateUser(r) \/ UpdateUserByID(r) \/ DeleteUserByID(r)
    \/ UpdateCurrentUser(r) \/ DeleteCurrentUser(r)
    \/ Create(r) \/ Delete(r)
    \/ AddMember(r) \/ FindMember(r) \/ UpdateMemberPolicies(r) \/ RemoveMember(r)
    \/ CreateInvitation(r) \/ RevokeInvitation(r) \/ ClaimInvitation(r)

Next ==
    \/ \E r \in Request : Start(r) \/ Finish(r) \/ Fail(r)
    \/ OAuthTokenHandler
    \/ \E u \in User : SessionExpires(u)
    \/ \E t \in Ids : LinkExpires(t)

Spec == Init /\ [][Next]_vars
----------------------------------------------------------------------------
(* What is listed: the workspaces of a user, the members of a workspace    *)
(* and its invitations, which have not been accepted.                      *)

Get(u) == {w \in workspace : member[<<w, u>>] # None}

GetMembers(w) == {u \in User : user[u] # None /\ member[<<w, u>>] # None}

GetInvitations(w) ==
    {i \in Invitation : invitation[i] # None /\ invitation[i].workspace = w
                                             /\ ~invitation[i].used}

\* Who may open a socket for what is announced in a workspace: any member.
WebSocketWorkspaceMiddleware(u, w) ==
    Authenticated(u) /\ w \in workspace /\ member[<<w, u>>] # None

HasPolicy(u, w, policy) == {"admin", policy} \cap Policies(<<w, u>>) # {}

----------------------------------------------------------------------------
(* Properties.                                                             *)

IsMemberRow(m) ==
    /\ DOMAIN m = {"rows", "change", "id"}
    /\ m.rows \subseteq Policy \X (0..m.change)
    /\ m.change \in Nat /\ m.id \in 0..requests

\* Every table holds rows of its shape, and rows only of what there is.
TypeOK ==
    /\ user \in [User -> UserRow \cup {None}]
    /\ verification \in [User -> Row]
    /\ reset \in [Token -> ResetRow \cup {None}]
    /\ workspace \subseteq Workspace
    /\ DOMAIN member = Workspace \X User
    /\ \A p \in DOMAIN member : member[p] # None =>
          /\ IsMemberRow(member[p])
          /\ p[1] \in workspace /\ user[p[2]] # None
    /\ invitation \in [Invitation -> InvitationRow \cup {None}]
    /\ \A i \in Invitation : invitation[i] # None =>
          invitation[i].workspace \in workspace /\ user[invitation[i].by] # None
    /\ session \subseteq User /\ taken \subseteq Ids /\ spent \subseteq Token \cup Invitation
    /\ stripped \subseteq Workspace
    /\ requests \in 0..MaxRequests /\ faults \in 0..MaxFaults /\ expiries \in 0..MaxExpiries

\* Who registered is let in exactly when the link was followed: the row of the
\* link and the row of the user are written together, whatever fails.
VerifiedTogether ==
    RequireEmailVerification =>
        \A u \in User : user[u] # None /\ verification[u] # "none" =>
            (user[u].verified <=> verification[u] = "verified")

\* What request r is about to use: a reset token or an invitation that was
\* valid when it looked.
Uses(r, t) == job[r].at \in {"reset", "claim"} /\ job[r].on = t

\* Once a token or an invitation has been used, no request that begins gets as
\* far as using it, and no list of invitations shows it, whatever requests that
\* had read it before still write over it: only requests that overlap with the
\* first use can use it as well.
SpentStaysSpent ==
    [][/\ \A r \in Request, t \in spent : Uses(r, t)' => Uses(r, t)
       /\ \A w \in Workspace : GetInvitations(w)' \cap spent = {}]_vars

\* docs/features/auth: a reset token is for one-time use.
TokenUsedOnce ==
    [][\A r \in Request : ResetPassword(r) => job[r].on \notin spent]_vars

\* A workspace, however it came to be and whatever failed on the way, has a
\* member with every policy, until the request comes that takes it from one who
\* had it: it is in that user's list, the user in its list of members, and may
\* follow it on a socket.  No change of another member takes it away, however
\* old what that request had read.
Administered ==
    \A w \in workspace \ stripped :
        \E u \in GetMembers(w) :
            /\ w \in Get(u) /\ \A p \in Policy : HasPolicy(u, w, p)
            /\ u \in session => WebSocketWorkspaceMiddleware(u, w)
=============================================================================
