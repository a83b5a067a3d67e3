---------------------------- MODULE TenancyProofs ----------------------------
(***************************************************************************)
(* Accounts, workspaces, members and invitations, for any number of        *)
(* requests, users, workspaces and ids: tables refer only to what there    *)
(* is, link and user are verified together, what was used stays used, and  *)
(* a workspace keeps somebody who may do everything in it.                 *)
(***************************************************************************)
EXTENDS Tenancy, TLAPS

(* The type invariant, table by table.                                     *)

UserTable == user \in [User -> UserRow \cup {None}]

LinkTable == verification \in [User -> Row]

ResetTable == reset \in [Token -> ResetRow \cup {None}]

MemberTable ==
    /\ workspace \subseteq Workspace
    /\ DOMAIN member = Workspace \X User
    /\ \A p \in DOMAIN member : member[p] # None =>
          IsMemberRow(member[p]) /\ p[1] \in workspace /\ user[p[2]] # None

InvitationTable ==
    /\ invitation \in [Invitation -> InvitationRow \cup {None}]
    /\ \A i \in Invitation : invitation[i] # None =>
          invitation[i].workspace \in workspace /\ user[invitation[i].by] # None

Histories ==
    /\ session \subseteq User /\ taken \subseteq Ids /\ spent \subseteq Token \cup Invitation
    /\ stripped \subseteq Workspace

Counters ==
    requests \in 0..MaxRequests /\ faults \in 0..MaxFaults /\ expiries \in 0..MaxExpiries

\* What a request of a kind knows while it waits for its transaction.
Fits(at, by, on, data) ==
    /\ at = "register" => on \in Email /\ data \in Secret
    /\ at \in {"verify", "forgot", "deleteUser", "deleteMe"} => on \in User
    /\ at = "reset" => by \in User /\ on \in Token \cap taken /\ data \in Secret
    /\ at = "createUser" => on \in Email
    /\ at = "updateUser" => on \in User /\ data \in Email
    /\ at = "updateMe" => on \in User /\ data \in Secret
    /\ at = "create" => by \in User
    /\ at = "delete" => on \in Workspace
    /\ at \in {"add", "find", "update", "remove"} => on \in Workspace \X User
    /\ at \in {"add", "find"} => data \subseteq Policy
    /\ at = "update" => data.given \subseteq Policy
    /\ at = "invite" => /\ by \in User /\ on \in Workspace
                        /\ data.email \in Email /\ data.given \subseteq Policy
    /\ at = "revoke" => on \in Invitation
    /\ at = "claim" => by \in User /\ on \in Invitation \cap taken /\ data \in InvitationRow

Jobs ==
    /\ DOMAIN job = Request
    /\ \A r \in Request :
         /\ DOMAIN job[r] = {"at", "by", "on", "data", "number"}
         /\ job[r].number \in 0..requests
         /\ Fits(job[r].at, job[r].by, job[r].on, job[r].data)

\* An id that a row has or had is not given to another one.
Known ==
    /\ \A u \in User : user[u] # None \/ verification[u] # "none" => u \in taken
    /\ \A t \in Token : reset[t] # None => t \in taken
    /\ \A i \in Invitation : invitation[i] # None => i \in taken
    /\ spent \subseteq taken

Tables ==
    UserTable /\ LinkTable /\ ResetTable /\ MemberTable /\ InvitationTable

\* What was used is marked as used, or gone.
SpentIsMarked ==
    /\ \A t \in spent \cap Token : reset[t] # None => reset[t].used
    /\ \A w \in Workspace : GetInvitations(w) \cap spent = {}

\* What is stored, and who is waiting to change it.
Stored  == /\ Tables /\ Histories /\ Known
           /\ VerifiedTogether /\ SpentIsMarked /\ Administered
Waiting == Counters /\ Jobs

TenancyInv == Stored /\ Waiting
-----------------------------------------------------------------------------
(* Administered, with what is listed spelled out.                          *)

Governs(w, u) ==
    user[u] # None /\ member[<<w, u>>] # None /\ \A p \in Policy : HasPolicy(u, w, p)

Governed == \A w \in workspace \ stripped : \E u \in User : Governs(w, u)

LEMMA AdministeredIsGoverned ==
    /\ Administered <=> Governed
    /\ Administered' <=> Governed'
BY DEF Administered, Governed, Governs, GetMembers, Get, WebSocketWorkspaceMiddleware,
       Authenticated

LEMMA GovernorsRule ==
    ASSUME NEW w, NEW u, Governs(w, u)
    PROVE  Rules(<<w, u>>)
BY TenancyAssumption DEF Governs, HasPolicy, Rules

\* The row of a member who is added.
LEMMA NewMemberRow ==
    ASSUME NEW id \in Nat, NEW policies \in SUBSET Policy
    PROVE  /\ NewMember(id, policies) # None
           /\ DOMAIN NewMember(id, policies) = {"rows", "change", "id"}
           /\ NewMember(id, policies).rows = policies \X {0}
           /\ NewMember(id, policies).change = 0 /\ NewMember(id, policies).id = id
           /\ policies \X {0} \subseteq Policy \X (0..0)
           /\ {x[1] : x \in NewMember(id, policies).rows} = policies
<1> DEFINE m == NewMember(id, policies)
<1>1. /\ DOMAIN m = {"rows", "change", "id"}
      /\ m.rows = policies \X {0} /\ m.change = 0 /\ m.id = id
  BY DEF NewMember
<1>2. m \in MemberRow
  BY DEF NewMember, MemberRow
<1>3. {x[1] : x \in policies \X {0}} = policies
  <2>1. \A q \in policies : <<q, 0>> \in policies \X {0} /\ <<q, 0>>[1] = q
    OBVIOUS
  <2> QED
    BY <2>1
<1> QED
  BY <1>1, <1>2, <1>3, RowAssumption

LEMMA TenancyInit == Init => TenancyInv
<1> SUFFICES ASSUME Init
             PROVE  TenancyInv
  OBVIOUS
<1> USE DEF Init
<1>1. UserTable /\ LinkTable /\ ResetTable
  BY StartAssumption DEF UserTable, LinkTable, ResetTable, Row
<1>2. \A w \in Workspace, u \in User :
         member[<<w, u>>] = IF <<w, u>> \in DOMAIN StartMember
                            THEN NewMember(0, StartMember[<<w, u>>]) ELSE None
  OBVIOUS
<1>3. MemberTable
  <2>1. ASSUME NEW p \in Workspace \X User, member[p] # None
        PROVE  IsMemberRow(member[p]) /\ p[1] \in workspace /\ user[p[2]] # None
    <3>1. p \in DOMAIN StartMember /\ member[p] = NewMember(0, StartMember[p])
      BY <2>1
    <3>2. IsMemberRow(member[p])
      BY <3>1, NewMemberRow, StartAssumption DEF IsMemberRow
    <3> QED
      BY <3>1, <3>2, StartAssumption
  <2> QED
    BY <2>1, StartAssumption DEF MemberTable
<1>4. InvitationTable
  BY StartAssumption DEF InvitationTable
<1>5. Histories /\ Known
  BY StartAssumption DEF Histories, Known, Ids
<1>6. VerifiedTogether /\ SpentIsMarked
  BY StartAssumption DEF VerifiedTogether, SpentIsMarked
<1>7. Governed
  <2> SUFFICES ASSUME NEW w \in workspace
               PROVE  \E u \in User : Governs(w, u)
    BY DEF Governed
  <2>1. PICK u \in User : <<w, u>> \in DOMAIN StartMember /\ StartMember[<<w, u>>] = Policy
    BY StartAssumption
  <2>2. member[<<w, u>>] = NewMember(0, Policy) /\ user[u] # None
    BY <1>2, <2>1, StartAssumption
  <2>3. NewMember(0, Policy) # None /\ {x[1] : x \in NewMember(0, Policy).rows} = Policy
    BY NewMemberRow
  <2>4. Policies(<<w, u>>) = Policy /\ member[<<w, u>>] # None
    BY <2>2, <2>3 DEF Policies
  <2> QED
    BY <2>2, <2>4 DEF Governs, HasPolicy
<1>8. Waiting
  BY TenancyAssumption DEF Waiting, Counters, Jobs, Idle, Fits
<1> QED
  BY <1>1, <1>3, <1>4, <1>5, <1>6, <1>7, <1>8, AdministeredIsGoverned
     DEF TenancyInv, Stored, Tables
-----------------------------------------------------------------------------
(* Requests that begin, and steps that store nothing.                      *)

LEMMA NothingStored ==
    ASSUME Stored, UNCHANGED <<accounts, spaces, taken, history>>, Counters,
           requests' \in Nat, requests' >= requests
    PROVE  Stored'
<1> USE DEF Stored, accounts, spaces, history
<1>1. UserTable' /\ LinkTable' /\ ResetTable' /\ InvitationTable' /\ Histories' /\ Known'
  BY DEF Tables, UserTable, LinkTable, ResetTable, InvitationTable, Histories, Known
<1>2. MemberTable'
  BY DEF Tables, MemberTable, IsMemberRow, Counters
<1>3. VerifiedTogether' /\ SpentIsMarked'
  BY DEF VerifiedTogether, SpentIsMarked, GetInvitations
<1>4. Administered'
  BY AdministeredIsGoverned DEF Governed, Governs, HasPolicy, Policies
<1> QED
  BY <1>1, <1>2, <1>3, <1>4 DEF Tables

LEMMA RequestBegins ==
    ASSUME TenancyInv, NEW r \in Request, NEW kind, NEW by, NEW on, NEW data,
           Begin(r, kind, by, on, data), Fits(kind, by, on, data)
    PROVE  TenancyInv'
<1> USE DEF TenancyInv, Waiting
<1>1. Counters' /\ requests' = requests + 1 /\ requests \in Nat
  BY TenancyAssumption DEF Begin, Counters
<1>2. taken' = taken
  BY DEF Begin
<1>3. job' = [job EXCEPT ![r] = [at |-> kind, by |-> by, on |-> on, data |-> data,
                                 number |-> requests + 1]]
  BY DEF Begin
<1>4. Jobs'
  <2> SUFFICES ASSUME NEW q \in Request
               PROVE  (/\ DOMAIN job[q] = {"at", "by", "on", "data", "number"}
                       /\ job[q].number \in 0..requests
                       /\ Fits(job[q].at, job[q].by, job[q].on, job[q].data))'
    BY <1>3 DEF Jobs
  <2>1. CASE q = r
    BY <1>1, <1>2, <1>3, <2>1 DEF Jobs, Fits
  <2>2. CASE q # r
    BY <1>1, <1>2, <1>3, <2>2 DEF Jobs, Fits
  <2> QED
    BY <2>1, <2>2
<1>5. Stored'
  BY <1>1, NothingStored DEF Begin
<1> QED
  BY <1>1, <1>4, <1>5

\* A request that is done, whatever it stored.
LEMMA RequestEnds ==
    ASSUME Waiting, NEW r \in Request, job' = [job EXCEPT ![r] = Idle],
           requests' = requests, Counters', taken \subseteq taken'
    PROVE  Waiting'
BY DEF Waiting, Jobs, Counters, Fits, Idle

LEMMA RequestDone ==
    ASSUME Waiting, NEW r \in Request, Done(r), taken \subseteq taken'
    PROVE  Waiting' /\ Counters' /\ requests' = requests
<1>1. Counters' /\ requests' = requests
  BY DEF Waiting, Done, bounds, Counters
<1> QED
  BY <1>1, RequestEnds DEF Done

LEMMA RefusedKeeps ==
    ASSUME TenancyInv, NEW r \in Request, Refused(r) \/ Fail(r)
    PROVE  TenancyInv'
<1> USE DEF TenancyInv
<1>1. /\ UNCHANGED <<accounts, spaces, taken, history>>
      /\ job' = [job EXCEPT ![r] = Idle] /\ requests' = requests
  BY DEF Refused, Done, Fail, bounds
<1>2. Counters'
  BY TenancyAssumption DEF Refused, Done, Fail, bounds, Waiting, Counters
<1>3. Waiting'
  BY <1>1, <1>2, RequestEnds
<1>4. Stored'
  BY <1>1, NothingStored DEF Waiting, Counters
<1> QED
  BY <1>3, <1>4

LEMMA StartKeeps ==
    ASSUME TenancyInv, NEW r \in Request, Start(r), ~StartForgotPassword(r)
    PROVE  TenancyInv'
<1> USE DEF Fits
<1>1. CASE StartRegister(r)
  BY <1>1, RequestBegins, TenancyAssumption DEF StartRegister
<1>2. CASE StartVerifyEmail(r)
  BY <1>2, RequestBegins DEF StartVerifyEmail
<1>3. CASE StartResetPassword(r)
  <2>1. PICK t \in Token, s \in Secret :
             IsValid(reset[t]) /\ Begin(r, "reset", reset[t].user, t, s)
    BY <1>3 DEF StartResetPassword
  <2>2. reset[t].user \in User /\ t \in taken
    BY <2>1 DEF TenancyInv, Stored, Tables, ResetTable, Known, IsValid, ResetRow
  <2> QED
    BY <2>1, <2>2, RequestBegins
<1>4. CASE StartUserRequest(r)
  BY <1>4, RequestBegins DEF StartUserRequest
<1>5. CASE StartMe(r)
  BY <1>5, RequestBegins DEF StartMe
<1>6. CASE StartCreate(r)
  BY <1>6, RequestBegins DEF StartCreate
<1>7. CASE StartDelete(r)
  BY <1>7, RequestBegins DEF StartDelete
<1>8. CASE StartMemberRequest(r)
  <2>1. PICK by \in User, w \in Workspace, u \in User, given \in Given :
             \/ Begin(r, "add", by, <<w, u>>, given)
             \/ Begin(r, "find", by, <<w, u>>, given)
             \/ Begin(r, "remove", by, <<w, u>>, None)
    BY <1>8 DEF StartMemberRequest
  <2>2. given \subseteq Policy /\ <<w, u>> \in Workspace \X User
    BY TenancyAssumption
  <2> QED
    BY <2>1, <2>2, RequestBegins
<1>9. CASE StartCreateInvitation(r)
  <2>1. PICK by \in User, w \in Workspace, e \in Email, given \in Given :
             Begin(r, "invite", by, w, [email |-> lower[e], given |-> given])
    BY <1>9 DEF StartCreateInvitation
  <2>2. given \subseteq Policy /\ lower[e] \in Email
    BY TenancyAssumption
  <2> QED
    BY <2>1, <2>2, RequestBegins
<1>10. CASE StartRevokeInvitation(r)
  BY <1>10, RequestBegins DEF StartRevokeInvitation
<1>11. CASE StartClaimInvitation(r)
  <2>1. PICK by \in User, i \in Invitation :
             Pending(i) /\ Begin(r, "claim", by, i, invitation[i])
    BY <1>11 DEF StartClaimInvitation
  <2>2. invitation[i] \in InvitationRow /\ i \in taken
    BY <2>1 DEF TenancyInv, Stored, Tables, InvitationTable, Known, Pending
  <2> QED
    BY <2>1, <2>2, RequestBegins
<1> QED
  BY <1>1, <1>2, <1>3, <1>4, <1>5, <1>6, <1>7, <1>8, <1>9, <1>10, <1>11 DEF Start
-----------------------------------------------------------------------------
(* Accounts.                                                               *)

\* What a request knows fits, by its place in Jobs.
LEMMA JobFits ==
    ASSUME TenancyInv, NEW r \in Request
    PROVE  Fits(job[r].at, job[r].by, job[r].on, job[r].data)
BY DEF TenancyInv, Waiting, Jobs

\* Rows of users change, and none is deleted.
LEMMA SpacesKept ==
    ASSUME Stored, UNCHANGED <<spaces, stripped, requests>>,
           \A u \in User : user[u] # None => user'[u] # None
    PROVE  MemberTable' /\ InvitationTable' /\ Administered'
<1> USE DEF Stored, Tables, spaces
<1>1. MemberTable'
  BY DEF MemberTable, IsMemberRow
<1>2. InvitationTable'
  BY DEF InvitationTable, InvitationRow
<1>3. Governed'
  BY AdministeredIsGoverned DEF Governed, Governs, HasPolicy, Policies
<1> QED
  BY <1>1, <1>2, <1>3, AdministeredIsGoverned

\* Reset tokens change, and none is used again.
LEMMA SpentKept ==
    ASSUME Stored, UNCHANGED <<spaces, spent>>,
           \A t \in Token : reset'[t] # None /\ t \in spent =>
              reset[t] # None /\ (reset[t].used => reset'[t].used)
    PROVE  SpentIsMarked'
BY DEF Stored, SpentIsMarked, GetInvitations, spaces

\* One row of users changes; its address, its password or its role.
LEMMA UserRowKeeps ==
    ASSUME TenancyInv, NEW r \in Request, NEW u \in User, NEW row \in UserRow,
           user[u] # None, row.verified = user[u].verified,
           user' = [user EXCEPT ![u] = row], Done(r),
           UNCHANGED <<verification, reset, session, spaces, taken, history>>
    PROVE  TenancyInv'
<1> USE DEF TenancyInv
<1>1. Waiting' /\ requests' = requests
  BY RequestDone
<1>2. \A v \in User : user'[v] = IF v = u THEN row ELSE user[v]
  BY DEF Stored, Tables, UserTable
<1>3. UserTable' /\ LinkTable' /\ ResetTable'
  BY DEF Stored, Tables, UserTable, LinkTable, ResetTable
<1>4. MemberTable' /\ InvitationTable' /\ Administered'
  BY <1>1, <1>2, RowAssumption, SpacesKept DEF history
<1>5. Histories' /\ Known'
  BY <1>2 DEF Stored, Histories, Known, history, spaces
<1>6. VerifiedTogether'
  BY <1>2 DEF Stored, VerifiedTogether
<1>7. SpentIsMarked'
  BY SpentKept DEF history, Stored
<1> QED
  BY <1>1, <1>3, <1>4, <1>5, <1>6, <1>7 DEF Stored, Tables

LEMMA UpdateUserKeeps ==
    ASSUME TenancyInv, NEW r \in Request, UpdateUserByID(r) \/ UpdateCurrentUser(r)
    PROVE  TenancyInv'
<1> USE DEF At
<1>1. CASE UpdateUserByID(r)
  <2> DEFINE u == job[r].on
  <2>1. u \in User /\ job[r].data \in Email
    BY <1>1, JobFits DEF UpdateUserByID, Fits
  <2>2. CASE Refused(r)
    BY <2>2, RefusedKeeps
  <2>3. CASE ~Refused(r)
    <3>1. PICK role \in {"admin", "user"} :
               user' = [user EXCEPT ![u].email = job[r].data, ![u].role = role]
      BY <1>1, <2>3 DEF UpdateUserByID
    <3> DEFINE row == [user[u] EXCEPT !.email = job[r].data, !.role = role]
    <3>2. /\ user[u] # None /\ user' = [user EXCEPT ![u] = row] /\ Done(r)
          /\ UNCHANGED <<verification, reset, session, spaces, taken, history>>
      <4>1. /\ user[u] # None /\ Done(r)
            /\ UNCHANGED <<verification, reset, session, spaces, taken, history>>
        BY <1>1, <2>3 DEF UpdateUserByID
      <4>2. user' = [user EXCEPT ![u] = row]
        BY <2>1, <3>1 DEF TenancyInv, Stored, Tables, UserTable
      <4> QED
        BY <4>1, <4>2
    <3>3. row \in UserRow /\ row.verified = user[u].verified
      BY <2>1, <3>2 DEF TenancyInv, Stored, Tables, UserTable, UserRow
    <3> HIDE DEF row
    <3> QED
      BY <2>1, <3>2, <3>3, UserRowKeeps
  <2> QED
    BY <2>2, <2>3
<1>2. CASE UpdateCurrentUser(r)
  <2> DEFINE u == job[r].on
             row == [user[u] EXCEPT !.password = job[r].data]
  <2>1. u \in User /\ job[r].data \in Secret
    BY <1>2, JobFits DEF UpdateCurrentUser, Fits
  <2>2. CASE user[u] = None
    <3>1. Refused(r)
      BY <1>2, <2>2 DEF UpdateCurrentUser, Refused, accounts
    <3> QED
      BY <3>1, RefusedKeeps
  <2>3. CASE user[u] # None
    <3>1. /\ user' = [user EXCEPT ![u] = row] /\ Done(r)
          /\ UNCHANGED <<verification, reset, session, spaces, taken, history>>
      BY <1>2, <2>3 DEF UpdateCurrentUser
    <3>2. row \in UserRow /\ row.verified = user[u].verified
      BY <2>1, <2>3 DEF TenancyInv, Stored, Tables, UserTable, UserRow
    <3> QED
      BY <2>1, <2>3, <3>1, <3>2, UserRowKeeps
  <2> QED
    BY <2>2, <2>3
<1> QED
  BY <1>1, <1>2

LEMMA CreateUserKeeps ==
    ASSUME TenancyInv, NEW r \in Request, CreateUser(r)
    PROVE  TenancyInv'
<1>1. CASE Refused(r)
  BY <1>1, RefusedKeeps
<1>2. CASE ~Refused(r)
  <2> USE DEF TenancyInv
  <2>1. PICK u \in User \ taken, s \in Secret, role \in {"admin", "user"} :
             /\ user' = [user EXCEPT ![u] = NewUser(job[r].on, s, role, FALSE)]
             /\ taken' = taken \cup {u}
             /\ Done(r) /\ UNCHANGED <<verification, reset, session, spaces, history>>
    BY <1>2 DEF CreateUser
  <2>2. job[r].on \in Email
    BY JobFits DEF CreateUser, At, Fits
  <2>3. NewUser(job[r].on, s, role, FALSE) \in UserRow
    BY <2>2 DEF NewUser, UserRow
  <2>4. Waiting' /\ requests' = requests
    BY <2>1, RequestDone
  <2>5. UserTable' /\ LinkTable' /\ ResetTable'
    BY <2>1, <2>3 DEF Stored, Tables, UserTable, LinkTable, ResetTable
  <2>6. \A v \in User : user'[v] = IF v = u THEN NewUser(job[r].on, s, role, FALSE)
                                   ELSE user[v]
    BY <2>1 DEF Stored, Tables, UserTable
  <2>7. MemberTable' /\ InvitationTable' /\ Administered'
    BY <2>1, <2>3, <2>4, <2>6, RowAssumption, SpacesKept DEF history
  <2>8. Histories' /\ Known'
    BY <2>1, <2>6 DEF Stored, Histories, Known, history, spaces, Ids
  <2>9. VerifiedTogether'
    BY <2>1, <2>6 DEF Stored, VerifiedTogether, Known
  <2>10. SpentIsMarked'
    BY <2>1, SpentKept DEF history, Stored
  <2> QED
    BY <2>4, <2>5, <2>7, <2>8, <2>9, <2>10 DEF Stored, Tables
<1> QED
  BY <1>1, <1>2

\* The row of the link and the row of the user are written together.
LEMMA VerifyEmailKeeps ==
    ASSUME TenancyInv, NEW r \in Request, VerifyEmail(r)
    PROVE  TenancyInv'
<1> DEFINE u == job[r].on
<1>1. CASE user[u] = None
  BY <1>1, RefusedKeeps DEF VerifyEmail
<1>2. CASE user[u] # None
  <2> USE DEF TenancyInv
  <2>1. /\ verification' = [verification EXCEPT ![u] = "verified"]
        /\ user' = [user EXCEPT ![u].verified = TRUE]
        /\ Done(r) /\ UNCHANGED <<reset, session, spaces, taken, history>>
    BY <1>2 DEF VerifyEmail
  <2>2. u \in User
    BY JobFits DEF VerifyEmail, At, Fits
  <2>3. Waiting' /\ requests' = requests
    BY <2>1, RequestDone
  <2>4. [user[u] EXCEPT !.verified = TRUE] \in UserRow
    BY <1>2, <2>2 DEF Stored, Tables, UserTable, UserRow
  <2>5. \A v \in User : user'[v] = IF v = u THEN [user[u] EXCEPT !.verified = TRUE]
                                   ELSE user[v]
    BY <2>1 DEF Stored, Tables, UserTable
  <2>6. UserTable' /\ LinkTable' /\ ResetTable'
    BY <2>1, <2>4 DEF Stored, Tables, UserTable, LinkTable, ResetTable, Row
  <2>7. MemberTable' /\ InvitationTable' /\ Administered'
    BY <2>1, <2>3, <2>4, <2>5, RowAssumption, SpacesKept DEF history
  <2>8. Histories' /\ Known'
    BY <1>2, <2>1, <2>5 DEF Stored, Histories, Known, history, spaces, Tables, LinkTable
  <2>9. VerifiedTogether'
    BY <2>1, <2>2, <2>4, <2>5 DEF Stored, VerifiedTogether, Tables, LinkTable, UserTable, UserRow
  <2>10. SpentIsMarked'
    BY <2>1, SpentKept DEF history, Stored
  <2> QED
    BY <2>3, <2>6, <2>7, <2>8, <2>9, <2>10 DEF Stored, Tables
<1> QED
  BY <1>1, <1>2

\* Rows of other tables than users and members change.
LEMMA UsersKept ==
    ASSUME Stored, UNCHANGED <<user, workspace, member, stripped, requests>>
    PROVE  UserTable' /\ MemberTable' /\ Administered'
<1> USE DEF Stored, Tables
<1>1. UserTable' /\ MemberTable'
  BY DEF UserTable, MemberTable, IsMemberRow
<1>2. Governed'
  BY AdministeredIsGoverned DEF Governed, Governs, HasPolicy, Policies
<1> QED
  BY <1>1, <1>2, AdministeredIsGoverned

LEMMA ForgotPasswordKeeps ==
    ASSUME TenancyInv, NEW r \in Request, StartForgotPassword(r) \/ ForgotPassword(r)
    PROVE  TenancyInv'
<1> USE DEF TenancyInv
<1>1. CASE StartForgotPassword(r)
  <2>1. PICK u \in User :
             /\ \/ reset' = [t \in Token |->
                               IF reset[t] # None /\ reset[t].user = u /\ ~reset[t].used
                               THEN None ELSE reset[t]]
                \/ reset' = reset
             /\ (faults' = faults \/ (faults < MaxFaults /\ faults' = faults + 1))
             /\ job' = [job EXCEPT ![r] = [Idle EXCEPT !.at = "forgot", !.on = u]]
             /\ requests < MaxRequests /\ requests' = requests + 1
             /\ UNCHANGED <<user, verification, session, spaces, taken, expiries, history>>
    <3>1. PICK e \in Email : \E u \in HasEmail(lower[e]) :
               /\ \/ /\ reset' = [t \in Token |->
                                  IF reset[t] # None /\ reset[t].user = u /\ ~reset[t].used
                                  THEN None ELSE reset[t]]
                     /\ faults' = faults
                  \/ /\ faults < MaxFaults /\ faults' = faults + 1
                     /\ reset' = reset
               /\ job' = [job EXCEPT ![r] = [Idle EXCEPT !.at = "forgot", !.on = u]]
      BY <1>1, Zenon DEF StartForgotPassword
    <3>2. HasEmail(lower[e]) \subseteq User
      BY DEF HasEmail
    <3>3. /\ requests < MaxRequests /\ requests' = requests + 1
          /\ UNCHANGED <<user, verification, session, spaces, taken, expiries, history>>
      BY <1>1 DEF StartForgotPassword
    <3>4. PICK u \in HasEmail(lower[e]) :
               /\ \/ /\ reset' = [t \in Token |->
                                  IF reset[t] # None /\ reset[t].user = u /\ ~reset[t].used
                                  THEN None ELSE reset[t]]
                     /\ faults' = faults
                  \/ /\ faults < MaxFaults /\ faults' = faults + 1
                     /\ reset' = reset
               /\ job' = [job EXCEPT ![r] = [Idle EXCEPT !.at = "forgot", !.on = u]]
      BY <3>1, Zenon
    <3>5. u \in User
      BY <3>2
    <3> WITNESS u \in User
    <3>6. /\ \/ reset' = [t \in Token |->
                          IF reset[t] # None /\ reset[t].user = u /\ ~reset[t].used
                          THEN None ELSE reset[t]]
             \/ reset' = reset
          /\ faults' = faults \/ (faults < MaxFaults /\ faults' = faults + 1)
      BY <3>4, Zenon
    <3> QED
      BY <3>3, <3>4, <3>6, Zenon
  <2>2. Counters' /\ requests \in Nat
    BY <2>1, TenancyAssumption DEF Waiting, Counters
  <2>3. Jobs'
    <3> SUFFICES ASSUME NEW q \in Request
                 PROVE  (/\ DOMAIN job[q] = {"at", "by", "on", "data", "number"}
                         /\ job[q].number \in 0..requests
                         /\ Fits(job[q].at, job[q].by, job[q].on, job[q].data))'
      BY <2>1 DEF Jobs, Waiting
    <3>1. CASE q = r
      BY <2>1, <2>2, <3>1 DEF Waiting, Jobs, Fits, Idle
    <3>2. CASE q # r
      BY <2>1, <2>2, <3>2 DEF Waiting, Jobs, Fits
    <3> QED
      BY <3>1, <3>2
  <2>4. UserTable' /\ LinkTable' /\ ResetTable'
    BY <2>1 DEF Stored, Tables, UserTable, LinkTable, ResetTable
  <2>5. MemberTable' /\ InvitationTable'
    <3>1. \A n \in 0..requests : n \in 0..requests'
      BY <2>1, <2>2
    <3>2. MemberTable'
      BY <2>1, <3>1 DEF Stored, Tables, MemberTable, IsMemberRow, spaces
    <3> QED
      BY <2>1, <3>2 DEF Stored, Tables, InvitationTable, spaces
  <2>6. Administered'
    <3>1. Governed'
      BY <2>1, AdministeredIsGoverned
         DEF Stored, Governed, Governs, HasPolicy, Policies, spaces, history
    <3> QED
      BY <3>1, AdministeredIsGoverned
  <2>7. Histories' /\ Known' /\ VerifiedTogether' /\ SpentIsMarked'
    BY <2>1 DEF Stored, Histories, Known, VerifiedTogether, SpentIsMarked, GetInvitations,
                spaces, history
  <2> QED
    BY <2>2, <2>3, <2>4, <2>5, <2>6, <2>7 DEF Stored, Tables, Waiting
<1>2. CASE ForgotPassword(r)
  <2>1. CASE Refused(r)
    BY <2>1, RefusedKeeps
  <2>2. CASE ~Refused(r)
    <3> DEFINE row == [user |-> job[r].on, used |-> FALSE, expired |-> FALSE]
    <3>1. PICK t \in Token \ taken :
               /\ reset' = [reset EXCEPT ![t] = row]
               /\ taken' = taken \cup {t}
               /\ Done(r) /\ UNCHANGED <<user, verification, session, spaces, history>>
      BY <1>2, <2>2 DEF ForgotPassword
    <3>2. row \in ResetRow
      BY <1>2, JobFits DEF ForgotPassword, At, Fits, ResetRow
    <3>3. Waiting' /\ requests' = requests
      BY <3>1, RequestDone
    <3>4. LinkTable' /\ ResetTable'
      BY <3>1, <3>2 DEF Stored, Tables, LinkTable, ResetTable
    <3>5. UserTable' /\ MemberTable' /\ InvitationTable' /\ Administered'
      BY <3>1, <3>3, UsersKept DEF Stored, Tables, InvitationTable, spaces, history
    <3>6. \A x \in Token : x # t => reset'[x] = reset[x]
      BY <3>1 DEF Stored, Tables, ResetTable
    <3>7. Histories' /\ Known' /\ VerifiedTogether'
      BY <3>1, <3>6 DEF Stored, Histories, Known, VerifiedTogether, spaces, history, Ids
    <3>8. SpentIsMarked'
      BY <3>1, <3>6, SpentKept DEF Stored, Known, history
    <3> QED
      BY <3>3, <3>4, <3>5, <3>7, <3>8 DEF Stored, Tables
  <2> QED
    BY <2>1, <2>2
<1> QED
  BY <1>1, <1>2

\* The password and the token are written by their ids.
LEMMA ResetPasswordKeeps ==
    ASSUME TenancyInv, NEW r \in Request, ResetPassword(r)
    PROVE  TenancyInv'
<1> USE DEF TenancyInv
<1> DEFINE t == job[r].on
           u == job[r].by
<1>1. /\ user' = IF user[u] = None THEN user ELSE [user EXCEPT ![u].password = job[r].data]
      /\ reset' = IF reset[t] = None THEN reset ELSE [reset EXCEPT ![t].used = TRUE]
      /\ spent' = spent \cup {t}
      /\ Done(r) /\ UNCHANGED <<verification, session, spaces, taken, stripped>>
  BY DEF ResetPassword
<1>2. u \in User /\ t \in Token \cap taken /\ job[r].data \in Secret
  BY JobFits DEF ResetPassword, At, Fits
<1>3. Waiting' /\ requests' = requests
  BY <1>1, RequestDone
<1>4. \A v \in User : user'[v] = IF v = u /\ user[u] # None
                                 THEN [user[u] EXCEPT !.password = job[r].data] ELSE user[v]
  BY <1>1 DEF Stored, Tables, UserTable
<1>5. \A x \in Token : reset'[x] = IF x = t /\ reset[t] # None
                                   THEN [reset[t] EXCEPT !.used = TRUE] ELSE reset[x]
  BY <1>1 DEF Stored, Tables, ResetTable
<1>6. user[u] # None => /\ [user[u] EXCEPT !.password = job[r].data] \in UserRow
                        /\ [user[u] EXCEPT !.password = job[r].data].verified = user[u].verified
  BY <1>2 DEF Stored, Tables, UserTable, UserRow
<1>7. reset[t] # None => /\ [reset[t] EXCEPT !.used = TRUE] \in ResetRow
                         /\ [reset[t] EXCEPT !.used = TRUE].used
  BY <1>2 DEF Stored, Tables, ResetTable, ResetRow
<1>8. UserTable'
  BY <1>1, <1>6 DEF Stored, Tables, UserTable
<1>9. LinkTable' /\ ResetTable'
  BY <1>1, <1>7 DEF Stored, Tables, LinkTable, ResetTable
<1>10. MemberTable' /\ InvitationTable' /\ Administered'
  BY <1>1, <1>3, <1>4, <1>6, RowAssumption, SpacesKept
<1>11. Histories' /\ Known'
  BY <1>1, <1>2, <1>4, <1>5 DEF Stored, Histories, Known, spaces
<1>12. VerifiedTogether'
  BY <1>1, <1>4, <1>6 DEF Stored, VerifiedTogether
<1>13. SpentIsMarked'
  <2>1. ASSUME NEW x \in Token, x \in spent', reset'[x] # None
        PROVE  reset'[x].used
    <3>1. CASE x = t
      <4>1. reset[t] # None
        BY <1>1, <2>1, <3>1
      <4> QED
        BY <1>2, <1>5, <1>7, <3>1, <4>1
    <3>2. CASE x # t
      BY <1>1, <1>5, <2>1, <3>2 DEF Stored, SpentIsMarked
    <3> QED
      BY <3>1, <3>2
  <2>2. \A w \in Workspace : GetInvitations(w)' \cap spent' = {}
    BY <1>1, <1>2, RowAssumption DEF Stored, SpentIsMarked, GetInvitations, spaces
  <2> QED
    BY <2>1, <2>2 DEF SpentIsMarked
<1> QED
  BY <1>3, <1>8, <1>9, <1>10, <1>11, <1>12, <1>13 DEF Stored, Tables

\* Sessions and expiries.
LEMMA SessionKeeps ==
    ASSUME TenancyInv, OAuthTokenHandler \/ \E u \in User : SessionExpires(u)
    PROVE  TenancyInv'
<1> USE DEF TenancyInv
<1>1. /\ UNCHANGED <<user, verification, reset, spaces, taken, job, requests, faults, history>>
      /\ session' \subseteq User
      /\ expiries' \in 0..MaxExpiries
  <2>1. CASE OAuthTokenHandler
    BY <2>1 DEF OAuthTokenHandler, Login, HasEmail, bounds, Stored, Histories, Waiting, Counters
  <2>2. CASE \E u \in User : SessionExpires(u)
    BY <2>2, TenancyAssumption DEF SessionExpires, Stored, Histories, Waiting, Counters
  <2> QED
    BY <2>1, <2>2
<1>2. LinkTable' /\ ResetTable' /\ InvitationTable'
  BY <1>1 DEF Stored, Tables, LinkTable, ResetTable, InvitationTable, spaces
<1>3. UserTable' /\ MemberTable' /\ Administered'
  BY <1>1, UsersKept DEF spaces, history
<1>4. Histories' /\ Known' /\ VerifiedTogether' /\ SpentIsMarked'
  BY <1>1 DEF Stored, Histories, Known, VerifiedTogether, SpentIsMarked, GetInvitations,
              spaces, history
<1>5. Waiting'
  BY <1>1 DEF Waiting, Counters, Jobs, Fits
<1> QED
  BY <1>2, <1>3, <1>4, <1>5 DEF Stored, Tables

LEMMA LinkExpiresKeeps ==
    ASSUME TenancyInv, NEW t \in Ids, LinkExpires(t)
    PROVE  TenancyInv'
<1> USE DEF TenancyInv
<1>1. /\ UNCHANGED <<user, session, workspace, member, taken, job, requests, faults, history>>
      /\ expiries' \in 0..MaxExpiries
  BY TenancyAssumption DEF LinkExpires, Waiting, Counters
<1>2. /\ LinkTable'
      /\ \A u \in User : \/ verification'[u] = verification[u]
                         \/ verification[u] = "pending" /\ verification'[u] = "expired"
  BY DEF LinkExpires, Stored, Tables, LinkTable, Row
<1>3. /\ ResetTable'
      /\ \A x \in Token : /\ reset'[x] # None <=> reset[x] # None
                          /\ reset[x] # None => reset'[x].used = reset[x].used
  <2>1. CASE t \in Token /\ reset[t] # None /\ reset' = [reset EXCEPT ![t].expired = TRUE]
    <3>1. /\ [reset[t] EXCEPT !.expired = TRUE] \in ResetRow
          /\ [reset[t] EXCEPT !.expired = TRUE].used = reset[t].used
      BY <2>1 DEF Stored, Tables, ResetTable, ResetRow
    <3> QED
      BY <2>1, <3>1, RowAssumption DEF Stored, Tables, ResetTable
  <2>2. CASE reset' = reset
    BY <2>2 DEF Stored, Tables, ResetTable
  <2> QED
    BY <2>1, <2>2 DEF LinkExpires
<1>4. /\ InvitationTable'
      /\ \A i \in Invitation :
           /\ invitation'[i] # None <=> invitation[i] # None
           /\ invitation[i] # None => /\ invitation'[i].used = invitation[i].used
                                      /\ invitation'[i].workspace = invitation[i].workspace
  <2>1. CASE t \in Invitation /\ invitation[t] # None
             /\ invitation' = [invitation EXCEPT ![t].expired = TRUE]
    <3> DEFINE row == [invitation[t] EXCEPT !.expired = TRUE]
    <3>1. /\ row \in InvitationRow /\ row.used = invitation[t].used
          /\ row.workspace = invitation[t].workspace /\ row.by = invitation[t].by
          /\ row # None
      BY <2>1, RowAssumption DEF Stored, Tables, InvitationTable, InvitationRow
    <3>2. /\ invitation' \in [Invitation -> InvitationRow \cup {None}]
          /\ \A i \in Invitation : invitation'[i] = IF i = t THEN row ELSE invitation[i]
      BY <2>1, <3>1 DEF Stored, Tables, InvitationTable
    <3> HIDE DEF row
    <3>3. \A i \in Invitation :
            /\ invitation'[i] # None <=> invitation[i] # None
            /\ invitation[i] # None => /\ invitation'[i].used = invitation[i].used
                                       /\ invitation'[i].workspace = invitation[i].workspace
                                       /\ invitation'[i].by = invitation[i].by
      BY <2>1, <3>1, <3>2
    <3>4. InvitationTable'
      BY <1>1, <3>2, <3>3 DEF Stored, Tables, InvitationTable
    <3> QED
      BY <3>3, <3>4
  <2>2. CASE invitation' = invitation
    BY <1>1, <2>2 DEF Stored, Tables, InvitationTable
  <2> QED
    BY <2>1, <2>2 DEF LinkExpires
<1>5. UserTable' /\ MemberTable' /\ Administered'
  BY <1>1, UsersKept DEF history
<1>6. Histories' /\ Known'
  BY <1>1, <1>2, <1>3, <1>4 DEF Stored, Histories, Known, history
<1>7. VerifiedTogether' /\ SpentIsMarked'
  BY <1>1, <1>2, <1>3, <1>4 DEF Stored, VerifiedTogether, SpentIsMarked, GetInvitations, history
<1>8. Waiting'
  BY <1>1 DEF Waiting, Counters, Jobs, Fits
<1> QED
  BY <1>2, <1>3, <1>4, <1>5, <1>6, <1>7, <1>8 DEF Stored, Tables

\* The rows that refer to a deleted user go with it.
LEMMA DropUserKeeps ==
    ASSUME TenancyInv, NEW r \in Request, DeleteUserByID(r) \/ DeleteCurrentUser(r)
    PROVE  TenancyInv'
<1> USE DEF TenancyInv
<1> DEFINE u == job[r].on
<1>1. DropUser(u) /\ Done(r)
  BY DEF DeleteUserByID, DeleteCurrentUser
<1>2. u \in User
  BY JobFits DEF DeleteUserByID, DeleteCurrentUser, At, Fits
<1>3. Waiting' /\ requests' = requests
  BY <1>1, RequestDone DEF DropUser
<1>4. UserTable' /\ LinkTable' /\ ResetTable'
  BY <1>1 DEF DropUser, Stored, Tables, UserTable, LinkTable, ResetTable, Row
<1>5. \A v \in User : /\ user'[v] = IF v = u THEN None ELSE user[v]
                      /\ verification'[v] = IF v = u THEN "none" ELSE verification[v]
  BY <1>1 DEF DropUser, Stored, Tables, UserTable, LinkTable
<1>6. /\ DOMAIN member' = Workspace \X User
      /\ \A p \in Workspace \X User : member'[p] = IF p[2] = u THEN None ELSE member[p]
  BY <1>1 DEF DropUser, Stored, Tables, MemberTable
<1>7. MemberTable'
  BY <1>1, <1>3, <1>5, <1>6 DEF DropUser, Stored, Tables, MemberTable, IsMemberRow
<1>8. InvitationTable'
  BY <1>1, <1>5 DEF DropUser, Stored, Tables, InvitationTable, InvitationRow
<1>9. Histories' /\ Known'
  BY <1>1, <1>5 DEF DropUser, Stored, Histories, Known
<1>10. VerifiedTogether' /\ SpentIsMarked'
  BY <1>1, <1>5 DEF DropUser, Stored, VerifiedTogether, SpentIsMarked, GetInvitations
<1>11. Governed'
  <2> SUFFICES ASSUME NEW w \in workspace \ stripped, ~Rules(<<w, u>>)
               PROVE  \E v \in User : Governs(w, v)'
    BY <1>1, <1>2 DEF DropUser, Governed, Stored, Tables, MemberTable
  <2>1. PICK v \in User : Governs(w, v)
    BY AdministeredIsGoverned DEF Stored, Governed
  <2>2. v # u /\ <<w, v>> \in Workspace \X User
    BY <2>1, GovernorsRule DEF Stored, Tables, MemberTable
  <2>3. member'[<<w, v>>] = member[<<w, v>>] /\ user'[v] = user[v]
    BY <1>5, <1>6, <2>2
  <2> QED
    BY <2>1, <2>3 DEF Governs, HasPolicy, Policies
<1> QED
  BY <1>3, <1>4, <1>7, <1>8, <1>9, <1>10, <1>11, AdministeredIsGoverned DEF Stored, Tables
-----------------------------------------------------------------------------
(* Workspaces and members.                                                 *)

\* A workspace is opened, possibly with the user who opens it.
LEMMA OpenKeeps ==
    ASSUME Stored, NEW w \in Workspace, NEW u \in User, OpenWorkspace(w, u),
           requests \in Nat, requests' = requests, stripped' = stripped, user'[u] # None,
           \A v \in User : user[v] # None => user'[v] # None
    PROVE  MemberTable' /\ Administered'
<1> USE DEF Stored, Tables
<1>1. /\ workspace' = workspace \cup {w}
      /\ DOMAIN member' = Workspace \X User
      /\ \A p \in Workspace \X User :
           member'[p] = IF p = <<w, u>> THEN NewMember(0, Policy) ELSE member[p]
  BY DEF OpenWorkspace, MemberTable
<1>2. /\ IsMemberRow(NewMember(0, Policy))' /\ NewMember(0, Policy) # None
      /\ {x[1] : x \in NewMember(0, Policy).rows} = Policy
  BY NewMemberRow DEF IsMemberRow
<1>3. MemberTable'
  BY <1>1, <1>2 DEF MemberTable, IsMemberRow
<1>4. Governed'
  <2> SUFFICES ASSUME NEW x \in workspace', x \notin stripped
               PROVE  \E v \in User : Governs(x, v)'
    BY DEF Governed
  <2>1. CASE x = w
    <3>1. <<w, u>> \in Workspace \X User
      OBVIOUS
    <3>2. member'[<<w, u>>] = NewMember(0, Policy)
      BY <1>1, <3>1
    <3>3. Policies(<<w, u>>)' = Policy
      BY <1>2, <3>2 DEF Policies
    <3> QED
      BY <1>2, <2>1, <3>2, <3>3 DEF Governs, HasPolicy
  <2>2. CASE x # w
    <3>1. PICK v \in User : Governs(x, v)
      BY <1>1, <2>2, AdministeredIsGoverned DEF Governed
    <3>2. <<x, v>> \in Workspace \X User /\ <<x, v>> # <<w, u>>
      BY <1>1, <2>2 DEF MemberTable
    <3>3. member'[<<x, v>>] = member[<<x, v>>]
      BY <1>1, <3>2
    <3> QED
      BY <3>1, <3>3 DEF Governs, HasPolicy, Policies
  <2> QED
    BY <2>1, <2>2
<1> QED
  BY <1>3, <1>4, AdministeredIsGoverned

LEMMA RegisterKeeps ==
    ASSUME TenancyInv, NEW r \in Request, Register(r)
    PROVE  TenancyInv'
<1>1. CASE Refused(r)
  BY <1>1, RefusedKeeps
<1>2. CASE ~Refused(r)
  <2> USE DEF TenancyInv
  <2> DEFINE row == NewUser(job[r].on, job[r].data, "user", ~RequireEmailVerification)
             link == IF RequireEmailVerification THEN "pending" ELSE "none"
  <2>1. PICK u \in User \ taken, w \in Workspace \ taken :
             /\ user' = [user EXCEPT ![u] = row]
             /\ verification' = [verification EXCEPT ![u] = link]
             /\ OpenWorkspace(w, u)
             /\ taken' = taken \cup {u, w}
             /\ Done(r) /\ UNCHANGED <<reset, session, invitation, history>>
    BY <1>2 DEF Register
  <2>2. row \in UserRow /\ row # None
    <3>1. job[r].on \in Email /\ job[r].data \in Secret
      BY JobFits DEF Register, At, Fits
    <3>2. \A v \in BOOLEAN : NewUser(job[r].on, job[r].data, "user", v) \in UserRow
      BY <3>1 DEF NewUser, UserRow
    <3>3. \/ row = NewUser(job[r].on, job[r].data, "user", FALSE)
          \/ row = NewUser(job[r].on, job[r].data, "user", TRUE)
      <4>1. CASE RequireEmailVerification
        BY <4>1
      <4>2. CASE ~RequireEmailVerification
        BY <4>2
      <4> QED
        BY <4>1, <4>2
    <3> HIDE DEF row
    <3> QED
      BY <3>2, <3>3, RowAssumption
  <2>3. Waiting' /\ requests' = requests /\ requests \in Nat
    BY <2>1, RequestDone DEF Waiting, Counters
  <2>4. \A v \in User : /\ user'[v] = IF v = u THEN row ELSE user[v]
                        /\ verification'[v] = IF v = u THEN link ELSE verification[v]
    BY <2>1 DEF Stored, Tables, UserTable, LinkTable
  <2>5. UserTable' /\ LinkTable' /\ ResetTable'
    BY <2>1, <2>2 DEF Stored, Tables, UserTable, LinkTable, ResetTable, Row
  <2>6. MemberTable' /\ Administered'
    BY <2>1, <2>2, <2>3, <2>4, OpenKeeps DEF history
  <2>7. InvitationTable'
    BY <2>1, <2>2, <2>4 DEF Stored, Tables, InvitationTable, InvitationRow, OpenWorkspace
  <2>8. Histories' /\ Known'
    BY <2>1, <2>4 DEF Stored, Histories, Known, history, Ids
  <2>9. VerifiedTogether'
    <3>1. RequireEmailVerification => row = NewUser(job[r].on, job[r].data, "user", FALSE)
      OBVIOUS
    <3>2. RequireEmailVerification => ~row.verified
      BY <3>1 DEF NewUser
    <3> QED
      BY <2>1, <2>4, <3>2 DEF Stored, VerifiedTogether
  <2>10. SpentIsMarked'
    BY <2>1 DEF Stored, SpentIsMarked, GetInvitations, history
  <2> QED
    BY <2>3, <2>5, <2>6, <2>7, <2>8, <2>9, <2>10 DEF Stored, Tables
<1> QED
  BY <1>1, <1>2

\* Steps that change workspaces and members only.
LEMMA AccountsKept ==
    ASSUME TenancyInv, NEW r \in Request, Done(r),
           UNCHANGED <<accounts, invitation, spent>>, taken \subseteq taken', taken' \subseteq Ids,
           workspace \subseteq workspace', stripped' \subseteq Workspace,
           MemberTable', Administered'
    PROVE  TenancyInv'
<1> USE DEF TenancyInv, accounts
<1>1. Waiting'
  BY RequestDone
<1>2. UserTable' /\ LinkTable' /\ ResetTable'
  BY DEF Stored, Tables, UserTable, LinkTable, ResetTable
<1>3. InvitationTable' /\ Histories' /\ Known'
  BY DEF Stored, Tables, InvitationTable, Histories, Known
<1>4. VerifiedTogether' /\ SpentIsMarked'
  BY DEF Stored, VerifiedTogether, SpentIsMarked, GetInvitations
<1> QED
  BY <1>1, <1>2, <1>3, <1>4 DEF Stored, Tables

LEMMA CreateKeeps ==
    ASSUME TenancyInv, NEW r \in Request, Create(r)
    PROVE  TenancyInv'
<1>1. CASE Refused(r)
  BY <1>1, RefusedKeeps
<1>2. CASE ~Refused(r)
  <2>1. PICK w \in Workspace \ taken :
             /\ OpenWorkspace(w, job[r].by)
             /\ taken' = taken \cup {w}
             /\ user[job[r].by] # None
             /\ Done(r) /\ UNCHANGED <<accounts, invitation, history>>
    BY <1>2 DEF Create
  <2>2. job[r].by \in User
    BY JobFits DEF Create, At, Fits
  <2>3. requests' = requests /\ requests \in Nat
    BY <2>1, RequestDone DEF TenancyInv, Waiting, Counters
  <2>4. MemberTable' /\ Administered'
    BY <2>1, <2>2, <2>3, OpenKeeps DEF accounts, history, TenancyInv
  <2> QED
    BY <2>1, <2>4, AccountsKept DEF TenancyInv, Stored, Histories, history, Ids, OpenWorkspace
<1> QED
  BY <1>1, <1>2

\* A workspace is deleted, with its members and its invitations.
LEMMA DeleteKeeps ==
    ASSUME TenancyInv, NEW r \in Request, Delete(r)
    PROVE  TenancyInv'
<1> USE DEF TenancyInv
<1> DEFINE w == job[r].on
<1>1. /\ workspace' = workspace \ {w}
      /\ member' = [p \in DOMAIN member |-> IF p[1] = w THEN None ELSE member[p]]
      /\ invitation' = [i \in Invitation |->
                          IF invitation[i] # None /\ invitation[i].workspace = w
                          THEN None ELSE invitation[i]]
      /\ Done(r) /\ UNCHANGED <<accounts, taken, history>>
  BY DEF Delete
<1>2. Waiting' /\ requests' = requests
  BY <1>1, RequestDone
<1>3. /\ DOMAIN member' = Workspace \X User
      /\ \A p \in Workspace \X User : member'[p] = IF p[1] = w THEN None ELSE member[p]
  BY <1>1 DEF Stored, Tables, MemberTable
<1>4. UserTable' /\ LinkTable' /\ ResetTable'
  BY <1>1 DEF Stored, Tables, UserTable, LinkTable, ResetTable, accounts
<1>5. MemberTable'
  BY <1>1, <1>2, <1>3 DEF Stored, Tables, MemberTable, IsMemberRow, accounts
<1>6. InvitationTable'
  BY <1>1 DEF Stored, Tables, InvitationTable, InvitationRow, accounts
<1>7. Histories' /\ Known' /\ VerifiedTogether' /\ SpentIsMarked'
  BY <1>1 DEF Stored, Histories, Known, VerifiedTogether, SpentIsMarked, GetInvitations,
              accounts, history
<1>8. Governed'
  <2> SUFFICES ASSUME NEW x \in workspace \ stripped, x # w
               PROVE  \E v \in User : Governs(x, v)'
    BY <1>1 DEF Governed, history
  <2>1. PICK v \in User : Governs(x, v)
    BY AdministeredIsGoverned DEF Stored, Governed
  <2>2. member'[<<x, v>>] = member[<<x, v>>]
    BY <1>3 DEF Stored, Tables, MemberTable
  <2> QED
    BY <1>1, <2>1, <2>2 DEF Governs, HasPolicy, Policies, accounts
<1> QED
  BY <1>2, <1>4, <1>5, <1>6, <1>7, <1>8, AdministeredIsGoverned DEF Stored, Tables

\* One member is added, where there was none.
LEMMA JoinKeeps ==
    ASSUME Stored, NEW p \in Workspace \X User, NEW n \in 0..requests,
           NEW policies \in SUBSET Policy, requests \in Nat,
           CanJoin(p), member' = [member EXCEPT ![p] = NewMember(n, policies)],
           UNCHANGED <<user, workspace, stripped, requests>>
    PROVE  MemberTable' /\ Administered'
<1> USE DEF Stored, Tables
<1>1. /\ DOMAIN member' = Workspace \X User
      /\ \A q \in Workspace \X User :
           member'[q] = IF q = p THEN NewMember(n, policies) ELSE member[q]
  BY DEF MemberTable
<1>2. IsMemberRow(NewMember(n, policies))'
  BY NewMemberRow DEF IsMemberRow
<1>3. MemberTable'
  BY <1>1, <1>2 DEF MemberTable, IsMemberRow, CanJoin
<1>4. Governed'
  <2> SUFFICES ASSUME NEW w \in workspace \ stripped
               PROVE  \E v \in User : Governs(w, v)'
    BY DEF Governed
  <2>1. PICK v \in User : Governs(w, v)
    BY AdministeredIsGoverned DEF Governed
  <2>2. <<w, v>> \in Workspace \X User /\ <<w, v>> # p
    BY <2>1 DEF Governs, CanJoin, MemberTable
  <2>3. member'[<<w, v>>] = member[<<w, v>>]
    BY <1>1, <2>2
  <2> QED
    BY <2>1, <2>3 DEF Governs, HasPolicy, Policies
<1> QED
  BY <1>3, <1>4, AdministeredIsGoverned

LEMMA AddMemberKeeps ==
    ASSUME TenancyInv, NEW r \in Request, AddMember(r)
    PROVE  TenancyInv'
<1>1. CASE Refused(r)
  BY <1>1, RefusedKeeps
<1>2. CASE ~Refused(r)
  <2> DEFINE p == job[r].on
  <2>1. /\ CanJoin(p) /\ member' = [member EXCEPT ![p] = NewMember(job[r].number, job[r].data)]
        /\ Done(r) /\ UNCHANGED <<accounts, workspace, invitation, taken, history>>
    BY <1>2 DEF AddMember
  <2>2. p \in Workspace \X User /\ job[r].data \in SUBSET Policy
    BY JobFits DEF AddMember, At, Fits
  <2>3. job[r].number \in 0..requests /\ requests' = requests /\ requests \in Nat
    BY <2>1, RequestDone DEF TenancyInv, Waiting, Counters, Jobs
  <2>4. MemberTable' /\ Administered'
    BY <2>1, <2>2, <2>3, JoinKeeps DEF accounts, history, TenancyInv
  <2> QED
    BY <2>1, <2>4, AccountsKept DEF TenancyInv, Stored, Histories, history
<1> QED
  BY <1>1, <1>2

\* The request keeps what it read of the member.
LEMMA FindMemberKeeps ==
    ASSUME TenancyInv, NEW r \in Request, FindMember(r)
    PROVE  TenancyInv'
<1>1. CASE Refused(r)
  BY <1>1, RefusedKeeps
<1>2. CASE ~Refused(r)
  <2> USE DEF TenancyInv
  <2> DEFINE m == member[job[r].on]
             kept == [given |-> job[r].data, seen |-> m.rows, id |-> m.id]
  <2>1. /\ job' = [job EXCEPT ![r].at = "update", ![r].data = kept]
        /\ UNCHANGED <<accounts, spaces, taken, bounds, history>>
    BY <1>2 DEF FindMember
  <2>2. job[r].on \in Workspace \X User /\ job[r].data \subseteq Policy
    BY JobFits DEF FindMember, At, Fits
  <2>3. kept.given \subseteq Policy
    BY <2>2
  <2>4. Counters'
    BY <2>1 DEF Waiting, Counters, bounds
  <2>5. Jobs'
    <3> HIDE DEF kept
    <3> SUFFICES ASSUME NEW q \in Request
                 PROVE  (/\ DOMAIN job[q] = {"at", "by", "on", "data", "number"}
                         /\ job[q].number \in 0..requests
                         /\ Fits(job[q].at, job[q].by, job[q].on, job[q].data))'
      BY <2>1 DEF Jobs, Waiting
    <3>1. CASE q = r
      <4>1. /\ DOMAIN job[r] = {"at", "by", "on", "data", "number"}
            /\ job[r].number \in 0..requests
        BY DEF Waiting, Jobs
      <4>2. /\ job'[r].at = "update" /\ job'[r].on = job[r].on /\ job'[r].data = kept
            /\ job'[r].number = job[r].number
            /\ DOMAIN job'[r] = {"at", "by", "on", "data", "number"}
        BY <2>1, <4>1 DEF Waiting, Jobs
      <4> QED
        BY <2>1, <2>2, <2>3, <3>1, <4>1, <4>2 DEF Fits, bounds
    <3>2. CASE q # r
      BY <2>1, <3>2 DEF Waiting, Jobs, Fits, bounds
    <3> QED
      BY <3>1, <3>2
  <2>6. Stored'
    BY <2>1, <2>4, NothingStored DEF bounds, Waiting, Counters
  <2> QED
    BY <2>4, <2>5, <2>6 DEF Waiting
<1> QED
  BY <1>1, <1>2

\* A member of a workspace is changed or removed: the workspace is stripped if
\* the member could do everything.
LEMMA StripKeeps ==
    ASSUME Stored, NEW p \in Workspace \X User, NEW row,
           row # None => member[p] # None /\ IsMemberRow(row),
           member' = [member EXCEPT ![p] = row],
           stripped' = stripped \cup {w \in {p[1]} : Rules(p)},
           UNCHANGED <<user, workspace, requests>>
    PROVE  MemberTable' /\ Administered'
<1> USE DEF Stored, Tables
<1>1. /\ DOMAIN member' = Workspace \X User
      /\ \A q \in Workspace \X User : member'[q] = IF q = p THEN row ELSE member[q]
  BY DEF MemberTable
<1>2. MemberTable'
  BY <1>1 DEF MemberTable, IsMemberRow
<1>3. Governed'
  <2> SUFFICES ASSUME NEW w \in workspace \ stripped, w = p[1] => ~Rules(p)
               PROVE  \E v \in User : Governs(w, v)'
    BY DEF Governed
  <2>1. PICK v \in User : Governs(w, v)
    BY AdministeredIsGoverned DEF Governed
  <2>2. <<w, v>> \in Workspace \X User /\ <<w, v>> # p
    BY <2>1, GovernorsRule DEF MemberTable
  <2>3. member'[<<w, v>>] = member[<<w, v>>]
    BY <1>1, <2>2
  <2> QED
    BY <2>1, <2>3 DEF Governs, HasPolicy, Policies
<1> QED
  BY <1>2, <1>3, AdministeredIsGoverned

LEMMA UpdatePoliciesKeeps ==
    ASSUME TenancyInv, NEW r \in Request, UpdateMemberPolicies(r)
    PROVE  TenancyInv'
<1>1. CASE Refused(r)
  BY <1>1, RefusedKeeps
<1>2. CASE ~Refused(r)
  <2> DEFINE p == job[r].on
             m == member[p]
             d == job[r].data
             row == [rows   |-> (m.rows \ d.seen) \cup (d.given \X {m.change + 1}),
                     change |-> m.change + 1, id |-> m.id]
  <2>1. /\ m # None /\ member' = [member EXCEPT ![p] = row]
        /\ stripped' = stripped \cup {w \in {p[1]} : Rules(p)}
        /\ Done(r) /\ UNCHANGED <<accounts, workspace, invitation, taken, spent>>
    BY <1>2 DEF UpdateMemberPolicies
  <2>2. p \in Workspace \X User /\ d.given \subseteq Policy
    BY JobFits DEF UpdateMemberPolicies, At, Fits
  <2>3. IsMemberRow(m)
    BY <2>1, <2>2 DEF TenancyInv, Stored, Tables, MemberTable
  <2>4. IsMemberRow(row)
    <3>1. m.change \in Nat /\ m.rows \subseteq Policy \X (0..m.change) /\ m.id \in 0..requests
      BY <2>3 DEF IsMemberRow
    <3>2. m.rows \subseteq Policy \X (0..m.change + 1)
      BY <3>1
    <3>3. d.given \X {m.change + 1} \subseteq Policy \X (0..m.change + 1)
      BY <2>2, <3>1
    <3>4. row.rows \subseteq Policy \X (0..m.change + 1)
      BY <3>2, <3>3
    <3> QED
      BY <3>1, <3>4 DEF IsMemberRow
  <2>5. requests' = requests
    BY <2>1, RequestDone DEF TenancyInv
  <2>6. MemberTable' /\ Administered'
    <3> HIDE DEF row
    <3> QED
      BY <2>1, <2>2, <2>4, <2>5, StripKeeps DEF accounts, TenancyInv
  <2>7. p[1] \in Workspace
    BY <2>2
  <2> QED
    BY <2>1, <2>6, <2>7, AccountsKept DEF TenancyInv, Stored, Histories
<1> QED
  BY <1>1, <1>2

LEMMA RemoveMemberKeeps ==
    ASSUME TenancyInv, NEW r \in Request, RemoveMember(r)
    PROVE  TenancyInv'
<1> DEFINE p == job[r].on
<1>1. /\ member' = [member EXCEPT ![p] = None]
      /\ stripped' = stripped \cup {w \in {p[1]} : Rules(p)}
      /\ Done(r) /\ UNCHANGED <<accounts, workspace, invitation, taken, spent>>
  BY DEF RemoveMember
<1>2. p \in Workspace \X User
  BY JobFits DEF RemoveMember, At, Fits
<1>3. requests' = requests
  BY <1>1, RequestDone DEF TenancyInv
<1>4. MemberTable' /\ Administered'
  BY <1>1, <1>2, <1>3, StripKeeps DEF accounts, TenancyInv
<1> QED
  BY <1>1, <1>2, <1>4, AccountsKept DEF TenancyInv, Stored, Histories
-----------------------------------------------------------------------------
(* Invitations.                                                            *)

\* A row of an invitation changes, and one that was accepted stays so.
LEMMA InvitationKeeps ==
    ASSUME TenancyInv, NEW r \in Request, Done(r), NEW i \in Invitation,
           NEW row \in InvitationRow \cup {None}, invitation' = [invitation EXCEPT ![i] = row],
           row # None => /\ i \in taken' /\ row.workspace \in workspace
                         /\ user[row.by] # None /\ (i \in spent' => row.used),
           UNCHANGED <<accounts, workspace, stripped>>,
           taken \subseteq taken', taken' \subseteq Ids,
           spent' \subseteq spent \cup {i}, spent' \subseteq taken', MemberTable', Administered'
    PROVE  TenancyInv'
<1> USE DEF TenancyInv, accounts
<1>1. Waiting'
  BY RequestDone
<1>2. UserTable' /\ LinkTable' /\ ResetTable'
  BY DEF Stored, Tables, UserTable, LinkTable, ResetTable
<1>3. /\ invitation' \in [Invitation -> InvitationRow \cup {None}]
      /\ \A k \in Invitation : invitation'[k] = IF k = i THEN row ELSE invitation[k]
  BY DEF Stored, Tables, InvitationTable
<1>4. InvitationTable'
  BY <1>3 DEF Stored, Tables, InvitationTable
<1>5. Histories' /\ Known'
  BY <1>3 DEF Stored, Histories, Known
<1>6. VerifiedTogether'
  BY DEF Stored, VerifiedTogether
<1>7. SpentIsMarked'
  <2>1. \A t \in spent' \cap Token : reset'[t] # None => reset'[t].used
    BY RowAssumption DEF Stored, SpentIsMarked
  <2>2. ASSUME NEW k \in Invitation, k \in spent', invitation'[k] # None
        PROVE  invitation'[k].used
    <3>1. CASE k = i
      BY <1>3, <2>2, <3>1
    <3>2. CASE k # i
      <4>1. k \in spent /\ invitation'[k] = invitation[k] /\ invitation[k].workspace \in Workspace
        BY <1>3, <2>2, <3>2 DEF Stored, Tables, InvitationTable, InvitationRow
      <4> QED
        BY <2>2, <4>1 DEF Stored, SpentIsMarked, GetInvitations
    <3> QED
      BY <3>1, <3>2
  <2> QED
    BY <2>1, <2>2 DEF SpentIsMarked, GetInvitations
<1> QED
  BY <1>1, <1>2, <1>4, <1>5, <1>6, <1>7 DEF Stored, Tables

LEMMA CreateInvitationKeeps ==
    ASSUME TenancyInv, NEW r \in Request, CreateInvitation(r)
    PROVE  TenancyInv'
<1>1. CASE Refused(r)
  BY <1>1, RefusedKeeps
<1>2. CASE ~Refused(r)
  <2> DEFINE row == [workspace |-> job[r].on, email |-> job[r].data.email, by |-> job[r].by,
                     given |-> job[r].data.given, used |-> FALSE, expired |-> FALSE]
  <2>1. PICK i \in Invitation \ taken :
             /\ invitation' = [invitation EXCEPT ![i] = row]
             /\ taken' = taken \cup {i}
             /\ job[r].on \in workspace /\ user[job[r].by] # None
             /\ Done(r) /\ UNCHANGED <<accounts, workspace, member, history>>
    BY <1>2 DEF CreateInvitation
  <2>2. row \in InvitationRow /\ row.workspace = job[r].on /\ row.by = job[r].by
    BY JobFits DEF CreateInvitation, At, Fits, InvitationRow
  <2>3. requests' = requests
    BY <2>1, RequestDone DEF TenancyInv
  <2>4. MemberTable' /\ Administered'
    BY <2>1, <2>3, UsersKept DEF accounts, history, TenancyInv
  <2>5. i \notin spent /\ spent \subseteq taken /\ taken \subseteq Ids /\ i \in Ids
    BY <2>1 DEF TenancyInv, Stored, Known, Histories, Ids
  <2> HIDE DEF row
  <2> QED
    BY <2>1, <2>2, <2>4, <2>5, InvitationKeeps DEF history
<1> QED
  BY <1>1, <1>2

LEMMA RevokeInvitationKeeps ==
    ASSUME TenancyInv, NEW r \in Request, RevokeInvitation(r)
    PROVE  TenancyInv'
<1>1. CASE Refused(r)
  BY <1>1, RefusedKeeps
<1>2. CASE ~Refused(r)
  <2>1. /\ invitation' = [invitation EXCEPT ![job[r].on] = None]
        /\ Done(r) /\ UNCHANGED <<accounts, workspace, member, taken, history>>
    BY <1>2 DEF RevokeInvitation
  <2>2. job[r].on \in Invitation
    BY JobFits DEF RevokeInvitation, At, Fits
  <2>3. requests' = requests
    BY <2>1, RequestDone DEF TenancyInv
  <2>4. MemberTable' /\ Administered'
    BY <2>1, <2>3, UsersKept DEF accounts, history, TenancyInv
  <2>5. spent \subseteq taken /\ taken \subseteq Ids
    BY DEF TenancyInv, Stored, Known, Histories
  <2> QED
    BY <2>1, <2>2, <2>4, <2>5, InvitationKeeps DEF history
<1> QED
  BY <1>1, <1>2

\* The invitation is saved as it was read, but accepted.
LEMMA ClaimInvitationKeeps ==
    ASSUME TenancyInv, NEW r \in Request, ClaimInvitation(r)
    PROVE  TenancyInv'
<1>1. CASE Refused(r)
  BY <1>1, RefusedKeeps
<1>2. CASE ~Refused(r)
  <2> DEFINE i == job[r].on
             read == job[r].data
             p == <<read.workspace, job[r].by>>
             row == [read EXCEPT !.used = TRUE]
  <2>1. /\ CanJoin(p) /\ user[read.by] # None
        /\ member' = [member EXCEPT ![p] = NewMember(job[r].number, read.given)]
        /\ invitation' = [invitation EXCEPT ![i] = row]
        /\ spent' = spent \cup {i}
        /\ Done(r) /\ UNCHANGED <<accounts, workspace, taken, stripped>>
    BY <1>2 DEF ClaimInvitation
  <2>2. job[r].by \in User /\ i \in Invitation /\ i \in taken /\ read \in InvitationRow
    BY JobFits DEF ClaimInvitation, At, Fits
  <2>3. /\ row \in InvitationRow /\ row.used
        /\ row.workspace = read.workspace /\ row.by = read.by
        /\ read.given \in SUBSET Policy /\ p \in Workspace \X User
    BY <2>2 DEF InvitationRow
  <2>4. job[r].number \in 0..requests /\ requests' = requests /\ requests \in Nat
    BY <2>1, RequestDone DEF TenancyInv, Waiting, Counters, Jobs
  <2>5. MemberTable' /\ Administered'
    <3> HIDE DEF p
    <3> QED
      BY <2>1, <2>3, <2>4, JoinKeeps DEF accounts, TenancyInv
  <2>6. read.workspace \in workspace
    BY <2>1 DEF CanJoin
  <2>7. spent \subseteq taken /\ taken \subseteq Ids
    BY DEF TenancyInv, Stored, Known, Histories
  <2> HIDE DEF row
  <2> QED
    BY <2>1, <2>2, <2>3, <2>5, <2>6, <2>7, InvitationKeeps
<1> QED
  BY <1>1, <1>2
-----------------------------------------------------------------------------
LEMMA TenancyStep == TenancyInv /\ [Next]_vars => TenancyInv'
<1> SUFFICES ASSUME TenancyInv, [Next]_vars
             PROVE  TenancyInv'
  OBVIOUS
<1>1. ASSUME NEW r \in Request, Start(r)
      PROVE  TenancyInv'
  BY <1>1, StartKeeps, ForgotPasswordKeeps
<1>2. ASSUME NEW r \in Request, Finish(r)
      PROVE  TenancyInv'
  BY <1>2, RegisterKeeps, VerifyEmailKeeps, ForgotPasswordKeeps, ResetPasswordKeeps,
     CreateUserKeeps, UpdateUserKeeps, DropUserKeeps, CreateKeeps, DeleteKeeps, AddMemberKeeps,
     FindMemberKeeps, UpdatePoliciesKeeps, RemoveMemberKeeps, CreateInvitationKeeps,
     RevokeInvitationKeeps, ClaimInvitationKeeps DEF Finish
<1>3. ASSUME NEW r \in Request, Fail(r)
      PROVE  TenancyInv'
  BY <1>3, RefusedKeeps
<1>4. CASE OAuthTokenHandler \/ \E u \in User : SessionExpires(u)
  BY <1>4, SessionKeeps
<1>5. CASE \E t \in Ids : LinkExpires(t)
  BY <1>5, LinkExpiresKeeps
<1>6. CASE UNCHANGED vars
  <2>1. /\ UNCHANGED <<accounts, spaces, taken, history>>
        /\ UNCHANGED <<job, requests, faults, expiries>>
    BY <1>6 DEF vars, bounds
  <2>2. Waiting'
    BY <2>1 DEF TenancyInv, Waiting, Counters, Jobs, Fits
  <2>3. Stored'
    BY <2>1, <2>2, NothingStored DEF TenancyInv, Waiting, Counters
  <2> QED
    BY <2>2, <2>3 DEF TenancyInv
<1> QED
  BY <1>1, <1>2, <1>3, <1>4, <1>5, <1>6 DEF Next

\* Every table holds rows of its shape and refers only to rows that are there,
\* whatever requests read before they wrote and whatever was deleted meanwhile.
THEOREM TablesAreWhole == Spec => []TypeOK
<1>1. TenancyInv => TypeOK
  BY DEF TenancyInv, Stored, Tables, UserTable, LinkTable, ResetTable, MemberTable,
         InvitationTable, Histories, Waiting, Counters, TypeOK
<1> QED
  BY <1>1, TenancyInit, TenancyStep, PTL DEF Spec

\* The row of a link and the row of its user say the same.
THEOREM LinkAndUserAgree == Spec => []VerifiedTogether
<1>1. TenancyInv => VerifiedTogether
  BY DEF TenancyInv, Stored
<1> QED
  BY <1>1, TenancyInit, TenancyStep, PTL DEF Spec

-----------------------------------------------------------------------------
(* What was used.                                                          *)

\* What Begin writes down.
LEMMA BeginWrites ==
    ASSUME TenancyInv, NEW q \in Request, NEW kind, NEW by, NEW on, NEW data,
           Begin(q, kind, by, on, data)
    PROVE  /\ job'[q].at = kind /\ job'[q].on = on
           /\ \A r \in Request \ {q} : job'[r] = job[r]
BY DEF Begin, TenancyInv, Waiting, Jobs

\* Most requests use neither tokens nor invitations.
LEMMA StartElse ==
    ASSUME TenancyInv, NEW q \in Request, Start(q),
           ~StartResetPassword(q), ~StartClaimInvitation(q)
    PROVE  /\ job'[q].at \notin {"reset", "claim"}
           /\ \A r \in Request \ {q} : job'[r] = job[r]
<1>1. CASE StartForgotPassword(q)
  <2>1. PICK u : job' = [job EXCEPT ![q] = [Idle EXCEPT !.at = "forgot", !.on = u]]
    BY <1>1, Zenon DEF StartForgotPassword
  <2> QED
    BY <2>1 DEF Idle, TenancyInv, Waiting, Jobs
<1>2. CASE StartRegister(q) \/ StartVerifyEmail(q) \/ StartCreate(q) \/ StartDelete(q)
  BY <1>2, BeginWrites DEF StartRegister, StartVerifyEmail, StartCreate, StartDelete
<1>3. CASE StartUserRequest(q) \/ StartMe(q)
  BY <1>3, BeginWrites DEF StartUserRequest, StartMe
<1>4. CASE StartMemberRequest(q)
  BY <1>4, BeginWrites DEF StartMemberRequest
<1>5. CASE StartCreateInvitation(q) \/ StartRevokeInvitation(q)
  BY <1>5, BeginWrites DEF StartCreateInvitation, StartRevokeInvitation
<1> QED
  BY <1>1, <1>2, <1>3, <1>4, <1>5 DEF Start

\* A request that begins uses nothing that was used.
LEMMA StartUsesFresh ==
    ASSUME TenancyInv, NEW q \in Request, Start(q),
           NEW r \in Request, NEW t \in spent, Uses(r, t)'
    PROVE  Uses(r, t)
<1> USE DEF TenancyInv, Stored
<1>1. CASE StartResetPassword(q)
  <2>1. PICK x \in Token, s \in Secret :
             IsValid(reset[x]) /\ Begin(q, "reset", reset[x].user, x, s)
    BY <1>1 DEF StartResetPassword
  <2>2. job'[q].on = x /\ \A p \in Request \ {q} : job'[p] = job[p]
    BY <2>1, BeginWrites
  <2>3. x \notin spent
    BY <2>1 DEF IsValid, SpentIsMarked
  <2> QED
    BY <2>2, <2>3 DEF Uses
<1>2. CASE StartClaimInvitation(q)
  <2>1. PICK by \in User, i \in Invitation :
             Pending(i) /\ Begin(q, "claim", by, i, invitation[i])
    BY <1>2 DEF StartClaimInvitation
  <2>2. job'[q].on = i /\ \A p \in Request \ {q} : job'[p] = job[p]
    BY <2>1, BeginWrites
  <2>3. i \in GetInvitations(invitation[i].workspace) /\ invitation[i].workspace \in Workspace
    BY <2>1 DEF Pending, GetInvitations, Tables, InvitationTable, InvitationRow
  <2>4. i \notin spent
    BY <2>3 DEF SpentIsMarked
  <2> QED
    BY <2>2, <2>4 DEF Uses
<1>3. CASE ~StartResetPassword(q) /\ ~StartClaimInvitation(q)
  BY <1>3, StartElse DEF Uses
<1> QED
  BY <1>1, <1>2, <1>3

\* A request that goes on comes to nothing new to use.
LEMMA FinishUsesLess ==
    ASSUME TenancyInv, NEW q \in Request, Finish(q) \/ Fail(q)
    PROVE  \/ job' = [job EXCEPT ![q] = Idle]
           \/ \E d : job' = [job EXCEPT ![q].at = "update", ![q].data = d]
           \/ UNCHANGED job
BY DEF Finish, Fail, Register, VerifyEmail, ForgotPassword, ResetPassword, CreateUser,
       UpdateUserByID, DeleteUserByID, UpdateCurrentUser, DeleteCurrentUser, Create, Delete,
       AddMember, FindMember, UpdateMemberPolicies, RemoveMember, CreateInvitation,
       RevokeInvitation, ClaimInvitation, Done, Refused

\* What was used is not forgotten.
LEMMA SpentGrows == [Next]_vars => spent \subseteq spent'
<1> SUFFICES ASSUME [Next]_vars
             PROVE  spent \subseteq spent'
  OBVIOUS
<1>1. ASSUME NEW r \in Request, Start(r)
      PROVE  spent' = spent
  BY <1>1 DEF Start, StartRegister, StartVerifyEmail, StartForgotPassword, StartResetPassword,
              StartUserRequest, StartMe, StartCreate, StartDelete, StartMemberRequest,
              StartCreateInvitation, StartRevokeInvitation, StartClaimInvitation, Begin, history
<1>2. ASSUME NEW r \in Request, Finish(r) \/ Fail(r)
      PROVE  spent \subseteq spent'
  BY <1>2 DEF Finish, Fail, Register, VerifyEmail, ForgotPassword, ResetPassword, CreateUser,
              UpdateUserByID, DeleteUserByID, UpdateCurrentUser, DeleteCurrentUser, DropUser,
              Create, Delete, AddMember, FindMember, UpdateMemberPolicies, RemoveMember,
              CreateInvitation, RevokeInvitation, ClaimInvitation, Refused, history
<1>3. CASE \/ OAuthTokenHandler \/ \E u \in User : SessionExpires(u)
           \/ UNCHANGED vars \/ \E t \in Ids : LinkExpires(t)
  BY <1>3 DEF OAuthTokenHandler, Login, SessionExpires, LinkExpires, vars, history
<1> QED
  BY <1>1, <1>2, <1>3 DEF Next

LEMMA SpentStep ==
    TenancyInv /\ [Next]_vars =>
        [/\ \A r \in Request, t \in spent : Uses(r, t)' => Uses(r, t)
         /\ \A w \in Workspace : GetInvitations(w)' \cap spent = {}]_vars
<1> SUFFICES ASSUME TenancyInv, [Next]_vars
             PROVE  /\ \A r \in Request, t \in spent : Uses(r, t)' => Uses(r, t)
                    /\ \A w \in Workspace : GetInvitations(w)' \cap spent = {}
  OBVIOUS
<1>1. \A w \in Workspace : GetInvitations(w)' \cap spent = {}
  BY TenancyStep, SpentGrows DEF TenancyInv, Stored, SpentIsMarked
<1>2. ASSUME NEW r \in Request, NEW t \in spent, Uses(r, t)'
      PROVE  Uses(r, t)
  <2>1. ASSUME NEW q \in Request, Start(q)
        PROVE  Uses(r, t)
    BY <1>2, <2>1, StartUsesFresh
  <2>2. ASSUME NEW q \in Request, Finish(q) \/ Fail(q)
        PROVE  Uses(r, t)
    <3>1. DOMAIN job = Request /\ DOMAIN job[q] = {"at", "by", "on", "data", "number"}
      BY DEF TenancyInv, Waiting, Jobs
    <3>2. CASE job' = [job EXCEPT ![q] = Idle]
      BY <1>2, <3>1, <3>2 DEF Uses, Idle
    <3>3. ASSUME NEW d, job' = [job EXCEPT ![q].at = "update", ![q].data = d]
          PROVE  Uses(r, t)
      <4>1. CASE r = q
        <5>1. job'[q].at = "update"
          BY <3>1, <3>3
        <5> QED
          BY <1>2, <4>1, <5>1 DEF Uses
      <4>2. CASE r # q
        BY <1>2, <3>1, <3>3, <4>2 DEF Uses
      <4> QED
        BY <4>1, <4>2
    <3>4. CASE UNCHANGED job
      BY <1>2, <3>4 DEF Uses
    <3> QED
      BY <2>2, <3>2, <3>3, <3>4, FinishUsesLess
  <2>3. CASE \/ OAuthTokenHandler \/ \E u \in User : SessionExpires(u)
             \/ UNCHANGED vars \/ \E x \in Ids : LinkExpires(x)
    BY <1>2, <2>3 DEF OAuthTokenHandler, Login, SessionExpires, LinkExpires, vars, Uses
  <2> QED
    BY <2>1, <2>2, <2>3 DEF Next
<1> QED
  BY <1>1, <1>2

\* A reset token or an invitation that was used is out of reach of every
\* request that begins later, and is not listed: whoever uses it once more had
\* read it before its first use.
THEOREM UsedOnce == Spec => SpentStaysSpent
BY TenancyInit, TenancyStep, SpentStep, PTL DEF Spec, SpentStaysSpent

\* A workspace has a member with every policy until one who had them is changed
\* or removed.
THEOREM SomebodyAdministers == Spec => []Administered
<1>1. TenancyInv => Administered
  BY DEF TenancyInv, Stored
<1> QED
  BY <1>1, TenancyInit, TenancyStep, PTL DEF Spec
=============================================================================
