------------------------------ MODULE MCTenancy -----------------------------
\* Finite instances of Tenancy for TLC.
EXTENDS Tenancy, TLC

CONSTANTS q1, q2, su, ann, bob, eve, home, second, i1, i2, i3, t1, t2,
          annAddress, bobAddress, bobTyped, sudo, s1

TwoRequests == {q1, q2}
Users == {su, ann, bob, eve}
Workspaces == {home, second}
Invitations == {i1, i2, i3}
Tokens == {t1, t2}
Emails == {annAddress, bobAddress, bobTyped}
LowerCase == [e \in Emails |-> IF e = bobTyped THEN bobAddress ELSE e]
OneSecret == {s1}

Policies3 == {"admin", "members", "other"}
GivenSets == {{"members"}, {"other"}}

\* su@sudo has a workspace with another member, ann, who has asked for a new
\* password; bob is invited, and has registered but not followed the link.
Users0 ==
    su :> NewUser(sudo, None, "admin", TRUE) @@ ann :> NewUser(annAddress, None, "user", TRUE)
    @@ bob :> NewUser(bobAddress, None, "user", FALSE) @@ eve :> None
Links0 == {bob}
Resets0 == t1 :> [user |-> ann, used |-> FALSE, expired |-> FALSE] @@ t2 :> None
Workspaces0 == {home}
Members0 == <<home, su>> :> Policies3 @@ <<home, ann>> :> {"members"}
Invitations0 ==
    i1 :> [workspace |-> home, email |-> bobAddress, by |-> su, given |-> {"other"},
           used |-> FALSE, expired |-> FALSE]
    @@ i2 :> None @@ i3 :> None

AllKinds == {"create", "delete", "add", "find", "remove", "invite", "revoke", "claim",
             "register", "verify", "forgot", "reset", "createUser", "updateUser",
             "deleteUser", "deleteMe", "updateMe"}

\* The third request is looked at only where something has been used before.
ThirdAfterUse == requests < 3 \/ spent # {}

Symmetry == Permutations({q1, q2}) \cup Permutations({i2, i3})
=============================================================================
