------------------------------ MODULE Sessions ------------------------------
(***************************************************************************)
(* Sessions and memberships of one tenant (qefro-auth/src/lib.rs): login,   *)
(* authentication of a token, refresh, logout, switch of tenant, and the    *)
(* administration of members (create, disable, enable, remove, roles).      *)
(* Every SQL statement is a transaction of its own, so a request is a       *)
(* sequence of steps between which other requests run, and at any of which  *)
(* the process may die.  Roles are abstracted to whether they hold Admin,   *)
(* a password to the fact that login knows it, a token to its session.      *)
(***************************************************************************)
EXTENDS Naturals, FiniteSets

CONSTANTS Users,        \* accounts the tenant may ever have
          Founders,     \* those that are Admin members at the start
          Requests,     \* requests in flight at a time
          MaxSessions,  \* bound: sessions ever issued
          MaxChanges,   \* bound: administrative requests
          Nobody        \* no user

\* Some of the users are the founders; Nobody is none of them.
UsersAssumption ==
    /\ Founders \subseteq Users /\ Founders # {} /\ Nobody \notin Users
    /\ MaxSessions \in Nat /\ MaxChanges \in Nat

VARIABLES account,  \* users: the rows of users
          member,   \* user_tenants: the rows of this tenant
          session,  \* sessions, in the order they are issued
          req,      \* the requests in flight
          changes,  \* administrative requests so far
          ended,    \* history: sessions a disable or a removal has ended
          excused   \* history: members were changed under another change, or
                    \* an administrator took the role from himself

sessionVars == <<account, member, session, req, changes, ended, excused>>

Sids == 1..MaxSessions
Unissued == [user |-> Nobody, revoked |-> FALSE, expired |-> FALSE]
Issued == {s \in Sids : session[s].user # Nobody}
Outsider == [here |-> FALSE, enabled |-> FALSE, admin |-> FALSE]
Enrolled(a) == [here |-> TRUE, enabled |-> TRUE, admin |-> a]
May(u) == member[u].here /\ member[u].enabled

\* What an authenticated request goes on to do; the last five administer.  A
\* request that touches nothing here ends as one that dies after Authenticate.
Administers == {"create", "disable", "enable", "remove", "demote"}
Kinds == {"login", "refresh", "logout", "switch"} \union Administers

Idle == [kind |-> "login", pc |-> "idle", user |-> Nobody, sid |-> 0,
         target |-> Nobody, old |-> {}, late |-> FALSE]

TypeOK ==
    /\ account \subseteq Users
    /\ member \in [Users -> [here : BOOLEAN, enabled : BOOLEAN, admin : BOOLEAN]]
    /\ session \in [Sids -> [user : Users \union {Nobody},
                             revoked : BOOLEAN, expired : BOOLEAN]]
    /\ req \in [Requests ->
            [kind : Kinds, user : Users \union {Nobody}, sid : {0} \union Sids,
             pc : {"idle", "issue", "member", "accepted", "tenant",
                   "enroll", "revoke", "done"},
             target : Users \union {Nobody}, old : SUBSET Sids, late : BOOLEAN]]
    /\ changes \in 0..MaxChanges /\ ended \subseteq Sids /\ excused \in BOOLEAN

\* register creates the tenant with its first administrators; each logs in.
Init ==
    /\ account = Founders
    /\ member = [u \in Users |-> IF u \in Founders THEN Enrolled(TRUE) ELSE Outsider]
    /\ session = [s \in Sids |-> Unissued]
    /\ req = [r \in Requests |-> Idle]
    /\ changes = 0 /\ ended = {} /\ excused = FALSE

-----------------------------------------------------------------------------
\* A request returns or is refused: nothing of it is left.
End(r) == req' = [req EXCEPT ![r] = Idle]
Goto(r, pc) == req' = [req EXCEPT ![r].pc = pc]

History == UNCHANGED <<changes, ended, excused>>

\* login: the password is right; the membership is read.
Login(r, u) ==
    /\ req[r].pc = "idle" /\ u \in account /\ May(u)
    /\ req' = [req EXCEPT ![r] = [Idle EXCEPT !.kind = "login", !.pc = "issue",
                                              !.user = u]]
    /\ UNCHANGED <<account, member, session>> /\ History

\* issue_token: a new session, whatever became of the membership since.
IssueToken(r) ==
    /\ req[r].pc = "issue"
    /\ \E s \in Sids :
        /\ Issued = 1..(s - 1)
        /\ session' = [session EXCEPT ![s] = [Unissued EXCEPT !.user = req[r].user]]
    /\ End(r) /\ UNCHANGED <<account, member>> /\ History

Live(s) == ~session[s].revoked /\ ~session[s].expired

\* authenticate, first read: the session of the token.
Present(r, s, kind, t) ==
    /\ req[r].pc = "idle" /\ s \in Issued /\ Live(s)
    /\ kind \in Kinds \ {"login"}
    /\ IF kind \in Administers
       THEN /\ t \in Users /\ changes < MaxChanges
            /\ changes' = changes + 1
       ELSE t = Nobody /\ UNCHANGED changes
    /\ req' = [req EXCEPT ![r] =
            [Idle EXCEPT !.kind = kind, !.pc = "member", !.user = session[s].user,
                         !.sid = s, !.target = t, !.late = s \in ended]]
    /\ UNCHANGED <<account, member, session, ended, excused>>

\* authenticate, second read: the membership, with the roles the request keeps:
\* the administration of members needs the Admin role, and does not look again.
Authenticate(r) ==
    LET u == req[r].user IN
    /\ req[r].pc = "member"
    /\ IF May(u) /\ (req[r].kind \in Administers => member[u].admin)
       THEN req' = [req EXCEPT ![r].pc = "accepted",
                               ![r].sid = IF req[r].kind \in Administers THEN 0 ELSE @]
       ELSE End(r)
    /\ UNCHANGED <<account, member, session>> /\ History

-----------------------------------------------------------------------------
Accepted(r, kind) == req[r].pc = "accepted" /\ req[r].kind = kind

\* reissue: the session is extended unless it has been revoked since.
Reissue(r) ==
    /\ Accepted(r, "refresh")
    /\ session' = [session EXCEPT ![req[r].sid].expired = @ /\ session[req[r].sid].revoked]
    /\ End(r) /\ UNCHANGED <<account, member>> /\ History

\* logout, and the first half of the revocation of switch_tenant.
Logout(r) ==
    /\ \/ Accepted(r, "logout") /\ End(r)
       \/ req[r].pc = "tenant" /\ Goto(r, "issue")
    /\ session' = [session EXCEPT ![req[r].sid].revoked = TRUE]
    /\ UNCHANGED <<account, member>> /\ History

\* switch_tenant reads the membership in the tenant again (the switch modelled
\* is to this tenant: another tenant's rows are not seen here).
SwitchTenant(r) ==
    /\ Accepted(r, "switch")
    /\ IF May(req[r].user) THEN Goto(r, "tenant") ELSE End(r)
    /\ UNCHANGED <<account, member, session>> /\ History

-----------------------------------------------------------------------------
\* Another change of members was authenticated before this one wrote.
Races(r) == \E q \in Requests \ {r} :
                req[q].kind \in Administers /\ req[q].pc = "accepted"

\* Mutant of NotOwn: an administrator may disable or remove himself.
NotOwnNever(r) == TRUE
\* "cannot disable your own account", "cannot remove your own ... membership".
NotOwn(r) == req[r].target # req[r].user

\* create_user_in_tenant: the account first (its e-mail address is unique) ...
CreateUser(r) ==
    /\ Accepted(r, "create")
    /\ IF req[r].target \in account
       THEN End(r) /\ UNCHANGED account
       ELSE Goto(r, "enroll") /\ account' = account \union {req[r].target}
    /\ UNCHANGED <<member, session>> /\ History

\* ... then add_membership, with or without the Admin role.
AddMembership(r) ==
    /\ req[r].pc = "enroll"
    /\ \E a \in BOOLEAN : member' = [member EXCEPT ![req[r].target] = Enrolled(a)]
    /\ End(r) /\ UNCHANGED <<account, session>> /\ History

\* The sessions of the target when its membership was taken away.
OldSessions(r) == {s \in Issued : session[s].user = req[r].target}

\* set_membership_enabled(false) and remove_tenant_membership: the row, ...
Exclude(r) ==
    LET t == req[r].target IN
    /\ Accepted(r, "disable") \/ Accepted(r, "remove")
    /\ IF NotOwn(r) /\ member[t].here
       THEN /\ member' = [member EXCEPT ![t] =
                   IF req[r].kind = "disable" THEN [@ EXCEPT !.enabled = FALSE]
                                              ELSE Outsider]
            /\ req' = [req EXCEPT ![r].pc = "revoke", ![r].old = OldSessions(r)]
            /\ excused' = (excused \/ Races(r))
       ELSE End(r) /\ UNCHANGED <<member, excused>>
    /\ UNCHANGED <<account, session, changes, ended>>

\* Mutant of Revoked: sessions that have expired are not worth revoking.
RevokedLive(u) == {s \in Issued : session[s].user = u /\ Live(s)}
\* UPDATE sessions SET revoked_at WHERE user_id = target AND revoked_at IS NULL.
Revoked(u) == {s \in Issued : session[s].user = u}

\* ... then its sessions, in a second statement; the request is answered.
RevokeSessions(r) ==
    /\ req[r].pc = "revoke"
    /\ session' = [s \in Sids |->
            IF s \in Revoked(req[r].target) THEN [session[s] EXCEPT !.revoked = TRUE]
                                            ELSE session[s]]
    /\ ended' = ended \union req[r].old
    /\ End(r) /\ UNCHANGED <<account, member, changes, excused>>

\* set_membership_enabled(true): no session comes back with it.
Enable(r) ==
    LET t == req[r].target IN
    /\ Accepted(r, "enable")
    /\ member' = [member EXCEPT ![t].enabled = @ \/ member[t].here]
    /\ End(r) /\ UNCHANGED <<account, session>> /\ History

\* update_tenant_user: the roles are replaced; one's own, too.
Demote(r) ==
    LET t == req[r].target IN
    /\ Accepted(r, "demote")
    /\ member' = [member EXCEPT ![t].admin = FALSE]
    /\ excused' = (excused \/ Races(r) \/ t = req[r].user)
    /\ End(r) /\ UNCHANGED <<account, session, changes, ended>>

-----------------------------------------------------------------------------
\* expires_at passes.
Expire(s) ==
    /\ s \in Issued /\ ~session[s].expired
    /\ session' = [session EXCEPT ![s].expired = TRUE]
    /\ UNCHANGED <<account, member, req>> /\ History

\* The process dies between two statements: the request is not answered.
Dies(r) ==
    /\ req[r].pc # "idle" /\ End(r)
    /\ UNCHANGED <<account, member, session>> /\ History

Next ==
    \/ \E r \in Requests :
        \/ \E u \in Users : Login(r, u)
        \/ \E s \in Sids, kind \in Kinds, t \in Users \union {Nobody} :
                Present(r, s, kind, t)
        \/ Authenticate(r) \/ IssueToken(r) \/ Reissue(r) \/ Logout(r)
        \/ SwitchTenant(r) \/ CreateUser(r) \/ AddMembership(r) \/ Exclude(r)
        \/ RevokeSessions(r) \/ Enable(r) \/ Demote(r) \/ Dies(r)
    \/ \E s \in Sids : Expire(s)

Spec == Init /\ [][Next]_sessionVars

-----------------------------------------------------------------------------
(* Once a disable or a removal is answered, the sessions its target had     *)
(* when the membership was taken away are over for good: a request that     *)
(* presents one of them later is not accepted, even after the member is     *)
(* enabled or created again, and whatever refreshes were under way.         *)
OldSessionsEnd ==
    \A r \in Requests : req[r].late => req[r].pc \notin {"accepted", "tenant"}

(* A tenant keeps an enabled administrator: no sequence of administrative   *)
(* requests leaves it without one, unless two of them overlapped (the roles *)
(* of each are those read when it was authenticated) or an administrator    *)
(* took the Admin role from himself.                                        *)
AdminStays ==
    \/ \E u \in Users : May(u) /\ member[u].admin
    \/ excused
=============================================================================
