------------------------------- MODULE Access -------------------------------
(***************************************************************************)
(* Who may do what: the access profile and the role assignments of an      *)
(* account (access_service.py), the accounts that an administrator creates *)
(* (provisioning_service.py), and the link of a Keycloak identity to an    *)
(* account (dependencies.py), over the accounts and sessions of Sessions.  *)
(*                                                                         *)
(* The permissions of a request are computed from two queries, the profile *)
(* and then the assignments, and other requests commit between them.       *)
(***************************************************************************)
EXTENDS Sessions

CONSTANTS
    Root,       \* the account of the first administrator
    First,      \* the request that logged it in
    Second,     \* the request that refreshed that session
    Subjects    \* subjects of the identity provider

ASSUME AccessAssumption ==
    /\ Root \in Accounts /\ {First, Second} \subseteq Requests /\ First # Second
    /\ NULL \notin Subjects

VARIABLES
    profile,    \* accounts with a row of access_profiles: access is managed
    roles,      \* [Accounts -> roles of its rows of access_assignments]
    link,       \* [Subjects -> account of its row of identity_links, or NULL]
    view,       \* ghost: [Requests -> the roles its two queries found]
    during      \* ghost: [Requests -> roles its account had since it began]

avars == <<profile, roles, link, view, during>>
vars == <<svars, avars>>

AccessRoles == {"customer", "vendor_admin", "operations", "admin", "superadmin"}

\* DEFAULT_ACCESS and DEFAULT_PERMISSIONS, for the permissions used here.
DefaultRole(role) == role
CanManage(held) == held \cap {"admin", "superadmin"} # {}
IsSuper(held) == "superadmin" \in held

\* AccessService.context, on the rows that the two queries returned.
ContextRoles(managed, rows, role) ==
    IF rows # {} THEN rows
    ELSE IF managed THEN {} ELSE {DefaultRole(role)}

Effective(a, managed, rows) == ContextRoles(a \in managed, rows[a], user[a].role)

-----------------------------------------------------------------------------
\* Ghost: the roles in force for the requests whose context is being read.
Observe(managed, rows) ==
    [r \in Requests |->
        IF At(r, "context")
        THEN during[r] \cup {Effective(req[r].user, managed, rows)}
        ELSE during[r]]

\* The guard of an administrative route reads the profile of the actor ...
BeginContext(r, a) ==
    /\ At(r, "idle")
    /\ user[a] # NULL
    /\ req' = [req EXCEPT ![r] = [Start("admin", "context", a) EXCEPT
            !.legacy = a \in profile, !.role = user[a].role]]
    /\ during' = [during EXCEPT ![r] = {Effective(a, profile, roles)}]
    /\ UNCHANGED <<keycloak, user, sess, code, upstream, changed, profile, roles, link, view>>

\* A plausible mistake: an empty list of assignments falls back to the role of the account.
ReadAssignmentsUnmanaged(r) ==
    LET held == ContextRoles(FALSE, roles[req[r].user], req[r].role)
    IN  /\ req[r].op = "admin" /\ At(r, "context")
        /\ view' = [view EXCEPT ![r] = held]
        /\ req' = [req EXCEPT ![r] = IF CanManage(held) THEN [@ EXCEPT !.stage = "acting"] ELSE Done]
        /\ UNCHANGED <<keycloak, user, sess, code, upstream, changed, profile, roles, link, during>>

\* ... and then its assignments.
ReadAssignments(r) ==
    LET held == ContextRoles(req[r].legacy, roles[req[r].user], req[r].role)
    IN  /\ req[r].op = "admin" /\ At(r, "context")
        /\ view' = [view EXCEPT ![r] = held]
        /\ req' = [req EXCEPT ![r] = IF CanManage(held) THEN [@ EXCEPT !.stage = "acting"] ELSE Done]
        /\ UNCHANGED <<keycloak, user, sess, code, upstream, changed, profile, roles, link, during>>

\* replace_user_access: the assignments of the target are replaced, under the
\* lock of its row of users.  Only a superadmin grants superadmin.
ReplaceAssignments(r, a, granted) ==
    /\ req[r].op = "admin" /\ At(r, "acting")
    /\ user[a] # NULL /\ UserFree(a, r)
    /\ IsSuper(granted) => IsSuper(view[r])
    /\ profile' = profile \cup {a}
    /\ roles' = [roles EXCEPT ![a] = granted]
    /\ during' = Observe(profile', roles')
    /\ req' = [req EXCEPT ![r] = Done]
    /\ UNCHANGED <<keycloak, user, sess, code, upstream, changed, link, view>>

\* provision: an internal account with a managed profile and no usable
\* password; the unique e-mail refuses one that was registered meanwhile.
Provision(r, a, role) ==
    /\ req[r].op = "admin" /\ At(r, "acting")
    /\ \/ /\ user[a] # NULL
          /\ UNCHANGED <<user, profile, roles>>
       \/ /\ user[a] = NULL
          /\ user' = [user EXCEPT ![a] =
                [role |-> role, pwd |-> NULL, legacy |-> FALSE, cv |-> 1, mustSet |-> FALSE,
                 verified |-> keycloak, customer |-> FALSE]]
          /\ profile' = profile \cup {a}
          /\ roles' = [roles EXCEPT ![a] = {role}]
    /\ req' = [req EXCEPT ![r] = Done]
    /\ UNCHANGED <<keycloak, sess, code, upstream, changed, link, view, during>>

-----------------------------------------------------------------------------
(***************************************************************************)
(* _keycloak_user: a token of the identity provider names a subject and a  *)
(* verified e-mail.  An unknown subject is linked to the account of that   *)
(* e-mail, unless the account has another subject; two unique constraints  *)
(* decide between requests that insert at the same time.                   *)
(***************************************************************************)
LinkedTo(a) == {s \in Subjects: link[s] = a}

BeginLink(r, s, a) ==
    /\ At(r, "idle") /\ keycloak
    /\ link[s] = NULL
    /\ user[a] # NULL /\ LinkedTo(a) = {}
    /\ req' = [req EXCEPT ![r] = [Start("link", "linking", a) EXCEPT !.token = s]]
    /\ UNCHANGED <<keycloak, user, sess, code, upstream, changed, profile, roles, link, view, during>>

\* A plausible mistake: the request goes on with the account it found by e-mail.
AfterConflictUnchecked(s, a) == a

\* The account that the request acts for once the insert was refused.
AfterConflict(s, a) == IF link[s] = a THEN a ELSE NULL

Link(r) ==
    LET s == req[r].token
        a == req[r].user
        free == link[s] = NULL /\ LinkedTo(a) = {}
    IN  /\ req[r].op = "link"
        /\ link' = IF free THEN [link EXCEPT ![s] = a] ELSE link
        /\ req' = [req EXCEPT ![r] = [Done EXCEPT
                !.user = IF free THEN a ELSE AfterConflict(s, a), !.token = s]]
        /\ UNCHANGED <<keycloak, user, sess, code, upstream, changed, profile, roles, view, during>>

-----------------------------------------------------------------------------
Init ==
    /\ keycloak \in BOOLEAN
    /\ \E legacy, mustSet \in BOOLEAN:
        user = [a \in Accounts |->
            IF a = Root
            THEN [role |-> "admin", pwd |-> NULL, legacy |-> legacy, cv |-> 1,
                  mustSet |-> mustSet, verified |-> FALSE, customer |-> FALSE]
            ELSE NULL]
    /\ sess = [r \in Requests |->
            CASE r = First  -> [NewSession(Root, First, 0) EXCEPT !.rotated = TRUE]
              [] r = Second -> NewSession(Root, First, 0)
              [] OTHER      -> NULL]
    /\ code = [r \in Requests |-> NULL]
    /\ upstream = {}
    /\ req = [r \in Requests |-> IF r \in {First, Second} THEN Done ELSE Idle]
    /\ changed = [a \in Accounts |-> 0]
    /\ profile = {}
    /\ roles = [a \in Accounts |-> {}]
    /\ link = [s \in Subjects |-> NULL]
    /\ view = [r \in Requests |-> {}]
    /\ during = [r \in Requests |-> {}]

AccountRoutes ==
    \E r \in Requests, a \in Accounts:
        \/ \E role \in {"customer", "vendor_admin"}: BeginRegister(r, a, role)
        \/ BeginLogin(r, a) \/ LogoutAll(r, a) \/ BeginChange(r, a) \/ BeginSet(r, a)
        \/ \E kind \in {"reset", "email"}: IssueCode(r, a, kind)

TokenRoutes ==
    \E r, t \in Requests:
        \/ RefreshReplay(r, t) \/ RefreshExpired(r, t) \/ BeginRotate(r, t) \/ Logout(r, t)
        \/ VerifyEmail(r, t) \/ BeginVerifyPhone(r, t) \/ BeginReset(r, t)

Proceed ==
    \E r \in Requests:
        \/ Register(r) \/ Login(r) \/ Rotate(r) \/ VerifyPhone(r) \/ StartRevoking(r)
        \/ FinishRevoking(r) \/ DeadlockAbort(r) \/ Expire(r)

Next ==
    \/ (AccountRoutes \/ TokenRoutes \/ Proceed) /\ UNCHANGED avars
    \/ \E r \in Requests, a \in Accounts:
        \/ \E role \in UserRoles:
            /\ KeycloakCallback(r, a, role)
            /\ UNCHANGED <<profile, roles, link, view, during>>
        \/ BeginContext(r, a)
        \/ \E granted \in SUBSET {"admin", "superadmin"}: ReplaceAssignments(r, a, granted)
        \/ \E role \in {"operations", "admin"}: Provision(r, a, role)
        \/ \E s \in Subjects: BeginLink(r, s, a)
    \/ \E r \in Requests: ReadAssignments(r) \/ Link(r)

Spec == Init /\ [][Next]_vars

-----------------------------------------------------------------------------
TypeOK ==
    /\ keycloak \in BOOLEAN
    /\ \A a \in Accounts: user[a] = NULL \/ user[a] \in User
    /\ \A t \in Requests: sess[t] = NULL \/ sess[t] \in Session
    /\ \A k \in Requests: code[k] = NULL \/ code[k] \in Code
    /\ upstream \subseteq Requests
    /\ profile \subseteq Accounts
    /\ roles \in [Accounts -> SUBSET AccessRoles]
    /\ link \in [Subjects -> Accounts \cup {NULL}]

(***************************************************************************)
(* Rotation never forks: whatever refreshes, replays and logouts run at    *)
(* the same time, one family has at most one token that can be exchanged.  *)
(***************************************************************************)
OneUsablePerFamily ==
    \A t, x \in Requests:
        Usable(t) /\ Usable(x) /\ sess[t].family = sess[x].family => t = x

(***************************************************************************)
(* A token issued under a credential that was changed since is not usable, *)
(* unless the request that issued it overlapped the change.                *)
(***************************************************************************)
StaleIsRaced ==
    \A t \in Requests:
        Usable(t) /\ sess[t].era < changed[sess[t].user] => sess[t].raced

(***************************************************************************)
(* A reset code changes the password once and an e-mail code verifies      *)
(* once, however many requests present it together.                        *)
(***************************************************************************)
CodeIsUsedOnce ==
    \A k \in Requests: code[k] # NULL /\ code[k].kind # "phone" => code[k].uses <= 1

(***************************************************************************)
(* What may be used once is used once: rotated tokens and one-time codes.  *)
(***************************************************************************)
SingleUse == OneUsablePerFamily /\ CodeIsUsedOnce

(***************************************************************************)
(* The roles found by the two queries of a context are roles that the      *)
(* account had at some moment of the request.                              *)
(***************************************************************************)
ContextIsAtomic ==
    \A r \in Requests: At(r, "acting") => view[r] \in during[r]

(***************************************************************************)
(* A request of the identity provider acts for the account its subject is  *)
(* linked to, and two subjects never share an account.                     *)
(***************************************************************************)
ActsAsLinked ==
    /\ \A r \in Requests:
        At(r, "done") /\ req[r].token \in Subjects /\ req[r].user # NULL
            => link[req[r].token] = req[r].user
    /\ \A a \in Accounts: Cardinality(LinkedTo(a)) <= 1

(***************************************************************************)
(* Only revocations are ever aborted to break a deadlock: a refresh or a   *)
(* login is never one of the requests that wait for each other.  While     *)
(* some request waits for the rows it revokes, a refresh, a login or a     *)
(* revocation can go on, or two revocations wait for each other and the    *)
(* database aborts one of them.                                            *)
(***************************************************************************)
NeverStuck ==
    (\E r \in Requests: At(r, "revoking")) =>
        \E r \in Requests:
            \/ CanRotate(r)
            \/ req[r].op = "login" /\ UserFree(req[r].user, r)
            \/ At(r, "revoking") /\ (~Waits(r) \/ Deadlocked(r))
=============================================================================
