------------------------------ MODULE Sessions ------------------------------
(***************************************************************************)
(* Accounts, refresh tokens and one-time codes of the API                  *)
(* (apps/api/app/domains/auth).  A refresh token is a row of auth_sessions *)
(* and is replaced ("rotated") at every use; the tokens that descend from  *)
(* one login form a family.                                                *)
(*                                                                         *)
(* Every request is one database transaction at READ COMMITTED, split      *)
(* where it awaits something that others can change in the meantime: the   *)
(* password hash computed in a thread, a row lock, and an UPDATE of many   *)
(* rows, which sees the rows committed when it starts (its snapshot) and   *)
(* then waits for the ones that another transaction has locked.  A request *)
(* identifier is used once, and also names what its request creates: a     *)
(* refresh token, a one-time code or a password.                           *)
(***************************************************************************)
EXTENDS Naturals, FiniteSets

CONSTANTS
    Accounts,   \* e-mail addresses; a row of users once registered
    Requests,   \* HTTP requests to the API
    NULL

ASSUME SessionsAssumption ==
    NULL \notin Accounts \cup Requests

VARIABLES
    keycloak,   \* settings.keycloak_enabled
    user,       \* [Accounts -> row of users, or NULL]
    sess,       \* [Requests -> row of auth_sessions, or NULL]
    code,       \* [Requests -> one-time code, or NULL]
    upstream,   \* tokens under which Redis keeps a Keycloak refresh token
    req,        \* [Requests -> what the request has read and where it waits]
    changed     \* ghost: changes of credential committed, per account

svars == <<keycloak, user, sess, code, upstream, req, changed>>

-----------------------------------------------------------------------------
(***************************************************************************)
(* Rows.  users.password_hash is the request that set it, with the scheme  *)
(* it is stored in; credential_version is kept in access tokens.           *)
(***************************************************************************)
Passwords == Requests \cup {NULL}

UserRoles == {"customer", "vendor_admin", "operations", "admin"}

User == [role: UserRoles, pwd: Passwords, legacy: BOOLEAN, cv: Nat, mustSet: BOOLEAN,
         verified: BOOLEAN, customer: BOOLEAN]

\* era and raced are ghosts: the credential changes committed when the issuing
\* request read the account, and whether it overlapped a revocation.
Session == [user: Accounts, family: Requests, rotated: BOOLEAN, revoked: BOOLEAN,
            expired: BOOLEAN, era: Nat, raced: BOOLEAN]

Code == [kind: {"reset", "email", "phone"}, user: Accounts, expired: BOOLEAN, uses: Nat]

ASSUME RowAssumption ==
    NULL \notin User \cup Session \cup Code

\* A request that has not started, and one that has answered.
Idle ==
    [op |-> "none", stage |-> "idle", user |-> NULL, role |-> NULL, token |-> NULL,
     code |-> NULL, pwd |-> NULL, legacy |-> FALSE, cv |-> 0, era |-> 0,
     raced |-> FALSE, rows |-> {}]

Done == [Idle EXCEPT !.stage = "done"]

Start(op, stage, a) == [Idle EXCEPT !.op = op, !.stage = stage, !.user = a]

\* A refresh token that refresh() exchanges for another one.
Usable(t) ==
    /\ sess[t] # NULL
    /\ ~sess[t].rotated /\ ~sess[t].revoked /\ ~sess[t].expired

NewSession(a, family, era) ==
    [user |-> a, family |-> family, rotated |-> FALSE, revoked |-> FALSE,
     expired |-> FALSE, era |-> era, raced |-> FALSE]

-----------------------------------------------------------------------------
(***************************************************************************)
(* Locks, derived from where the requests are.  Refresh and logout lock    *)
(* the session of their token, a reset locks its code, and _set_password   *)
(* holds the row of users from its first UPDATE.                           *)
(***************************************************************************)
At(r, stage) == req[r].stage = stage

LockedTokens(r) ==
    IF req[r].op \in {"rotate", "replay"} THEN {req[r].token} ELSE {}

\* A plausible mistake: session_by_hash without lock.
TokenUnlocked(t, r) == TRUE

TokenFree(t, r) == \A q \in Requests \ {r}: t \notin LockedTokens(q)

CodeFree(k, r) ==
    \A q \in Requests \ {r}: req[q].op = "reset" => req[q].code # k

UserFree(a, r) ==
    \A q \in Requests \ {r}:
        req[q].op \in {"reset", "change", "set"} /\ At(q, "revoking")
            => req[q].user # a

\* What an UPDATE ... SET revoked_at WHERE revoked_at IS NULL finds when it starts.
Unrevoked(S) == {t \in S: sess[t] # NULL /\ ~sess[t].revoked}

\* A plausible mistake: only the tokens that were exchanged already.
RotatedSessionsOf(a) == {t \in Requests: sess[t] # NULL /\ sess[t].user = a /\ sess[t].rotated}

SessionsOf(a) == {t \in Requests: sess[t] # NULL /\ sess[t].user = a}
FamilyOf(f) == {t \in Requests: sess[t] # NULL /\ sess[t].family = f}

Revoke(rows) ==
    [t \in Requests |->
        IF t \in rows THEN [sess[t] EXCEPT !.revoked = TRUE] ELSE sess[t]]

\* Ghost: the requests that are issuing a token to a now, while its sessions
\* are being revoked.
Issuing(a) ==
    {q \in Requests: req[q].op \in {"login", "rotate"} /\ req[q].user = a}

Revoking(a) == \E q \in Requests: At(q, "revoking") /\ req[q].user = a

Mark(a) ==
    [q \in Requests |->
        IF q \in Issuing(a) THEN [req[q] EXCEPT !.raced = TRUE] ELSE req[q]]

-----------------------------------------------------------------------------
(***************************************************************************)
(* Registration (register, register_provider): the e-mail is looked up,    *)
(* the password hashed, and the account, its first session and the code    *)
(* for its e-mail are committed together; the unique index on the e-mail   *)
(* refuses the second of two.  A customer account also gets its row of     *)
(* customers (_link_customer).                                             *)
(***************************************************************************)
BeginRegister(r, a, role) ==
    /\ At(r, "idle") /\ ~keycloak
    /\ user[a] = NULL
    /\ req' = [req EXCEPT ![r] = [Start("register", "hashing", a) EXCEPT !.role = role]]
    /\ UNCHANGED <<keycloak, user, sess, code, upstream, changed>>

Register(r) ==
    LET a == req[r].user
    IN  /\ req[r].op = "register"
        /\ req' = [req EXCEPT ![r] = Done]
        /\ \/ /\ user[a] # NULL
              /\ UNCHANGED <<user, sess, code>>
           \/ /\ user[a] = NULL
              /\ user' = [user EXCEPT ![a] =
                    [role |-> req[r].role, pwd |-> r, legacy |-> FALSE, cv |-> 1,
                     mustSet |-> FALSE, verified |-> FALSE,
                     customer |-> req[r].role = "customer"]]
              /\ sess' = [sess EXCEPT ![r] = NewSession(a, r, changed[a])]
              /\ \E kind \in {"email", "phone"}:
                    code' = [code EXCEPT ![r] =
                        [kind |-> kind, user |-> a, expired |-> FALSE, uses |-> 0]]
        /\ UNCHANGED <<keycloak, upstream, changed>>

(***************************************************************************)
(* Login.  The password is verified in a thread against the hash that was  *)
(* read; a hash in the legacy scheme is replaced in the same transaction.  *)
(* The commit updates the row of users (last_login_at), so that it waits   *)
(* for a password change that holds the row.                               *)
(***************************************************************************)
BeginLogin(r, a) ==
    /\ At(r, "idle") /\ ~keycloak
    /\ user[a] # NULL
    /\ req' = [req EXCEPT ![r] =
            [Start("login", "hashing", a) EXCEPT
                !.pwd = user[a].pwd, !.legacy = user[a].legacy,
                !.era = changed[a], !.raced = Revoking(a)]]
    /\ UNCHANGED <<keycloak, user, sess, code, upstream, changed>>

Rehash(r, u) ==
    IF req[r].legacy THEN [u EXCEPT !.pwd = req[r].pwd, !.legacy = FALSE] ELSE u

Login(r) ==
    LET a == req[r].user
    IN  /\ req[r].op = "login"
        /\ UserFree(a, r)
        /\ sess' = [sess EXCEPT ![r] =
                [NewSession(a, r, req[r].era) EXCEPT !.raced = req[r].raced]]
        /\ user' = [user EXCEPT ![a] = Rehash(r, @)]
        /\ req' = [req EXCEPT ![r] = Done]
        /\ UNCHANGED <<keycloak, code, upstream, changed>>

-----------------------------------------------------------------------------
(***************************************************************************)
(* Refresh.  The session of the token is locked first.  A token that was   *)
(* rotated or revoked before is a replay and its family is revoked; an     *)
(* expired one is revoked; a usable one is rotated, and its successor is   *)
(* inserted into the same family.                                          *)
(***************************************************************************)
RefreshReplay(r, t) ==
    /\ At(r, "idle")
    /\ sess[t] # NULL /\ TokenFree(t, r)
    /\ sess[t].revoked \/ sess[t].rotated
    /\ req' = [Mark(sess[t].user) EXCEPT ![r] =
            [Start("replay", "revoking", sess[t].user) EXCEPT
                !.token = t, !.rows = Unrevoked(FamilyOf(sess[t].family))]]
    /\ UNCHANGED <<keycloak, user, sess, code, upstream, changed>>

RefreshExpired(r, t) ==
    /\ At(r, "idle")
    /\ sess[t] # NULL /\ TokenFree(t, r)
    /\ ~sess[t].revoked /\ ~sess[t].rotated /\ sess[t].expired
    /\ sess' = Revoke({t})
    /\ req' = [req EXCEPT ![r] = Done]
    /\ UNCHANGED <<keycloak, user, code, upstream, changed>>

BeginRotate(r, t) ==
    /\ At(r, "idle")
    /\ Usable(t) /\ TokenFree(t, r)
    /\ req' = [req EXCEPT ![r] =
            [Start("rotate", "issuing", sess[t].user) EXCEPT
                !.token = t, !.era = changed[sess[t].user], !.raced = Revoking(sess[t].user)]]
    /\ UNCHANGED <<keycloak, user, sess, code, upstream, changed>>

\* A plausible mistake: a refresh stamps last_login_at on the row of users, as a login does.
CanRotateStamping(r) == req[r].op = "rotate" /\ UserFree(req[r].user, r)

\* A refresh holds the lock of its token and waits for nothing.
CanRotate(r) == req[r].op = "rotate"

Rotate(r) ==
    LET t == req[r].token
    IN  /\ CanRotate(r)
        /\ sess' = [sess EXCEPT
                ![t].rotated = TRUE,
                ![r] = [NewSession(req[r].user, sess[t].family, req[r].era)
                            EXCEPT !.raced = req[r].raced]]
        /\ req' = [req EXCEPT ![r] = Done]
        /\ UNCHANGED <<keycloak, user, code, upstream, changed>>

-----------------------------------------------------------------------------
(***************************************************************************)
(* Logout of one session, and of all of them.  With Keycloak the logout    *)
(* also ends the Keycloak session stored under this very token.            *)
(***************************************************************************)
CloseUpstream(t) == upstream' = IF keycloak THEN upstream \ {t} ELSE upstream

Logout(r, t) ==
    /\ At(r, "idle")
    /\ sess[t] # NULL /\ TokenFree(t, r)
    /\ sess' = Revoke({t})
    /\ CloseUpstream(t)
    /\ req' = [req EXCEPT ![r] = Done]
    /\ UNCHANGED <<keycloak, user, code, changed>>

LogoutAll(r, a) ==
    /\ At(r, "idle") /\ ~keycloak
    /\ user[a] # NULL
    /\ req' = [Mark(a) EXCEPT ![r] =
            [Start("logout_all", "revoking", a) EXCEPT !.rows = Unrevoked(SessionsOf(a))]]
    /\ UNCHANGED <<keycloak, user, sess, code, upstream, changed>>

-----------------------------------------------------------------------------
(***************************************************************************)
(* One-time codes: a forgotten password, the e-mail and the phone.         *)
(***************************************************************************)
IssueCode(r, a, kind) ==
    /\ At(r, "idle")
    /\ user[a] # NULL
    /\ kind = "reset" => ~keycloak
    /\ kind = "email" => ~user[a].verified
    /\ code' = [code EXCEPT ![r] = [kind |-> kind, user |-> a, expired |-> FALSE, uses |-> 0]]
    /\ req' = [req EXCEPT ![r] = Done]
    /\ UNCHANGED <<keycloak, user, sess, upstream, changed>>

Presentable(k, kind) ==
    /\ code[k] # NULL
    /\ code[k].kind = kind /\ code[k].uses = 0 /\ ~code[k].expired

\* verify_email locks the code and ends in _link_customer, which gives the
\* account a row of customers: customers.user_id is unique, so that the
\* request fails and is rolled back when the account has one.
VerifyEmail(r, k) ==
    /\ At(r, "idle")
    /\ Presentable(k, "email") /\ CodeFree(k, r)
    /\ LET a == code[k].user
       IN  IF user[a].customer
           THEN UNCHANGED <<user, code>>
           ELSE /\ user' = [user EXCEPT ![a].verified = TRUE, ![a].customer = TRUE]
                /\ code' = [code EXCEPT ![k].uses = @ + 1]
    /\ req' = [req EXCEPT ![r] = Done]
    /\ UNCHANGED <<keycloak, sess, upstream, changed>>

\* verify_phone reads the code without locking it.
BeginVerifyPhone(r, k) ==
    /\ At(r, "idle")
    /\ Presentable(k, "phone")
    /\ req' = [req EXCEPT ![r] = [Start("phone", "using", NULL) EXCEPT !.code = k]]
    /\ UNCHANGED <<keycloak, user, sess, code, upstream, changed>>

VerifyPhone(r) ==
    /\ req[r].op = "phone"
    /\ code' = [code EXCEPT ![req[r].code].uses = @ + 1]
    /\ req' = [req EXCEPT ![r] = Done]
    /\ UNCHANGED <<keycloak, user, sess, upstream, changed>>

-----------------------------------------------------------------------------
(***************************************************************************)
(* _set_password, reached by a reset code, by the current password, or by  *)
(* an account made for a guest.  The version written is the one read plus  *)
(* one.  The UPDATE of users comes first, then the one of auth_sessions.   *)
(***************************************************************************)
BeginReset(r, k) ==
    /\ At(r, "idle") /\ ~keycloak
    /\ Presentable(k, "reset") /\ CodeFree(k, r)
    /\ LET a == code[k].user
       IN  req' = [req EXCEPT ![r] =
                [Start("reset", "hashing", a) EXCEPT !.cv = user[a].cv, !.code = k]]
    /\ UNCHANGED <<keycloak, user, sess, code, upstream, changed>>

BeginChange(r, a) ==
    /\ At(r, "idle") /\ ~keycloak
    /\ user[a] # NULL
    /\ req' = [req EXCEPT ![r] =
            [Start("change", "hashing", a) EXCEPT !.cv = user[a].cv]]
    /\ UNCHANGED <<keycloak, user, sess, code, upstream, changed>>

BeginSet(r, a) ==
    /\ At(r, "idle") /\ ~keycloak
    /\ user[a] # NULL /\ user[a].mustSet
    /\ req' = [req EXCEPT ![r] =
            [Start("set", "hashing", a) EXCEPT !.cv = user[a].cv]]
    /\ UNCHANGED <<keycloak, user, sess, code, upstream, changed>>

StartRevoking(r) ==
    /\ req[r].op \in {"reset", "change", "set"} /\ At(r, "hashing")
    /\ UserFree(req[r].user, r)
    /\ LET rows == Unrevoked(SessionsOf(req[r].user))
       IN  req' = [Mark(req[r].user) EXCEPT ![r] =
                [req[r] EXCEPT !.stage = "revoking", !.rows = rows]]
    /\ UNCHANGED <<keycloak, user, sess, code, upstream, changed>>

NewCredential(r, u) ==
    [u EXCEPT !.pwd = r, !.legacy = FALSE, !.cv = req[r].cv + 1,
              !.mustSet = @ /\ req[r].op # "set"]

Waits(r) == \E t \in req[r].rows: ~TokenFree(t, r)

(***************************************************************************)
(* The UPDATE has the rows it waited for, and the transaction commits.     *)
(* set_initial_password from the browser is followed by a login with the   *)
(* new password, on the objects of the same session.                       *)
(***************************************************************************)
FinishRevoking(r) ==
    LET a == req[r].user
        sets == req[r].op \in {"reset", "change", "set"}
    IN  /\ At(r, "revoking") /\ ~Waits(r)
        /\ sess' = Revoke(req[r].rows)
        /\ user' = IF sets THEN [user EXCEPT ![a] = NewCredential(r, @)] ELSE user
        /\ changed' = IF sets THEN [changed EXCEPT ![a] = @ + 1] ELSE changed
        /\ code' = IF req[r].op = "reset" THEN [code EXCEPT ![req[r].code].uses = @ + 1] ELSE code
        /\ req' = [Mark(a) EXCEPT ![r] =
                IF req[r].op = "set"
                THEN [Start("login", "hashing", a) EXCEPT !.pwd = r, !.era = changed[a] + 1]
                ELSE Done]
        /\ UNCHANGED <<keycloak, upstream>>

\* PostgreSQL aborts one of two transactions that wait for each other's rows.
Deadlocked(r) ==
    \E q \in Requests \ {r}:
        /\ At(q, "revoking")
        /\ LockedTokens(q) \cap req[r].rows # {}
        /\ (LockedTokens(r) \cup req[r].rows) \cap req[q].rows # {}

DeadlockAbort(r) ==
    /\ At(r, "revoking") /\ Deadlocked(r)
    /\ req' = [req EXCEPT ![r] = Done]
    /\ UNCHANGED <<keycloak, user, sess, code, upstream, changed>>

-----------------------------------------------------------------------------
(***************************************************************************)
(* Keycloak.  The callback finds the account by its subject or e-mail (an  *)
(* account it would have to create cannot be stored: its password hash is  *)
(* never computed), commits a session, and then stores the refresh token   *)
(* of Keycloak under the new token; the store may fail after the commit.   *)
(***************************************************************************)
LinkIdentity(a, role) == user' = [user EXCEPT ![a].verified = TRUE, ![a].role = role]

StoreUpstream(r) == upstream' = upstream \cup {r}

KeycloakCallback(r, a, role) ==
    /\ At(r, "idle") /\ keycloak
    /\ user[a] # NULL
    /\ LinkIdentity(a, role)
    /\ sess' = [sess EXCEPT ![r] = NewSession(a, r, changed[a])]
    /\ StoreUpstream(r) \/ UNCHANGED upstream
    /\ req' = [req EXCEPT ![r] = Done]
    /\ UNCHANGED <<keycloak, code, changed>>

\* The clock passes expires_at of a session or of a code that can still be used.
Expire(x) ==
    /\ \/ /\ Usable(x)
          /\ sess' = [sess EXCEPT ![x].expired = TRUE]
          /\ UNCHANGED code
       \/ /\ code[x] # NULL /\ code[x].uses = 0 /\ ~code[x].expired
          /\ code' = [code EXCEPT ![x].expired = TRUE]
          /\ UNCHANGED sess
    /\ UNCHANGED <<keycloak, user, upstream, req, changed>>
=============================================================================
