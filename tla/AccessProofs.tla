---------------------------- MODULE AccessProofs ----------------------------
(***************************************************************************)
(* Theorems about Access and Sessions: what may be used once is used once, *)
(* a token of a changed credential was issued while it changed, a context  *)
(* is one the account had, a subject acts for its account only, and the    *)
(* requests never all wait for each other.                                 *)
(***************************************************************************)
EXTENDS Access, FiniteSetTheorems, TLAPS

Setters == {"reset", "change", "set"}

Ops == {"none", "register", "login", "rotate", "replay", "logout_all", "phone", "admin",
        "link"} \cup Setters

Stages == {"idle", "hashing", "issuing", "revoking", "using", "context", "acting", "linking",
           "done"}

Request ==
    [op: Ops, stage: Stages, user: Accounts \cup {NULL}, role: UserRoles \cup {NULL},
     token: Requests \cup Subjects \cup {NULL}, code: Requests \cup {NULL},
     pwd: Passwords, legacy: BOOLEAN, cv: Nat, era: Nat, raced: BOOLEAN,
     rows: SUBSET Requests]

\* The stages of an operation
InStage(x) ==
    /\ x.op = "none" <=> x.stage \in {"idle", "done"}
    /\ x.op \in {"register", "login"} => x.stage = "hashing"
    /\ x.op \in Setters => x.stage \in {"hashing", "revoking"}
    /\ x.op \in {"replay", "logout_all"} => x.stage = "revoking"
    /\ x.op = "rotate" <=> x.stage = "issuing"
    /\ x.op = "phone" <=> x.stage = "using"
    /\ x.op = "admin" <=> x.stage \in {"context", "acting"}
    /\ x.op = "link" <=> x.stage = "linking"

\* What an operation has read
Shape(x) ==
    /\ InStage(x)
    /\ x.op \notin {"none", "phone"} => x.user \in Accounts
    /\ x.op = "register" => x.role \in UserRoles
    /\ x.op \in {"rotate", "replay"} => x.token \in Requests
    /\ x.op = "link" => x.token \in Subjects
    /\ x.op \in {"reset", "phone"} => x.code \in Requests
    /\ x.op = "admin" => x.role \in UserRoles

Typed ==
    /\ keycloak \in BOOLEAN
    /\ user \in [Accounts -> User \cup {NULL}]
    /\ sess \in [Requests -> Session \cup {NULL}]
    /\ code \in [Requests -> Code \cup {NULL}]
    /\ req \in [Requests -> Request]
    /\ \A r \in Requests: Shape(req[r])
    /\ changed \in [Accounts -> Nat]
    /\ roles \in [Accounts -> SUBSET AccessRoles]
    /\ link \in [Subjects -> Accounts \cup {NULL}]
    /\ view \in [Requests -> SUBSET AccessRoles]
    /\ during \in [Requests -> SUBSET SUBSET AccessRoles]

\* A row is written by a request that has answered, about an account that exists.
Made ==
    /\ \A t \in Requests: sess[t] # NULL =>
        At(t, "done") /\ At(sess[t].family, "done") /\ user[sess[t].user] # NULL
    /\ \A k \in Requests: code[k] # NULL => At(k, "done") /\ user[code[k].user] # NULL
    /\ \A r \in Requests: req[r].op \notin {"none", "register", "phone"} => user[req[r].user] # NULL
    /\ \A r \in Requests: \A t \in req[r].rows: sess[t] # NULL

-----------------------------------------------------------------------------
LinkInv ==
    /\ \A r \in Requests:
        At(r, "done") /\ req[r].token \in Subjects /\ req[r].user # NULL
            => link[req[r].token] = req[r].user
    /\ \A s, z \in Subjects: link[s] # NULL /\ link[s] = link[z] => s = z

\* What the second query of a context can find was in force since the first.
ContextInv ==
    /\ \A a \in Accounts: roles[a] # {} => a \in profile
    /\ \A r \in Requests: At(r, "context") =>
        LET held == roles[req[r].user]
        IN  /\ held # {} => held \in during[r]
            /\ held = {} /\ req[r].legacy => {} \in during[r]
            /\ ~req[r].legacy => {req[r].role} \in during[r]
    /\ ContextIsAtomic

\* A reset has its code, which nobody used and no other reset has.
CodeInv ==
    /\ CodeIsUsedOnce
    /\ \A r \in Requests:
        /\ req[r].op = "phone" => code[req[r].code] # NULL /\ code[req[r].code].kind = "phone"
        /\ req[r].op = "reset" =>
            LET k == req[r].code
            IN  /\ code[k] # NULL /\ code[k].kind = "reset" /\ code[k].uses = 0
                /\ \A q \in Requests \ {r}: req[q].op = "reset" => req[q].code # k

\* A token that nothing but its expiry keeps from being exchanged
Live(t) == sess[t] # NULL /\ ~sess[t].rotated /\ ~sess[t].revoked

\* A family has one of these, and the request that exchanges it keeps it so.
FamilyInv ==
    /\ \A t, x \in Requests: Live(t) /\ Live(x) /\ sess[t].family = sess[x].family => t = x
    /\ \A r \in Requests: req[r].op = "rotate" =>
        /\ Live(req[r].token) /\ sess[req[r].token].user = req[r].user
        /\ \A q \in Requests \ {r}: req[q].op = "rotate" => req[q].token # req[r].token

Setting(r) == req[r].op \in Setters /\ At(r, "revoking")

\* While a password is set, every session of the account is found by the UPDATE
\* or marked, and so is every request that is about to make one.
StaleInv ==
    /\ \A t \in Requests:
        sess[t] # NULL /\ ~sess[t].revoked /\ sess[t].era < changed[sess[t].user] => sess[t].raced
    /\ \A q \in Requests:
        req[q].op \in {"login", "rotate"} /\ req[q].era < changed[req[q].user] => req[q].raced
    /\ \A r \in Requests: req[r].op \in Setters => ~keycloak
    /\ \A r \in Requests: Setting(r) =>
        /\ \A t \in Requests:
            sess[t] # NULL /\ ~sess[t].revoked /\ sess[t].user = req[r].user
                => t \in req[r].rows \/ sess[t].raced
        /\ \A q \in Requests:
            req[q].op \in {"login", "rotate"} /\ req[q].user = req[r].user => req[q].raced
        /\ \A q \in Requests \ {r}: Setting(q) => req[q].user # req[r].user

\* x began before y: what x waits for and y has not seen is revoked, and the token
\* of x, which x has locked, has not been revoked since y began.
Began(x, y) ==
    /\ \A t \in req[x].rows \cup {req[x].token}: ~sess[t].revoked => t \in req[y].rows
    /\ req[x].token \in req[y].rows => ~sess[req[x].token].revoked

Replays == {r \in Requests: req[r].op = "replay"}

\* Replays are of tokens spent before, and any of one family have a last one.
ReplayInv ==
    /\ \A r \in Replays:
        /\ sess[req[r].token] # NULL /\ ~Live(req[r].token)
        /\ \A t \in req[r].rows: sess[t] # NULL /\ sess[t].family = sess[req[r].token].family
    /\ \A S \in SUBSET Replays:
        S # {} /\ (\A x, y \in S: sess[req[x].token].family = sess[req[y].token].family)
            => \E y \in S: \A x \in S \ {y}: Began(x, y)

AccessInv ==
    Typed /\ Made /\ LinkInv /\ ContextInv /\ CodeInv /\ FamilyInv /\ StaleInv /\ ReplayInv

-----------------------------------------------------------------------------
(* What a step of one request leaves alone in the others *)

Quiet(r) ==
    \A q \in Requests \ {r}:
        /\ req[q].op \notin {"login", "rotate"} => req'[q] = req[q]
        /\ req'[q].op = req[q].op /\ req'[q].stage = req[q].stage /\ req'[q].user = req[q].user
        /\ req'[q].token = req[q].token /\ req'[q].era = req[q].era
        /\ req'[q].rows = req[q].rows
        /\ req[q].raced => req'[q].raced

LEMMA Written ==
    ASSUME Typed, NEW r \in Requests, NEW new \in Request, Shape(new),
           req' = [req EXCEPT ![r] = new]
    PROVE  /\ Quiet(r) /\ req'[r] = new
           /\ req' \in [Requests -> Request] /\ \A q \in Requests: Shape(req'[q])
    <1>1. \A q \in Requests: req'[q] = IF q = r THEN new ELSE req[q]
        BY DEF Typed
    <1> QED
        BY <1>1 DEF Typed, Quiet

LEMMA RacedShape ==
    ASSUME NEW x \in Request, Shape(x), NEW y, y = [x EXCEPT !.raced = TRUE]
    PROVE  /\ y \in Request /\ Shape(y) /\ y.raced
           /\ y.op = x.op /\ y.stage = x.stage /\ y.user = x.user /\ y.token = x.token /\ y.era = x.era
           /\ y.rows = x.rows
    <1>1. /\ y \in Request /\ y.raced
          /\ y.op = x.op /\ y.stage = x.stage /\ y.user = x.user /\ y.token = x.token /\ y.era = x.era
          /\ y.role = x.role /\ y.code = x.code /\ y.rows = x.rows
        BY DEF Request
    <1> QED
        BY <1>1 DEF Shape, InStage

LEMMA MarkedAndWritten ==
    ASSUME Typed, NEW r \in Requests, NEW new \in Request, Shape(new), NEW a,
           req' = [Mark(a) EXCEPT ![r] = new]
    PROVE  /\ Quiet(r) /\ req'[r] = new
           /\ req' \in [Requests -> Request] /\ \A q \in Requests: Shape(req'[q])
           /\ \A q \in Requests \ {r}:
                req[q].op \in {"login", "rotate"} /\ req[q].user = a => req'[q].raced
    <1>1. \A q \in Requests: req'[q] =
            IF q = r THEN new
            ELSE IF q \in Issuing(a) THEN [req[q] EXCEPT !.raced = TRUE] ELSE req[q]
        BY DEF Mark
    <1>2. req' = [q \in Requests |-> req'[q]]
        BY DEF Mark
    <1>3. ASSUME NEW q \in Requests
          PROVE  req'[q] \in Request /\ Shape(req'[q])
        <2>1. req[q] \in Request /\ Shape(req[q])
            BY DEF Typed
        <2>2. PICK y : y = [req[q] EXCEPT !.raced = TRUE]
            OBVIOUS
        <2>3. y \in Request /\ Shape(y)
            BY <2>1, <2>2, RacedShape
        <2> QED
            BY <1>1, <2>1, <2>2, <2>3
    <1>4. ASSUME NEW q \in Requests \ {r}
          PROVE  /\ req[q].op \notin {"login", "rotate"} => req'[q] = req[q]
                 /\ req'[q].op = req[q].op /\ req'[q].stage = req[q].stage
                 /\ req'[q].user = req[q].user
                 /\ req'[q].token = req[q].token /\ req'[q].era = req[q].era
                 /\ req'[q].rows = req[q].rows
                 /\ req[q].raced => req'[q].raced
                 /\ req[q].op \in {"login", "rotate"} /\ req[q].user = a => req'[q].raced
        <2>1. CASE q \in Issuing(a)
            <3>1. req[q] \in Request /\ Shape(req[q]) /\ req[q].op \in {"login", "rotate"}
                BY <2>1 DEF Typed, Issuing
            <3>2. req'[q] = [req[q] EXCEPT !.raced = TRUE]
                BY <1>1, <2>1
            <3>3. /\ req'[q].raced
                  /\ req'[q].op = req[q].op /\ req'[q].stage = req[q].stage
                  /\ req'[q].user = req[q].user
                  /\ req'[q].token = req[q].token /\ req'[q].era = req[q].era
                  /\ req'[q].rows = req[q].rows
                BY <3>1, <3>2, RacedShape
            <3> QED
                BY <3>1, <3>3
        <2>2. CASE q \notin Issuing(a)
            <3>1. req'[q] = req[q]
                BY <1>1, <2>2
            <3>2. ~(req[q].op \in {"login", "rotate"} /\ req[q].user = a)
                BY <2>2 DEF Issuing
            <3> QED
                BY <3>1, <3>2
        <2> QED
            BY <2>1, <2>2
    <1> QED
        BY <1>1, <1>2, <1>3, <1>4 DEF Quiet

LEMMA DoneIsARequest ==
    /\ Done \in Request /\ Shape(Done) /\ Idle \in Request /\ Shape(Idle)
    /\ Done.op = "none" /\ Done.stage = "done" /\ Done.token = NULL /\ Done.rows = {}
    BY DEF Done, Idle, Request, Shape, InStage, Setters, Ops, Stages, Passwords

LEMMA BusyOrIdle ==
    ASSUME Typed, NEW r \in Requests, At(r, "idle") \/ req[r].op # "none"
    PROVE  ~At(r, "done")
    BY DEF Typed, Shape, InStage, At, Request

-----------------------------------------------------------------------------
(* The parts of the invariant that a step does not touch *)

LEMMA MadeFrame ==
    ASSUME Typed, Typed', Made, NEW r \in Requests, Quiet(r), ~At(r, "done"),
           \A a \in Accounts: user[a] # NULL => user'[a] # NULL,
           \A t \in Requests: sess'[t] # NULL =>
                \/ /\ sess[t] # NULL
                   /\ sess'[t].family = sess[t].family /\ sess'[t].user = sess[t].user
                \/ /\ t = r /\ req'[r].stage = "done" /\ user'[sess'[t].user] # NULL
                   /\ req'[sess'[t].family].stage = "done",
           \A k \in Requests: code'[k] # NULL =>
                \/ code[k] # NULL /\ code'[k].user = code[k].user
                \/ k = r /\ req'[r].stage = "done" /\ user'[code'[k].user] # NULL,
           req'[r].op \notin {"none", "register", "phone"} => user'[req'[r].user] # NULL,
           \A t \in Requests: sess[t] # NULL => sess'[t] # NULL,
           \A t \in req'[r].rows: sess'[t] # NULL
    PROVE  Made'
    <1>1. \A q \in Requests: At(q, "done") => At(q, "done")'
        BY DEF Quiet, At
    <1>2. \A t \in Requests: sess[t] # NULL => sess[t].family \in Requests /\ sess[t].user \in Accounts
        BY DEF Typed, Session
    <1>3. \A k \in Requests: code[k] # NULL => code[k].user \in Accounts
        BY DEF Typed, Code
    <1>4. \A q \in Requests: req[q].op \notin {"none", "phone"} => req[q].user \in Accounts
        BY DEF Typed, Shape
    <1>5. ASSUME NEW t \in Requests, sess'[t] # NULL
          PROVE  At(t, "done")' /\ req'[sess'[t].family].stage = "done" /\ user'[sess'[t].user] # NULL
        BY <1>1, <1>2, <1>5 DEF Made, At
    <1>6. ASSUME NEW k \in Requests, code'[k] # NULL
          PROVE  At(k, "done")' /\ user'[code'[k].user] # NULL
        BY <1>1, <1>3, <1>6 DEF Made, At
    <1>7. ASSUME NEW q \in Requests, req'[q].op \notin {"none", "register", "phone"}
          PROVE  user'[req'[q].user] # NULL
        BY <1>4, <1>7 DEF Made, Quiet
    <1>8. \A q \in Requests: \A t \in req'[q].rows: sess'[t] # NULL
        <2>1. \A q \in Requests: req[q].rows \subseteq Requests
            BY DEF Typed, Request
        <2> QED
            BY <2>1 DEF Made, Quiet
    <1> QED
        BY <1>5, <1>6, <1>7, <1>8 DEF Made, At

LEMMA LinkFrame ==
    ASSUME LinkInv, NEW r \in Requests, Quiet(r), link' = link,
           Typed, req'[r].stage = "done" => req'[r].token \notin Subjects
    PROVE  LinkInv'
    <1>1. \A q \in Requests \ {r}: At(q, "done")' => req'[q] = req[q] /\ At(q, "done")
        BY DEF Quiet, At, Typed, Shape, InStage, Request
    <1> QED
        BY <1>1 DEF LinkInv, At

LEMMA ContextFrame ==
    ASSUME Typed, Typed', ContextInv, NEW r \in Requests, Quiet(r), req'[r].op # "admin",
           UNCHANGED <<profile, roles, view, during>>
    PROVE  ContextInv'
    <1>1. \A q \in Requests: At(q, "context")' \/ At(q, "acting")' => req'[q].op = "admin"
        BY DEF At, Typed, Shape, InStage, Request
    <1>2. \A q \in Requests: At(q, "context")' \/ At(q, "acting")' => req'[q] = req[q]
        BY <1>1 DEF Quiet
    <1>3. \A q \in Requests: At(q, "context")' => At(q, "context")
        BY <1>2 DEF At
    <1>4. \A q \in Requests: At(q, "acting")' => At(q, "acting")
        BY <1>2 DEF At
    <1> QED
        BY <1>2, <1>3, <1>4 DEF ContextInv, ContextIsAtomic

LEMMA CodeFrame ==
    ASSUME Typed, CodeInv, NEW r \in Requests, Quiet(r), code' = code,
           req'[r].op \in {"phone", "reset"} => req'[r].op = req[r].op /\ req'[r].code = req[r].code
    PROVE  CodeInv'
    <1>1. \A q \in Requests: req'[q].op \in {"phone", "reset"} =>
                req[q].op = req'[q].op /\ req'[q].code = req[q].code
        BY DEF Quiet
    <1> QED
        BY <1>1 DEF CodeInv, CodeIsUsedOnce

\* Tokens may be spent, but not the ones that are being exchanged.
LEMMA FamilyFrame ==
    ASSUME FamilyInv, NEW r \in Requests, Quiet(r), req'[r].op # "rotate",
           Typed,
           \A t \in Requests: Live(t)' =>
                /\ Live(t)
                /\ sess'[t].family = sess[t].family /\ sess'[t].user = sess[t].user,
           \A q \in Requests \ {r}: req[q].op = "rotate" => Live(req[q].token)'
    PROVE  FamilyInv'
    <1>1. \A q \in Requests: req'[q].op = "rotate" =>
            q # r /\ req[q].op = "rotate" /\ req'[q].token = req[q].token /\ req'[q].user = req[q].user
        BY DEF Quiet
    <1>2. \A t, x \in Requests:
            Live(t)' /\ Live(x)' /\ sess'[t].family = sess'[x].family => t = x
        BY DEF FamilyInv
    <1>3. \A q \in Requests: req[q].op = "rotate" => req[q].token \in Requests
        BY DEF Typed, Shape
    <1>4. ASSUME NEW q \in Requests, req'[q].op = "rotate"
          PROVE  /\ Live(req[q].token)' /\ sess'[req'[q].token].user = req'[q].user
                 /\ req'[q].token = req[q].token
                 /\ \A p \in Requests \ {q}: req'[p].op = "rotate" => req'[p].token # req'[q].token
        <2>1. PICK t : t = req[q].token
            OBVIOUS
        <2>2. t \in Requests /\ Live(t)'
            BY <1>1, <1>3, <1>4, <2>1 DEF Live
        <2> QED
            BY <1>1, <1>4, <2>1, <2>2 DEF FamilyInv, Live
    <1> QED
        BY <1>2, <1>4 DEF FamilyInv, Live

\* Sessions may be revoked; a request that issues one keeps what it read.
LEMMA StaleFrame ==
    ASSUME StaleInv, NEW r \in Requests, Quiet(r), Typed, Typed',
           UNCHANGED <<keycloak, changed>>,
           \A t \in Requests: sess'[t] # NULL /\ ~sess'[t].revoked =>
                /\ sess[t] # NULL /\ ~sess[t].revoked /\ sess'[t].user = sess[t].user
                /\ sess'[t].era = sess[t].era /\ sess'[t].raced = sess[t].raced,
           req'[r].op \notin {"login", "rotate"},
           req'[r].op \in Setters => ~keycloak /\ req'[r].stage # "revoking"
    PROVE  StaleInv'
    <1>1. \A q \in Requests: req'[q].op \in {"login", "rotate"} =>
            /\ q # r /\ req[q].op = req'[q].op /\ req'[q].user = req[q].user /\ req'[q].era = req[q].era
            /\ req[q].raced => req'[q].raced
        BY DEF Quiet
    <1>2. \A q \in Requests: q # r /\ req'[q].op \in Setters => req'[q] = req[q]
        BY DEF Quiet, Setters
    <1>3. \A q \in Requests: Setting(q)' => q # r /\ Setting(q) /\ req'[q] = req[q]
        BY <1>2 DEF Setting, At
    <1>4. \A t \in Requests:
            sess'[t] # NULL /\ ~sess'[t].revoked /\ sess'[t].era < changed'[sess'[t].user] => sess'[t].raced
        BY DEF StaleInv
    <1>5. \A q \in Requests:
            req'[q].op \in {"login", "rotate"} /\ req'[q].era < changed'[req'[q].user] => req'[q].raced
        BY <1>1 DEF StaleInv
    <1>6. \A q \in Requests: req'[q].op \in Setters => ~keycloak'
        BY <1>2 DEF StaleInv
    <1>7. ASSUME NEW p \in Requests, Setting(p)'
          PROVE  /\ \A t \in Requests:
                    sess'[t] # NULL /\ ~sess'[t].revoked /\ sess'[t].user = req'[p].user
                        => t \in req'[p].rows \/ sess'[t].raced
                 /\ \A q \in Requests:
                    req'[q].op \in {"login", "rotate"} /\ req'[q].user = req'[p].user => req'[q].raced
                 /\ \A q \in Requests \ {p}: Setting(q)' => req'[q].user # req'[p].user
        <2>1. Setting(p) /\ req'[p] = req[p]
            BY <1>3, <1>7
        <2>2. \A t \in Requests:
                    sess'[t] # NULL /\ ~sess'[t].revoked /\ sess'[t].user = req'[p].user
                        => t \in req'[p].rows \/ sess'[t].raced
            BY <2>1 DEF StaleInv
        <2>3. \A q \in Requests:
                    req'[q].op \in {"login", "rotate"} /\ req'[q].user = req'[p].user => req'[q].raced
            BY <1>1, <2>1 DEF StaleInv
        <2>4. \A q \in Requests \ {p}: Setting(q)' => req'[q].user # req'[p].user
            BY <1>3, <2>1 DEF StaleInv
        <2> QED
            BY <2>2, <2>3, <2>4
    <1> QED
        BY <1>4, <1>5, <1>6, <1>7 DEF StaleInv

\* Sessions may be spent or revoked, but the token of a replay is locked.
LEMMA ReplayFrame ==
    ASSUME ReplayInv, NEW r \in Requests, Quiet(r), Typed, req'[r].op # "replay",
           \A t \in Requests: sess[t] # NULL =>
                /\ sess'[t] # NULL /\ sess'[t].family = sess[t].family
                /\ sess[t].revoked => sess'[t].revoked
                /\ Live(t)' => Live(t),
           \A q \in Requests \ {r}: req[q].op = "replay" /\ sess'[req[q].token].revoked
                => sess[req[q].token].revoked
    PROVE  ReplayInv'
    <1>1. \A q \in Replays': q # r /\ q \in Replays /\ req'[q] = req[q]
        BY DEF Quiet, Replays
    <1>2. \A q \in Replays: req[q].token \in Requests /\ req[q].rows \subseteq Requests
        BY DEF Typed, Shape, Replays, Request
    <1>3. ASSUME NEW q \in Replays'
          PROVE  /\ sess'[req'[q].token] # NULL /\ ~Live(req[q].token)'
                 /\ \A t \in req'[q].rows:
                        sess'[t] # NULL /\ sess'[t].family = sess'[req'[q].token].family
        <2>1. PICK t : t = req[q].token
            OBVIOUS
        <2>2. t \in Requests /\ sess[t] # NULL /\ ~Live(t) /\ sess'[t] # NULL /\ ~Live(t)'
            BY <1>1, <1>2, <2>1 DEF ReplayInv
        <2>3. \A x \in req[q].rows: sess[x] # NULL /\ sess[x].family = sess[t].family /\ x \in Requests
            BY <1>1, <1>2, <2>1 DEF ReplayInv
        <2> QED
            BY <1>1, <2>1, <2>2, <2>3 DEF Live
    <1>4. ASSUME NEW x \in Replays', NEW y \in Replays', Began(x, y)
          PROVE  Began(x, y)'
        <2>1. \A t \in req[x].rows \cup {req[x].token}: t \in Requests /\ sess[t] # NULL
            BY <1>1, <1>2 DEF ReplayInv
        <2>2. \A t \in req[x].rows \cup {req[x].token}: ~sess'[t].revoked => ~sess[t].revoked
            BY <2>1
        <2>3. req'[x] = req[x] /\ req'[y] = req[y]
            BY <1>1
        <2>4. \A t \in req'[x].rows \cup {req'[x].token}: ~sess'[t].revoked => t \in req'[y].rows
            BY <1>4, <2>2, <2>3 DEF Began
        <2>5. sess'[req[x].token].revoked => sess[req[x].token].revoked
            BY <1>1 DEF Replays
        <2>6. req'[x].token \in req'[y].rows => ~sess'[req'[x].token].revoked
            BY <1>4, <2>3, <2>5 DEF Began
        <2> QED
            BY <2>4, <2>6 DEF Began
    <1>5. ASSUME NEW S \in SUBSET (Replays'), S # {},
                 \A x, y \in S: sess'[req'[x].token].family = sess'[req'[y].token].family
          PROVE  \E y \in S: \A x \in S \ {y}: Began(x, y)'
        <2>1. S \in SUBSET Replays
            BY <1>1
        <2>2. \A x \in S: sess'[req'[x].token].family = sess[req[x].token].family
            BY <1>1, <1>2 DEF ReplayInv
        <2>3. PICK y \in S: \A x \in S \ {y}: Began(x, y)
            BY <1>5, <2>1, <2>2 DEF ReplayInv
        <2> QED
            BY <1>4, <2>3
    <1> QED
        BY <1>3, <1>5 DEF ReplayInv

-----------------------------------------------------------------------------
(* The steps that only change a request *)

LEMMA OnlyRequest ==
    ASSUME AccessInv, NEW r \in Requests, NEW new \in Request, Shape(new), ~At(r, "done"),
           req' = [req EXCEPT ![r] = new] \/ \E a \in Accounts: req' = [Mark(a) EXCEPT ![r] = new],
           UNCHANGED <<keycloak, user, sess, code, changed, avars>>,
           new.op \notin {"none", "register", "phone"} => user[new.user] # NULL,
           new.stage = "done" => new.token \notin Subjects,
           \A t \in new.rows: sess[t] # NULL
    PROVE  /\ Quiet(r) /\ req'[r] = new /\ Typed' /\ Made' /\ LinkInv'
           /\ new.op # "admin" => ContextInv'
           /\ (new.op \in {"phone", "reset"} => new.op = req[r].op /\ new.code = req[r].code)
                => CodeInv'
           /\ new.op # "rotate" => FamilyInv'
           /\ /\ new.op \notin {"login", "rotate"}
              /\ new.op \in Setters => ~keycloak /\ new.stage # "revoking"
              => StaleInv'
           /\ new.op # "replay" => ReplayInv'
    <1>1. Typed /\ Made /\ LinkInv /\ ContextInv /\ CodeInv /\ FamilyInv /\ StaleInv /\ ReplayInv
        BY DEF AccessInv
    <1>2. /\ Quiet(r) /\ req'[r] = new
          /\ req' \in [Requests -> Request] /\ \A q \in Requests: Shape(req'[q])
        BY <1>1, Written, MarkedAndWritten
    <1>3. Typed'
        BY <1>1, <1>2 DEF Typed, avars
    <1>4. Made'
        BY <1>1, <1>2, <1>3, MadeFrame
    <1>5. LinkInv'
        BY <1>1, <1>2, LinkFrame DEF avars
    <1>6. new.op # "admin" => ContextInv'
        BY <1>1, <1>2, <1>3, ContextFrame DEF avars
    <1>7. (new.op \in {"phone", "reset"} => new.op = req[r].op /\ new.code = req[r].code) => CodeInv'
        BY <1>1, <1>2, CodeFrame
    <1>8. new.op # "rotate" => FamilyInv'
        <2>1. \A t \in Requests: Live(t)' <=> Live(t)
            BY DEF Live
        <2>2. \A q \in Requests \ {r}: req[q].op = "rotate" => Live(req[q].token)'
            BY <1>1, <1>2 DEF FamilyInv, Quiet, Live
        <2> QED
            BY <1>1, <1>2, <2>1, <2>2, FamilyFrame
    <1>9. /\ new.op \notin {"login", "rotate"}
          /\ new.op \in Setters => ~keycloak /\ new.stage # "revoking"
          => StaleInv'
        BY <1>1, <1>2, <1>3, StaleFrame
    <1>10. new.op # "replay" => ReplayInv'
        <2>1. \A t \in Requests: Live(t)' <=> Live(t)
            BY DEF Live
        <2> QED
            BY <1>1, <1>2, <2>1, ReplayFrame
    <1> QED
        BY <1>2, <1>3, <1>4, <1>5, <1>6, <1>7, <1>8, <1>9, <1>10

\* A request starts as one of its kind.
LEMMA Started ==
    ASSUME NEW op \in Ops, NEW stage \in Stages, NEW a \in Accounts \cup {NULL},
           NEW x, x = Start(op, stage, a)
    PROVE  /\ x \in Request /\ x.op = op /\ x.stage = stage /\ x.user = a
           /\ x.token = NULL /\ x.code = NULL /\ x.role = NULL /\ x.rows = {}
    BY DEF Start, Idle, Request, Ops, Stages, Passwords

LEMMA PlainBegin ==
    ASSUME AccessInv, NEW r \in Requests, NEW new \in Request, Shape(new), ~At(r, "done"),
           req' = [req EXCEPT ![r] = new] \/ \E a \in Accounts: req' = [Mark(a) EXCEPT ![r] = new],
           UNCHANGED <<keycloak, user, sess, code, changed, avars>>,
           new.op \notin {"none", "register", "phone"} => user[new.user] # NULL,
           new.stage = "done" => new.token \notin Subjects,
           \A t \in new.rows: sess[t] # NULL,
           new.op \notin {"admin", "phone", "reset", "rotate", "login", "replay"},
           new.op \in Setters => ~keycloak /\ new.stage # "revoking"
    PROVE  AccessInv'
    BY OnlyRequest DEF AccessInv

LEMMA BeginRegisterKeeps ==
    ASSUME AccessInv, NEW r \in Requests, NEW a \in Accounts,
           NEW role \in {"customer", "vendor_admin"}, BeginRegister(r, a, role), UNCHANGED avars
    PROVE  AccessInv'
    <1>1. PICK new : new = [Start("register", "hashing", a) EXCEPT !.role = role]
        OBVIOUS
    <1>2. /\ new \in Request /\ new.op = "register" /\ new.stage = "hashing"
          /\ new.user = a /\ new.role = role /\ new.rows = {}
        BY <1>1 DEF Start, Idle, Request, Ops, Stages, Passwords, UserRoles
    <1>3. Shape(new)
        BY <1>2 DEF Shape, InStage, Setters, UserRoles
    <1>4. ~At(r, "done")
        BY DEF BeginRegister, At
    <1> QED
        BY <1>1, <1>2, <1>3, <1>4, PlainBegin DEF BeginRegister, Setters

LEMMA BeginChangeKeeps ==
    ASSUME AccessInv, NEW r \in Requests, NEW a \in Accounts,
           BeginChange(r, a) \/ BeginSet(r, a), UNCHANGED avars
    PROVE  AccessInv'
    <1>1. PICK op \in {"change", "set"} :
            req' = [req EXCEPT ![r] = [Start(op, "hashing", a) EXCEPT !.cv = user[a].cv]]
        BY DEF BeginChange, BeginSet
    <1>2. PICK new : new = [Start(op, "hashing", a) EXCEPT !.cv = user[a].cv]
        OBVIOUS
    <1>3. /\ At(r, "idle") /\ ~keycloak /\ user[a] # NULL
          /\ UNCHANGED <<keycloak, user, sess, code, changed>>
        BY DEF BeginChange, BeginSet
    <1>4. user[a].cv \in Nat
        BY <1>3 DEF AccessInv, Typed, User
    <1>5. new \in Request /\ new.op = op /\ new.stage = "hashing" /\ new.user = a /\ new.rows = {}
        BY <1>2, <1>4 DEF Start, Idle, Request, Ops, Stages, Passwords, Setters
    <1>6. Shape(new)
        BY <1>5 DEF Shape, InStage, Setters
    <1>7. ~At(r, "done")
        BY <1>3 DEF At
    <1> QED
        BY <1>1, <1>2, <1>3, <1>5, <1>6, <1>7, PlainBegin DEF Setters

LEMMA LogoutAllKeeps ==
    ASSUME AccessInv, NEW r \in Requests, NEW a \in Accounts, LogoutAll(r, a), UNCHANGED avars
    PROVE  AccessInv'
    <1>1. PICK new : new = [Start("logout_all", "revoking", a) EXCEPT !.rows = Unrevoked(SessionsOf(a))]
        OBVIOUS
    <1>2. Unrevoked(SessionsOf(a)) \subseteq Requests /\ \A t \in Unrevoked(SessionsOf(a)): sess[t] # NULL
        BY DEF Unrevoked, SessionsOf
    <1>3. new \in Request /\ new.op = "logout_all" /\ new.stage = "revoking" /\ new.user = a
          /\ new.rows = Unrevoked(SessionsOf(a))
        BY <1>1, <1>2 DEF Start, Idle, Request, Ops, Stages, Passwords
    <1>4. Shape(new)
        BY <1>3 DEF Shape, InStage, Setters
    <1>5. ~At(r, "done") /\ user[a] # NULL /\ req' = [Mark(a) EXCEPT ![r] = new]
          /\ UNCHANGED <<keycloak, user, sess, code, changed>>
        BY <1>1 DEF LogoutAll, At
    <1> QED
        BY <1>2, <1>3, <1>4, <1>5, PlainBegin DEF Setters

LEMMA BeginLinkKeeps ==
    ASSUME AccessInv, NEW r \in Requests, NEW s \in Subjects, NEW a \in Accounts, BeginLink(r, s, a)
    PROVE  AccessInv'
    <1>1. PICK new : new = [Start("link", "linking", a) EXCEPT !.token = s]
        OBVIOUS
    <1>2. new \in Request /\ new.op = "link" /\ new.stage = "linking" /\ new.user = a /\ new.token = s
          /\ new.rows = {}
        BY <1>1 DEF Start, Idle, Request, Ops, Stages, Passwords
    <1>3. Shape(new)
        BY <1>2 DEF Shape, InStage, Setters
    <1>4. ~At(r, "done") /\ user[a] # NULL /\ req' = [req EXCEPT ![r] = new]
          /\ UNCHANGED <<keycloak, user, sess, code, changed, avars>>
        BY <1>1 DEF BeginLink, At, avars
    <1> QED
        BY <1>2, <1>3, <1>4, PlainBegin DEF Setters

LEMMA DeadlockAbortKeeps ==
    ASSUME AccessInv, NEW r \in Requests, DeadlockAbort(r), UNCHANGED avars
    PROVE  AccessInv'
    <1>1. PICK new : new = Done
        OBVIOUS
    <1>2. new \in Request /\ Shape(new) /\ new.op = "none" /\ new.token = NULL /\ new.rows = {}
        BY <1>1, DoneIsARequest
    <1>3. ~At(r, "done") /\ req' = [req EXCEPT ![r] = new]
          /\ UNCHANGED <<keycloak, user, sess, code, changed>>
        BY <1>1 DEF DeadlockAbort, At
    <1> QED
        BY <1>2, <1>3, PlainBegin, AccessAssumption DEF Setters

LEMMA BeginVerifyPhoneKeeps ==
    ASSUME AccessInv, NEW r \in Requests, NEW k \in Requests, BeginVerifyPhone(r, k), UNCHANGED avars
    PROVE  AccessInv'
    <1>1. PICK new : new = [Start("phone", "using", NULL) EXCEPT !.code = k]
        OBVIOUS
    <1>2. new \in Request /\ new.op = "phone" /\ new.stage = "using" /\ new.code = k /\ new.rows = {}
        BY <1>1 DEF Start, Idle, Request, Ops, Stages, Passwords
    <1>3. Shape(new)
        BY <1>2 DEF Shape, InStage, Setters
    <1>4. ~At(r, "done") /\ req' = [req EXCEPT ![r] = new] /\ Presentable(k, "phone")
          /\ UNCHANGED <<keycloak, user, sess, code, changed>>
        BY <1>1 DEF BeginVerifyPhone, At
    <1>5. /\ Quiet(r) /\ req'[r] = new /\ Typed' /\ Made' /\ LinkInv' /\ ContextInv'
          /\ FamilyInv' /\ StaleInv' /\ ReplayInv'
        BY <1>2, <1>3, <1>4, OnlyRequest DEF Setters
    <1>6. CodeInv'
        BY <1>2, <1>4, <1>5 DEF AccessInv, CodeInv, CodeIsUsedOnce, Quiet, Presentable
    <1> QED
        BY <1>5, <1>6 DEF AccessInv

LEMMA BeginResetKeeps ==
    ASSUME AccessInv, NEW r \in Requests, NEW k \in Requests, BeginReset(r, k), UNCHANGED avars
    PROVE  AccessInv'
    <1>1. PICK a : a = code[k].user
        OBVIOUS
    <1>2. /\ At(r, "idle") /\ ~keycloak /\ Presentable(k, "reset") /\ CodeFree(k, r)
          /\ UNCHANGED <<keycloak, user, sess, code, changed>>
        BY DEF BeginReset
    <1>3. code[k] # NULL /\ a \in Accounts /\ user[a] # NULL /\ user[a].cv \in Nat
        BY <1>1, <1>2 DEF AccessInv, Made, Typed, Code, User, Presentable
    <1>4. PICK new : new = [Start("reset", "hashing", a) EXCEPT !.cv = user[a].cv, !.code = k]
        OBVIOUS
    <1>5. new \in Request /\ new.op = "reset" /\ new.stage = "hashing" /\ new.user = a /\ new.code = k
          /\ new.rows = {}
        BY <1>3, <1>4 DEF Start, Idle, Request, Ops, Stages, Passwords, Setters
    <1>6. Shape(new)
        BY <1>3, <1>5 DEF Shape, InStage, Setters
    <1>7. ~At(r, "done") /\ req' = [req EXCEPT ![r] = new]
        BY <1>1, <1>2, <1>4 DEF BeginReset, At
    <1>8. /\ Quiet(r) /\ req'[r] = new /\ Typed' /\ Made' /\ LinkInv' /\ ContextInv'
          /\ FamilyInv' /\ StaleInv' /\ ReplayInv'
        BY <1>2, <1>3, <1>5, <1>6, <1>7, OnlyRequest DEF Setters
    <1>9. CodeInv'
        BY <1>2, <1>5, <1>8 DEF AccessInv, CodeInv, CodeIsUsedOnce, Quiet, Presentable, CodeFree
    <1> QED
        BY <1>8, <1>9 DEF AccessInv

\* A request that is about to issue a token: it is marked if a password is being set.
LEMMA IssuingBegins ==
    ASSUME StaleInv, Typed, NEW r \in Requests, Quiet(r), req'[r].op \in {"login", "rotate"},
           UNCHANGED <<keycloak, sess, changed>>,
           req'[r].era = changed[req'[r].user],
           req'[r].raced = Revoking(req'[r].user),
           changed[req'[r].user] \in Nat
    PROVE  StaleInv'
    <1>1. \A q \in Requests \ {r}: req'[q].op \in {"login", "rotate"} =>
            /\ req[q].op = req'[q].op /\ req'[q].user = req[q].user /\ req'[q].era = req[q].era
            /\ req[q].raced => req'[q].raced
        BY DEF Quiet
    <1>2. \A q \in Requests: req'[q].op \in Setters => q # r /\ req'[q] = req[q]
        BY DEF Quiet, Setters
    <1>3. \A q \in Requests: Setting(q)' => q # r /\ Setting(q) /\ req'[q] = req[q]
        BY <1>2 DEF Setting, At
    <1>4. \A q \in Requests:
            req'[q].op \in {"login", "rotate"} /\ req'[q].era < changed'[req'[q].user] => req'[q].raced
        BY <1>1 DEF StaleInv
    <1>5. \A q \in Requests: req'[q].op \in Setters => ~keycloak'
        BY <1>2 DEF StaleInv
    <1>6. ASSUME NEW p \in Requests, Setting(p)'
          PROVE  /\ \A t \in Requests:
                    sess'[t] # NULL /\ ~sess'[t].revoked /\ sess'[t].user = req'[p].user
                        => t \in req'[p].rows \/ sess'[t].raced
                 /\ \A q \in Requests:
                    req'[q].op \in {"login", "rotate"} /\ req'[q].user = req'[p].user => req'[q].raced
                 /\ \A q \in Requests \ {p}: Setting(q)' => req'[q].user # req'[p].user
        <2>1. Setting(p) /\ req'[p] = req[p]
            BY <1>3, <1>6
        <2>2. req'[r].user = req[p].user => req'[r].raced
            BY <2>1 DEF Revoking, Setting
        <2>3. \A q \in Requests:
                    req'[q].op \in {"login", "rotate"} /\ req'[q].user = req'[p].user => req'[q].raced
            BY <1>1, <2>1, <2>2 DEF StaleInv
        <2>4. \A q \in Requests \ {p}: Setting(q)' => req'[q].user # req'[p].user
            BY <1>3, <2>1 DEF StaleInv
        <2> QED
            BY <2>1, <2>3, <2>4 DEF StaleInv
    <1>7. \A t \in Requests:
            sess'[t] # NULL /\ ~sess'[t].revoked /\ sess'[t].era < changed'[sess'[t].user] => sess'[t].raced
        BY DEF StaleInv
    <1> QED
        BY <1>4, <1>5, <1>6, <1>7 DEF StaleInv

LEMMA BeginLoginKeeps ==
    ASSUME AccessInv, NEW r \in Requests, NEW a \in Accounts, BeginLogin(r, a), UNCHANGED avars
    PROVE  AccessInv'
    <1>1. /\ At(r, "idle") /\ user[a] # NULL /\ UNCHANGED <<keycloak, user, sess, code, changed>>
          /\ Typed /\ StaleInv
        BY DEF BeginLogin, AccessInv
    <1>2. user[a].pwd \in Passwords /\ user[a].legacy \in BOOLEAN /\ changed[a] \in Nat
        BY <1>1 DEF Typed, User
    <1>3. PICK b \in BOOLEAN : b = Revoking(a)
        BY Zenon DEF Revoking
    <1>4. PICK new : new = [Start("login", "hashing", a) EXCEPT
                !.pwd = user[a].pwd, !.legacy = user[a].legacy, !.era = changed[a], !.raced = b]
        OBVIOUS
    <1>5. /\ new \in Request /\ new.op = "login" /\ new.stage = "hashing" /\ new.user = a
          /\ new.era = changed[a] /\ new.raced = b /\ new.rows = {}
        BY <1>2, <1>4 DEF Start, Idle, Request, Ops, Stages
    <1>6. Shape(new)
        BY <1>5 DEF Shape, InStage, Setters
    <1>7. ~At(r, "done") /\ req' = [req EXCEPT ![r] = new]
        BY <1>1, <1>3, <1>4 DEF BeginLogin, At
    <1>8. /\ Quiet(r) /\ req'[r] = new /\ Typed' /\ Made' /\ LinkInv' /\ ContextInv'
          /\ CodeInv' /\ FamilyInv' /\ ReplayInv'
        BY <1>1, <1>5, <1>6, <1>7, OnlyRequest
    <1>9. req'[r].raced = Revoking(req'[r].user)
        BY <1>3, <1>5, <1>8, Zenon
    <1>10. StaleInv'
        BY <1>1, <1>2, <1>5, <1>8, <1>9, IssuingBegins
    <1> QED
        BY <1>8, <1>10 DEF AccessInv

LEMMA BeginRotateKeeps ==
    ASSUME AccessInv, NEW r \in Requests, NEW t \in Requests, BeginRotate(r, t), UNCHANGED avars
    PROVE  AccessInv'
    <1>1. /\ At(r, "idle") /\ Usable(t) /\ TokenFree(t, r)
          /\ UNCHANGED <<keycloak, user, sess, code, changed>>
          /\ Typed /\ StaleInv /\ FamilyInv /\ Made
        BY DEF BeginRotate, AccessInv
    <1>2. PICK a \in Accounts : a = sess[t].user
        BY <1>1 DEF Typed, Session, Usable
    <1>3. changed[a] \in Nat /\ user[a] # NULL
        BY <1>1, <1>2 DEF Typed, Usable, Made
    <1>4. PICK b \in BOOLEAN : b = Revoking(a)
        BY Zenon DEF Revoking
    <1>5. PICK new : new = [Start("rotate", "issuing", a) EXCEPT
                !.token = t, !.era = changed[a], !.raced = b]
        OBVIOUS
    <1>6. /\ new \in Request /\ new.op = "rotate" /\ new.stage = "issuing" /\ new.user = a
          /\ new.token = t /\ new.era = changed[a] /\ new.raced = b /\ new.rows = {}
        BY <1>3, <1>5 DEF Start, Idle, Request, Ops, Stages, Passwords
    <1>7. Shape(new)
        BY <1>6 DEF Shape, InStage, Setters
    <1>8. ~At(r, "done") /\ req' = [req EXCEPT ![r] = new]
        BY <1>1, <1>2, <1>4, <1>5 DEF BeginRotate, At
    <1>9. /\ Quiet(r) /\ req'[r] = new /\ Typed' /\ Made' /\ LinkInv' /\ ContextInv'
          /\ CodeInv' /\ ReplayInv'
        BY <1>1, <1>3, <1>6, <1>7, <1>8, OnlyRequest
    <1>10. req'[r].raced = Revoking(req'[r].user)
        BY <1>4, <1>6, <1>9, Zenon
    <1>11. StaleInv'
        BY <1>1, <1>3, <1>6, <1>9, <1>10, IssuingBegins
    <1>12. \A x \in Requests: Live(x)' <=> Live(x)
        BY <1>1 DEF Live
    <1>13. Live(t) /\ \A q \in Requests \ {r}: req[q].op = "rotate" => req[q].token # t
        BY <1>1 DEF Usable, Live, TokenFree, LockedTokens
    <1>14. \A q \in Requests \ {r}: req'[q].op = "rotate" =>
                req[q].op = "rotate" /\ req'[q].token = req[q].token /\ req'[q].user = req[q].user
        BY <1>9 DEF Quiet
    <1>15. FamilyInv'
        BY <1>1, <1>2, <1>6, <1>9, <1>12, <1>13, <1>14 DEF FamilyInv, Live
    <1> QED
        BY <1>9, <1>11, <1>15 DEF AccessInv

LEMMA RefreshReplayKeeps ==
    ASSUME AccessInv, NEW r \in Requests, NEW t \in Requests, RefreshReplay(r, t), UNCHANGED avars
    PROVE  AccessInv'
    <1>1. /\ At(r, "idle") /\ sess[t] # NULL /\ TokenFree(t, r) /\ (sess[t].revoked \/ sess[t].rotated)
          /\ UNCHANGED <<keycloak, user, sess, code, changed>>
          /\ Typed /\ ReplayInv /\ Made
        BY DEF RefreshReplay, AccessInv
    <1>2. PICK a \in Accounts : a = sess[t].user
        BY <1>1 DEF Typed, Session
    <1>3. PICK rows : rows = Unrevoked(FamilyOf(sess[t].family))
        OBVIOUS
    <1>4. rows \subseteq Requests /\ \A x \in Requests: x \in rows <=>
            sess[x] # NULL /\ sess[x].family = sess[t].family /\ ~sess[x].revoked
        BY <1>3 DEF Unrevoked, FamilyOf
    <1>5. PICK new : new = [Start("replay", "revoking", a) EXCEPT !.token = t, !.rows = rows]
        OBVIOUS
    <1>6. /\ new \in Request /\ new.op = "replay" /\ new.stage = "revoking" /\ new.user = a
          /\ new.token = t /\ new.rows = rows
        BY <1>4, <1>5 DEF Start, Idle, Request, Ops, Stages, Passwords
    <1>7. Shape(new)
        BY <1>6 DEF Shape, InStage, Setters
    <1>8. ~At(r, "done") /\ req' = [Mark(a) EXCEPT ![r] = new] /\ user[a] # NULL
        BY <1>1, <1>2, <1>3, <1>5 DEF RefreshReplay, At, Made
    <1>9. /\ Quiet(r) /\ req'[r] = new /\ Typed' /\ Made' /\ LinkInv' /\ ContextInv'
          /\ CodeInv' /\ FamilyInv' /\ StaleInv'
        BY <1>1, <1>4, <1>6, <1>7, <1>8, OnlyRequest DEF Setters
    <1>10. ReplayInv'
        <2>1. \A q \in Replays': q # r => q \in Replays /\ req'[q] = req[q]
            BY <1>9 DEF Replays, Quiet
        <2>2. \A q \in Replays: req[q].token \in Requests /\ req[q].rows \subseteq Requests
            BY <1>1 DEF Typed, Shape, Replays, Request
        <2>3. ASSUME NEW q \in Replays'
              PROVE  /\ sess'[req'[q].token] # NULL /\ ~Live(req[q].token)'
                     /\ \A x \in req'[q].rows:
                            sess'[x] # NULL /\ sess'[x].family = sess'[req'[q].token].family
            <3>1. CASE q = r
                BY <1>1, <1>4, <1>6, <1>9, <3>1 DEF Live
            <3>2. CASE q # r
                BY <1>1, <2>1, <3>2 DEF ReplayInv, Live
            <3> QED
                BY <3>1, <3>2
        <2>4. ASSUME NEW x \in Replays', NEW y \in Replays', x # r, y # r, Began(x, y)
              PROVE  Began(x, y)'
            BY <1>1, <2>1, <2>4 DEF Began
        <2>5. ASSUME NEW x \in Replays', x # r,
                     sess'[req'[x].token].family = sess'[req'[r].token].family
              PROVE  Began(x, r)'
            <3>1. req'[x] = req[x] /\ x \in Replays
                BY <2>1, <2>5
            <3>2. \A z \in req[x].rows \cup {req[x].token}:
                    z \in Requests /\ sess[z] # NULL /\ sess[z].family = sess[t].family
                BY <1>1, <1>6, <1>9, <2>2, <2>5, <3>1 DEF ReplayInv
            <3> QED
                BY <1>1, <1>4, <1>6, <1>9, <3>1, <3>2 DEF Began
        <2>6. ASSUME NEW S \in SUBSET (Replays'), S # {},
                     \A x, y \in S: sess'[req'[x].token].family = sess'[req'[y].token].family
              PROVE  \E y \in S: \A x \in S \ {y}: Began(x, y)'
            <3>1. CASE r \in S
                BY <2>5, <2>6, <3>1
            <3>2. CASE r \notin S
                <4>1. S \in SUBSET Replays
                    BY <2>1, <3>2
                <4>2. \A x \in S: sess'[req'[x].token].family = sess[req[x].token].family
                    BY <1>1, <2>1, <3>2
                <4>3. PICK y \in S: \A x \in S \ {y}: Began(x, y)
                    BY <1>1, <2>6, <4>1, <4>2 DEF ReplayInv
                <4> QED
                    BY <2>4, <3>2, <4>3
            <3> QED
                BY <3>1, <3>2
        <2> QED
            BY <2>3, <2>6 DEF ReplayInv
    <1> QED
        BY <1>9, <1>10 DEF AccessInv

LEMMA StartRevokingKeeps ==
    ASSUME AccessInv, NEW r \in Requests, StartRevoking(r), UNCHANGED avars
    PROVE  AccessInv'
    <1>1. /\ req[r].op \in Setters /\ At(r, "hashing") /\ UserFree(req[r].user, r)
          /\ UNCHANGED <<keycloak, user, sess, code, changed>>
          /\ Typed /\ StaleInv /\ Made
        BY DEF StartRevoking, AccessInv, Setters
    <1>2. PICK a \in Accounts : a = req[r].user
        BY <1>1 DEF Typed, Shape, Setters
    <1>3. PICK rows : rows = Unrevoked(SessionsOf(a))
        OBVIOUS
    <1>4. rows \subseteq Requests /\ \A x \in Requests: x \in rows <=>
            sess[x] # NULL /\ sess[x].user = a /\ ~sess[x].revoked
        BY <1>3 DEF Unrevoked, SessionsOf
    <1>5. PICK new : new = [req[r] EXCEPT !.stage = "revoking", !.rows = rows]
        OBVIOUS
    <1>6. /\ new \in Request /\ new.op = req[r].op /\ new.stage = "revoking" /\ new.user = a
          /\ new.code = req[r].code /\ new.rows = rows /\ new.role = req[r].role
          /\ new.token = req[r].token
        <2>1. req[r] \in Request
            BY <1>1 DEF Typed
        <2> QED
            BY <1>2, <1>4, <1>5, <2>1 DEF Request, Stages
    <1>7. Shape(new)
        BY <1>1, <1>2, <1>6 DEF Typed, Shape, InStage, Setters
    <1>8. ~At(r, "done") /\ req' = [Mark(a) EXCEPT ![r] = new] /\ user[a] # NULL
        BY <1>1, <1>2, <1>3, <1>5 DEF StartRevoking, At, Made, Setters
    <1>9. /\ Quiet(r) /\ req'[r] = new /\ Typed' /\ Made' /\ LinkInv' /\ ContextInv'
          /\ CodeInv' /\ FamilyInv' /\ ReplayInv'
        BY <1>1, <1>4, <1>6, <1>7, <1>8, OnlyRequest DEF Setters
    <1>10. \A q \in Requests \ {r}:
                req[q].op \in {"login", "rotate"} /\ req[q].user = a => req'[q].raced
        BY <1>1, <1>6, <1>7, <1>8, MarkedAndWritten
    <1>11. StaleInv'
        <2>1. \A q \in Requests: req'[q].op \in {"login", "rotate"} =>
                /\ q # r /\ req[q].op = req'[q].op /\ req'[q].user = req[q].user
                /\ req'[q].era = req[q].era
                /\ req[q].raced => req'[q].raced
            BY <1>1, <1>6, <1>9 DEF Quiet, Setters
        <2>2. \A q \in Requests: q # r /\ req'[q].op \in Setters => req'[q] = req[q]
            BY <1>9 DEF Quiet, Setters
        <2>3. \A q \in Requests: q # r /\ Setting(q)' => Setting(q) /\ req'[q] = req[q] /\ req[q].user # a
            BY <1>1, <1>2, <2>2 DEF Setting, At, UserFree, Setters
        <2>4. \A q \in Requests:
                req'[q].op \in {"login", "rotate"} /\ req'[q].era < changed'[req'[q].user] => req'[q].raced
            BY <1>1, <2>1 DEF StaleInv
        <2>5. \A q \in Requests: req'[q].op \in Setters => ~keycloak'
            BY <1>1, <2>2 DEF StaleInv
        <2>6. ASSUME NEW p \in Requests, Setting(p)'
              PROVE  /\ \A t \in Requests:
                        sess'[t] # NULL /\ ~sess'[t].revoked /\ sess'[t].user = req'[p].user
                            => t \in req'[p].rows \/ sess'[t].raced
                     /\ \A q \in Requests:
                        req'[q].op \in {"login", "rotate"} /\ req'[q].user = req'[p].user => req'[q].raced
                     /\ \A q \in Requests \ {p}: Setting(q)' => req'[q].user # req'[p].user
            <3>1. CASE p = r
                BY <1>1, <1>4, <1>6, <1>9, <1>10, <2>1, <2>3, <3>1
            <3>2. CASE p # r
                <4>1. Setting(p) /\ req'[p] = req[p] /\ req[p].user # a
                    BY <2>3, <2>6, <3>2
                <4>2. \A t \in Requests:
                        sess'[t] # NULL /\ ~sess'[t].revoked /\ sess'[t].user = req'[p].user
                            => t \in req'[p].rows \/ sess'[t].raced
                    BY <1>1, <4>1 DEF StaleInv
                <4>3. \A q \in Requests:
                        req'[q].op \in {"login", "rotate"} /\ req'[q].user = req'[p].user => req'[q].raced
                    BY <1>1, <2>1, <4>1 DEF StaleInv
                <4>4. \A q \in Requests \ {p}: Setting(q)' => req'[q].user # req'[p].user
                    BY <1>1, <1>6, <1>9, <2>3, <4>1 DEF StaleInv
                <4> QED
                    BY <4>2, <4>3, <4>4
            <3> QED
                BY <3>1, <3>2
        <2>7. \A t \in Requests:
                sess'[t] # NULL /\ ~sess'[t].revoked /\ sess'[t].era < changed'[sess'[t].user] => sess'[t].raced
            BY <1>1 DEF StaleInv
        <2> QED
            BY <2>4, <2>5, <2>6, <2>7 DEF StaleInv
    <1> QED
        BY <1>9, <1>11 DEF AccessInv

-----------------------------------------------------------------------------
(* The steps that revoke sessions *)

LEMMA RevokeFacts ==
    ASSUME Typed, NEW rows \in SUBSET Requests, \A t \in rows: sess[t] # NULL, sess' = Revoke(rows)
    PROVE  /\ sess' \in [Requests -> Session \cup {NULL}]
           /\ \A t \in Requests: sess'[t] # NULL <=> sess[t] # NULL
           /\ \A t \in Requests: sess[t] # NULL =>
                /\ sess'[t].user = sess[t].user /\ sess'[t].family = sess[t].family
                /\ sess'[t].era = sess[t].era /\ sess'[t].raced = sess[t].raced
           /\ \A t \in rows: sess'[t].revoked
           /\ \A t \in Requests \ rows: sess'[t] = sess[t]
    <1>1. \A t \in Requests: sess'[t] = IF t \in rows THEN [sess[t] EXCEPT !.revoked = TRUE] ELSE sess[t]
        BY DEF Revoke
    <1>2. sess' = [t \in Requests |-> sess'[t]]
        BY DEF Revoke
    <1>3. ASSUME NEW t \in rows
          PROVE  /\ sess'[t] \in Session /\ sess'[t] # NULL /\ sess'[t].revoked
                 /\ sess'[t].user = sess[t].user /\ sess'[t].family = sess[t].family
                 /\ sess'[t].era = sess[t].era /\ sess'[t].raced = sess[t].raced
        <2>1. sess[t] \in Session /\ sess'[t] = [sess[t] EXCEPT !.revoked = TRUE]
            BY <1>1 DEF Typed
        <2>2. sess'[t] \in Session /\ sess'[t].revoked
              /\ sess'[t].user = sess[t].user /\ sess'[t].family = sess[t].family
              /\ sess'[t].era = sess[t].era /\ sess'[t].raced = sess[t].raced
            BY <2>1 DEF Session
        <2> QED
            BY <2>2, RowAssumption
    <1>4. \A t \in Requests \ rows: sess'[t] = sess[t] /\ sess'[t] \in Session \cup {NULL}
        BY <1>1 DEF Typed
    <1> QED
        BY <1>2, <1>3, <1>4

\* Rows are revoked only when no other request has them locked.
LEMMA RevokedParts ==
    ASSUME AccessInv, NEW r \in Requests, NEW new \in Request, Shape(new), ~At(r, "done"),
           req' = [req EXCEPT ![r] = new] \/ \E a \in Accounts: req' = [Mark(a) EXCEPT ![r] = new],
           new.op \in {"none", "login"}, new.token = NULL, new.rows = {},
           NEW rows \in SUBSET Requests, sess' = Revoke(rows),
           \A t \in rows: sess[t] # NULL /\ TokenFree(t, r),
           UNCHANGED <<keycloak, avars>>,
           user' \in [Accounts -> User \cup {NULL}], code' \in [Requests -> Code \cup {NULL}],
           changed' \in [Accounts -> Nat],
           \A a \in Accounts: user[a] # NULL => user'[a] # NULL,
           \A k \in Requests: code'[k] # NULL => code[k] # NULL /\ code'[k].user = code[k].user,
           new.op = "login" => user'[new.user] # NULL
    PROVE  /\ Quiet(r) /\ req'[r] = new
           /\ Typed' /\ Made' /\ LinkInv' /\ ContextInv' /\ FamilyInv' /\ ReplayInv'
    <1>1. Typed /\ Made /\ LinkInv /\ ContextInv /\ CodeInv /\ FamilyInv /\ StaleInv /\ ReplayInv
        BY DEF AccessInv
    <1>2. /\ Quiet(r) /\ req'[r] = new
          /\ req' \in [Requests -> Request] /\ \A q \in Requests: Shape(req'[q])
        BY <1>1, Written, MarkedAndWritten
    <1>3. /\ sess' \in [Requests -> Session \cup {NULL}]
          /\ \A t \in Requests: sess'[t] # NULL <=> sess[t] # NULL
          /\ \A t \in Requests: sess[t] # NULL =>
                /\ sess'[t].user = sess[t].user /\ sess'[t].family = sess[t].family
          /\ \A t \in rows: sess'[t].revoked
          /\ \A t \in Requests \ rows: sess'[t] = sess[t]
        BY <1>1, RevokeFacts
    <1>4. Typed'
        BY <1>1, <1>2, <1>3 DEF Typed, avars
    <1>5. Made'
        BY <1>1, <1>2, <1>3, <1>4, MadeFrame
    <1>6. LinkInv'
        BY <1>1, <1>2, LinkFrame, AccessAssumption DEF avars
    <1>7. ContextInv'
        BY <1>1, <1>2, <1>4, ContextFrame DEF avars
    <1>8. \A t \in Requests: Live(t)' => Live(t)
        BY <1>3 DEF Live
    <1>9. \A q \in Requests \ {r}: req[q].op \in {"rotate", "replay"} =>
            req[q].token \notin rows /\ req[q].token \in Requests /\ sess'[req[q].token] = sess[req[q].token]
        BY <1>1, <1>3 DEF TokenFree, LockedTokens, Typed, Shape
    <1>10. FamilyInv'
        <2>1. \A q \in Requests \ {r}: req[q].op = "rotate" => Live(req[q].token)
            BY <1>1 DEF FamilyInv
        <2>2. \A q \in Requests \ {r}: req[q].op = "rotate" => Live(req[q].token)'
            BY <1>2, <1>9, <2>1 DEF Live, Quiet
        <2>3. \A t \in Requests: Live(t)' => Live(t) /\ sess'[t].family = sess[t].family /\ sess'[t].user = sess[t].user
            BY <1>3, <1>8 DEF Live
        <2> QED
            BY <1>1, <1>2, <2>2, <2>3, FamilyFrame
    <1>11. ReplayInv'
        <2>1. \A t \in Requests: sess[t] # NULL =>
                /\ sess'[t] # NULL /\ sess'[t].family = sess[t].family
                /\ sess[t].revoked => sess'[t].revoked
                /\ Live(t)' => Live(t)
            BY <1>3, <1>8
        <2> QED
            BY <1>1, <1>2, <1>9, <2>1, ReplayFrame
    <1> QED
        BY <1>2, <1>4, <1>5, <1>6, <1>7, <1>10, <1>11

LEMMA RevokeKeeps ==
    ASSUME AccessInv, NEW r \in Requests, ~At(r, "done"),
           req' = [req EXCEPT ![r] = Done] \/ \E a \in Accounts: req' = [Mark(a) EXCEPT ![r] = Done],
           NEW rows \in SUBSET Requests, sess' = Revoke(rows),
           \A t \in rows: sess[t] # NULL /\ TokenFree(t, r),
           UNCHANGED <<keycloak, user, code, changed, avars>>
    PROVE  AccessInv'
    <1>1. PICK new : new = Done
        OBVIOUS
    <1>2. new \in Request /\ Shape(new) /\ new.op = "none" /\ new.token = NULL /\ new.rows = {}
        BY <1>1, DoneIsARequest
    <1>3. Typed /\ CodeInv /\ StaleInv
        BY DEF AccessInv
    <1>4. req' = [req EXCEPT ![r] = new] \/ \E a \in Accounts: req' = [Mark(a) EXCEPT ![r] = new]
        BY <1>1
    <1>5. /\ user' \in [Accounts -> User \cup {NULL}] /\ code' \in [Requests -> Code \cup {NULL}]
          /\ changed' \in [Accounts -> Nat]
        BY <1>3 DEF Typed
    <1>6. /\ Quiet(r) /\ req'[r] = new
          /\ Typed' /\ Made' /\ LinkInv' /\ ContextInv' /\ FamilyInv' /\ ReplayInv'
        BY <1>2, <1>4, <1>5, RevokedParts
    <1>7. CodeInv'
        BY <1>2, <1>3, <1>6, CodeFrame
    <1>8. \A t \in Requests: sess'[t] # NULL /\ ~sess'[t].revoked =>
                /\ sess[t] # NULL /\ ~sess[t].revoked /\ sess'[t].user = sess[t].user
                /\ sess'[t].era = sess[t].era /\ sess'[t].raced = sess[t].raced
        BY <1>3, RevokeFacts
    <1>9. StaleInv'
        BY <1>2, <1>3, <1>6, <1>8, StaleFrame DEF Setters
    <1> QED
        BY <1>6, <1>7, <1>9 DEF AccessInv

LEMMA RefreshExpiredKeeps ==
    ASSUME AccessInv, NEW r \in Requests, NEW t \in Requests,
           RefreshExpired(r, t) \/ Logout(r, t), UNCHANGED avars
    PROVE  AccessInv'
    <1>1. /\ At(r, "idle") /\ sess[t] # NULL /\ TokenFree(t, r) /\ sess' = Revoke({t})
          /\ req' = [req EXCEPT ![r] = Done] /\ UNCHANGED <<keycloak, user, code, changed>>
        BY DEF RefreshExpired, Logout
    <1>2. ~At(r, "done")
        BY <1>1 DEF At
    <1>3. PICK rows \in SUBSET Requests : rows = {t}
        OBVIOUS
    <1> QED
        BY <1>1, <1>2, <1>3, RevokeKeeps

\* A password is set: every session of the account that stays usable was made, or
\* is about to be made, by a request that overlapped the change.
LEMMA CredentialChanges ==
    ASSUME StaleInv, Typed, Typed', NEW r \in Requests, Quiet(r), Setting(r),
           NEW a \in Accounts, a = req[r].user, UNCHANGED keycloak,
           changed' = [changed EXCEPT ![a] = @ + 1],
           \A t \in Requests: sess'[t] # NULL /\ ~sess'[t].revoked =>
                /\ sess[t] # NULL /\ ~sess[t].revoked /\ sess'[t].user = sess[t].user
                /\ sess'[t].era = sess[t].era /\ sess'[t].raced = sess[t].raced
                /\ t \notin req[r].rows,
           req'[r].op \in {"none", "login"},
           req'[r].op = "login" => req'[r].user = a /\ req'[r].era = changed[a] + 1
    PROVE  StaleInv'
    <1>1. changed[a] \in Nat /\ \A b \in Accounts: changed'[b] = IF b = a THEN changed[a] + 1 ELSE changed[b]
        BY DEF Typed
    <1>2. \A q \in Requests \ {r}: req'[q].op \in {"login", "rotate"} =>
            /\ req[q].op = req'[q].op /\ req'[q].user = req[q].user /\ req'[q].era = req[q].era
            /\ req[q].raced => req'[q].raced
        BY DEF Quiet
    <1>3. \A q \in Requests: req'[q].op \in Setters => q # r /\ req'[q] = req[q]
        BY DEF Quiet, Setters
    <1>4. \A q \in Requests: Setting(q)' => q # r /\ Setting(q) /\ req'[q] = req[q] /\ req[q].user # a
        BY <1>3 DEF Setting, At, StaleInv
    <1>5. ASSUME NEW t \in Requests, sess'[t] # NULL, ~sess'[t].revoked, sess'[t].era < changed'[sess'[t].user]
          PROVE  sess'[t].raced
        <2>1. sess[t].user \in Accounts
            BY <1>5 DEF Typed, Session
        <2>2. CASE sess[t].user = a
            BY <1>5, <2>2 DEF StaleInv
        <2>3. CASE sess[t].user # a
            BY <1>1, <1>5, <2>1, <2>3 DEF StaleInv
        <2> QED
            BY <2>2, <2>3
    <1>6. ASSUME NEW q \in Requests, req'[q].op \in {"login", "rotate"}, req'[q].era < changed'[req'[q].user]
          PROVE  req'[q].raced
        <2>1. CASE q = r
            BY <1>1, <1>6, <2>1
        <2>2. CASE q # r /\ req[q].user = a
            BY <1>2, <1>6, <2>2 DEF StaleInv
        <2>3. CASE q # r /\ req[q].user # a
            <3>1. req[q].user \in Accounts
                BY <1>2, <1>6, <2>3 DEF Typed, Shape
            <3> QED
                BY <1>1, <1>2, <1>6, <2>3, <3>1 DEF StaleInv
        <2> QED
            BY <2>1, <2>2, <2>3
    <1>7. \A q \in Requests: req'[q].op \in Setters => ~keycloak'
        BY <1>3 DEF StaleInv
    <1>8. ASSUME NEW p \in Requests, Setting(p)'
          PROVE  /\ \A t \in Requests:
                    sess'[t] # NULL /\ ~sess'[t].revoked /\ sess'[t].user = req'[p].user
                        => t \in req'[p].rows \/ sess'[t].raced
                 /\ \A q \in Requests:
                    req'[q].op \in {"login", "rotate"} /\ req'[q].user = req'[p].user => req'[q].raced
                 /\ \A q \in Requests \ {p}: Setting(q)' => req'[q].user # req'[p].user
        <2>1. p # r /\ Setting(p) /\ req'[p] = req[p] /\ req[p].user # a
            BY <1>4, <1>8
        <2>2. \A t \in Requests:
                    sess'[t] # NULL /\ ~sess'[t].revoked /\ sess'[t].user = req'[p].user
                        => t \in req'[p].rows \/ sess'[t].raced
            BY <2>1 DEF StaleInv
        <2>3. \A q \in Requests:
                    req'[q].op \in {"login", "rotate"} /\ req'[q].user = req'[p].user => req'[q].raced
            BY <1>2, <2>1 DEF StaleInv
        <2>4. \A q \in Requests \ {p}: Setting(q)' => req'[q].user # req'[p].user
            BY <1>4, <2>1 DEF StaleInv
        <2> QED
            BY <2>2, <2>3, <2>4
    <1> QED
        BY <1>5, <1>6, <1>7, <1>8 DEF StaleInv

LEMMA FinishRevokingKeeps ==
    ASSUME AccessInv, NEW r \in Requests, FinishRevoking(r), UNCHANGED avars
    PROVE  AccessInv'
    <1>1. /\ At(r, "revoking") /\ ~Waits(r) /\ sess' = Revoke(req[r].rows)
          /\ keycloak' = keycloak
        BY DEF FinishRevoking
    <1>2. Typed /\ Made /\ CodeInv /\ StaleInv
        BY DEF AccessInv
    <1>3. PICK rows \in SUBSET Requests : rows = req[r].rows
        BY <1>2 DEF Typed, Request
    <1>4. \A t \in rows: sess[t] # NULL /\ TokenFree(t, r)
        BY <1>1, <1>2, <1>3 DEF Made, Waits
    <1>5. ~At(r, "done") /\ req[r].op \in Setters \cup {"replay", "logout_all"}
        <2>1. req[r] \in Request /\ Shape(req[r])
            BY <1>2 DEF Typed
        <2>2. req[r].op \in Ops
            BY <2>1 DEF Request
        <2> QED
            BY <1>1, <2>1, <2>2 DEF Shape, InStage, At, Ops
    <1>6. PICK a \in Accounts : a = req[r].user
        BY <1>2, <1>5 DEF Typed, Shape, Setters
    <1>7. CASE req[r].op \notin Setters
        <2>1. req' = [Mark(a) EXCEPT ![r] = Done] /\ UNCHANGED <<keycloak, user, code, changed>>
            BY <1>6, <1>7 DEF FinishRevoking, Setters
        <2> QED
            BY <1>1, <1>3, <1>4, <1>5, <2>1, RevokeKeeps
    <1>8. CASE req[r].op \in Setters
        <2>1. /\ user' = [user EXCEPT ![a] = NewCredential(r, user[a])]
              /\ changed' = [changed EXCEPT ![a] = @ + 1]
              /\ code' = IF req[r].op = "reset" THEN [code EXCEPT ![req[r].code].uses = @ + 1] ELSE code
            BY <1>6, <1>8 DEF FinishRevoking, Setters
        <2>2. PICK new : new = IF req[r].op = "set"
                THEN [Start("login", "hashing", a) EXCEPT !.pwd = r, !.era = changed[a] + 1]
                ELSE Done
            OBVIOUS
        <2>3. req' = [Mark(a) EXCEPT ![r] = new]
            BY <1>6, <2>2 DEF FinishRevoking
        <2>4. changed[a] \in Nat /\ changed' \in [Accounts -> Nat]
            BY <1>2, <2>1 DEF Typed
        <2>5. /\ new \in Request /\ Shape(new) /\ new.token = NULL /\ new.rows = {}
              /\ \/ new.op = "none"
                 \/ new.op = "login" /\ new.user = a /\ new.era = changed[a] + 1
            <3>1. CASE req[r].op = "set"
                <4>1. PICK era \in Nat : era = changed[a] + 1
                    BY <2>4
                <4>2. new = [Start("login", "hashing", a) EXCEPT !.pwd = r, !.era = era]
                    BY <2>2, <3>1, <4>1
                <4>3. /\ new \in Request /\ new.op = "login" /\ new.stage = "hashing" /\ new.user = a
                      /\ new.era = era /\ new.token = NULL /\ new.rows = {}
                    BY <4>2 DEF Start, Idle, Request, Ops, Stages, Passwords
                <4>4. Shape(new)
                    BY <4>3 DEF Shape, InStage, Setters
                <4> QED
                    BY <4>1, <4>3, <4>4
            <3>2. CASE req[r].op # "set"
                BY <2>2, <3>2, DoneIsARequest
            <3> QED
                BY <3>1, <3>2
        <2>6. user[a] # NULL /\ user[a] \in User
            BY <1>2, <1>6, <1>8 DEF Made, Typed, Setters
        <2>7. /\ user' \in [Accounts -> User \cup {NULL}]
              /\ \A b \in Accounts: user[b] # NULL => user'[b] # NULL
            <3>1. PICK b \in BOOLEAN : b = (user[a].mustSet /\ req[r].op # "set")
                BY Zenon
            <3>2. req[r].cv \in Nat
                BY <1>2 DEF Typed, Request
            <3>3. PICK cv \in Nat : cv = req[r].cv + 1
                BY <3>2
            <3>4. NewCredential(r, user[a]) =
                    [user[a] EXCEPT !.pwd = r, !.legacy = FALSE, !.cv = cv, !.mustSet = b]
                BY <2>6, <3>3, <3>1, Zenon DEF NewCredential
            <3>5. NewCredential(r, user[a]) \in User
                BY <2>6, <3>4 DEF User, Passwords
            <3> QED
                BY <1>2, <2>1, <3>5, RowAssumption DEF Typed
        <2>8. /\ code' \in [Requests -> Code \cup {NULL}]
              /\ \A k \in Requests: code'[k] # NULL => code[k] # NULL /\ code'[k].user = code[k].user
              /\ CodeIsUsedOnce'
              /\ \A k \in Requests: (req[r].op = "reset" /\ k = req[r].code) \/ code'[k] = code[k]
            <3>1. CASE req[r].op = "reset"
                <4>1. PICK k \in Requests : k = req[r].code
                    BY <1>2, <3>1 DEF Typed, Shape
                <4>2. code[k] \in Code /\ code[k] # NULL /\ code[k].uses = 0
                    BY <1>2, <3>1, <4>1 DEF Typed, CodeInv
                <4>3. PICK c : c = [code[k] EXCEPT !.uses = code[k].uses + 1]
                    OBVIOUS
                <4>4. c \in Code /\ c.user = code[k].user /\ c.uses = 1
                    BY <4>2, <4>3 DEF Code
                <4>5. code' = [code EXCEPT ![k] = c]
                    BY <2>1, <3>1, <4>1, <4>3
                <4>6. code' \in [Requests -> Code \cup {NULL}] /\ \A x \in Requests: code'[x] = IF x = k THEN c ELSE code[x]
                    BY <1>2, <4>4, <4>5 DEF Typed
                <4>7. CodeIsUsedOnce'
                    BY <1>2, <4>4, <4>6 DEF CodeInv, CodeIsUsedOnce
                <4> QED
                    BY <3>1, <4>1, <4>2, <4>4, <4>6, <4>7
            <3>2. CASE req[r].op # "reset"
                BY <1>2, <2>1, <3>2 DEF Typed, CodeInv, CodeIsUsedOnce
            <3> QED
                BY <3>1, <3>2
        <2>9. /\ Quiet(r) /\ req'[r] = new
              /\ Typed' /\ Made' /\ LinkInv' /\ ContextInv' /\ FamilyInv' /\ ReplayInv'
            <3>1. /\ sess' = Revoke(rows) /\ UNCHANGED <<keycloak, avars>>
                  /\ new.op \in {"none", "login"}
                  /\ new.op = "login" => user'[new.user] # NULL
                  /\ \E b \in Accounts: req' = [Mark(b) EXCEPT ![r] = new]
                BY <1>1, <1>3, <2>3, <2>5, <2>6, <2>7
            <3> QED
                BY <1>4, <1>5, <2>4, <2>5, <2>7, <2>8, <3>1, RevokedParts
        <2>10. CodeInv'
            <3>1. \A q \in Requests: req'[q].op \in {"phone", "reset"} => q # r /\ req'[q] = req[q]
                BY <2>5, <2>9 DEF Quiet
            <3>2. ASSUME NEW q \in Requests, req'[q].op \in {"phone", "reset"}
                  PROVE  code'[req'[q].code] = code[req[q].code]
                <4>1. q # r /\ req'[q] = req[q] /\ req[q].code \in Requests
                    BY <1>2, <3>1, <3>2 DEF Typed, Shape
                <4>2. ~(req[r].op = "reset" /\ req[q].code = req[r].code)
                    BY <1>2, <3>2, <4>1 DEF CodeInv
                <4> QED
                    BY <2>8, <4>1, <4>2
            <3> QED
                BY <1>2, <2>8, <3>1, <3>2 DEF CodeInv
        <2>11. \A t \in Requests: sess'[t] # NULL /\ ~sess'[t].revoked =>
                /\ sess[t] # NULL /\ ~sess[t].revoked /\ sess'[t].user = sess[t].user
                /\ sess'[t].era = sess[t].era /\ sess'[t].raced = sess[t].raced
                /\ t \notin req[r].rows
            BY <1>1, <1>2, <1>3, <1>4, RevokeFacts
        <2>12. StaleInv'
            BY <1>1, <1>2, <1>6, <1>8, <2>1, <2>5, <2>9, <2>11, CredentialChanges DEF Setting
        <2> QED
            BY <2>9, <2>10, <2>12 DEF AccessInv
    <1> QED
        BY <1>7, <1>8

-----------------------------------------------------------------------------
(* The steps that issue and use a code *)

LEMMA CodeStepParts ==
    ASSUME AccessInv, NEW r \in Requests, ~At(r, "done"), req' = [req EXCEPT ![r] = Done],
           UNCHANGED <<keycloak, sess, changed, avars>>,
           user' \in [Accounts -> User \cup {NULL}], code' \in [Requests -> Code \cup {NULL}],
           \A a \in Accounts: user[a] # NULL => user'[a] # NULL,
           \A k \in Requests: code'[k] # NULL =>
                \/ code[k] # NULL /\ code'[k].user = code[k].user
                \/ k = r /\ user'[code'[k].user] # NULL,
           CodeIsUsedOnce',
           \A k \in Requests: code[k] # NULL =>
                code'[k] # NULL /\ code'[k].kind = code[k].kind,
           \A q \in Requests \ {r}: req[q].op = "reset" => code'[req[q].code].uses = 0
    PROVE  AccessInv'
    <1>1. Typed /\ Made /\ LinkInv /\ ContextInv /\ CodeInv /\ FamilyInv /\ StaleInv /\ ReplayInv
        BY DEF AccessInv
    <1>2. PICK new : new = Done
        OBVIOUS
    <1>3. /\ new \in Request /\ Shape(new) /\ new.op = "none" /\ new.stage = "done" /\ new.token = NULL
          /\ new.rows = {}
        BY <1>2, DoneIsARequest
    <1>4. /\ Quiet(r) /\ req'[r] = new
          /\ req' \in [Requests -> Request] /\ \A q \in Requests: Shape(req'[q])
        BY <1>1, <1>2, <1>3, Written
    <1>5. Typed'
        BY <1>1, <1>4 DEF Typed, avars
    <1>6. Made'
        BY <1>1, <1>3, <1>4, <1>5, MadeFrame
    <1>7. LinkInv'
        BY <1>1, <1>3, <1>4, LinkFrame, AccessAssumption DEF avars
    <1>8. ContextInv'
        BY <1>1, <1>3, <1>4, <1>5, ContextFrame DEF avars
    <1>9. \A t \in Requests: Live(t)' <=> Live(t)
        BY DEF Live
    <1>10. FamilyInv'
        <2>1. \A q \in Requests \ {r}: req[q].op = "rotate" => Live(req[q].token)'
            BY <1>1, <1>4 DEF FamilyInv, Quiet, Live
        <2> QED
            BY <1>1, <1>3, <1>4, <1>9, <2>1, FamilyFrame
    <1>11. StaleInv'
        BY <1>1, <1>3, <1>4, <1>5, StaleFrame DEF Setters
    <1>12. ReplayInv'
        BY <1>1, <1>3, <1>4, <1>9, ReplayFrame
    <1>13. \A q \in Requests: req'[q].op \in {"phone", "reset"} =>
                q # r /\ req'[q] = req[q] /\ req[q].code \in Requests
        BY <1>1, <1>3, <1>4 DEF Quiet, Typed, Shape
    <1>14. CodeInv'
        BY <1>1, <1>13 DEF CodeInv
    <1> QED
        BY <1>5, <1>6, <1>7, <1>8, <1>10, <1>11, <1>12, <1>14 DEF AccessInv

LEMMA IssueCodeKeeps ==
    ASSUME AccessInv, NEW r \in Requests, NEW a \in Accounts, NEW kind \in {"reset", "email"},
           IssueCode(r, a, kind), UNCHANGED avars
    PROVE  AccessInv'
    <1>1. PICK c : c = [kind |-> kind, user |-> a, expired |-> FALSE, uses |-> 0]
        OBVIOUS
    <1>2. c \in Code /\ c.user = a /\ c.uses = 0
        BY <1>1 DEF Code
    <1>3. /\ At(r, "idle") /\ user[a] # NULL /\ code' = [code EXCEPT ![r] = c]
          /\ req' = [req EXCEPT ![r] = Done] /\ UNCHANGED <<keycloak, user, sess, changed>>
        BY <1>1 DEF IssueCode
    <1>4. ~At(r, "done") /\ Typed /\ Made /\ CodeInv
        BY <1>3 DEF At, AccessInv
    <1>5. code[r] = NULL
        BY <1>4 DEF Made
    <1>6. code' \in [Requests -> Code \cup {NULL}]
          /\ \A k \in Requests: code'[k] = IF k = r THEN c ELSE code[k]
        BY <1>2, <1>3, <1>4 DEF Typed
    <1>7. CodeIsUsedOnce'
        BY <1>2, <1>4, <1>6 DEF CodeInv, CodeIsUsedOnce
    <1>8. \A q \in Requests \ {r}: req[q].op = "reset" => code'[req[q].code].uses = 0
        BY <1>4, <1>5, <1>6 DEF CodeInv, Typed, Shape
    <1>9. user' \in [Accounts -> User \cup {NULL}]
        BY <1>3, <1>4 DEF Typed
    <1> QED
        BY <1>2, <1>3, <1>4, <1>5, <1>6, <1>7, <1>8, <1>9, CodeStepParts

\* The use of a code that no reset has, whose other uses are of its kind
LEMMA CodeUsed ==
    ASSUME Typed, CodeInv, NEW k \in Requests, code[k] # NULL,
           code[k].kind = "phone" \/ (code[k].kind = "email" /\ code[k].uses = 0),
           code' = [code EXCEPT ![k].uses = @ + 1]
    PROVE  /\ code' \in [Requests -> Code \cup {NULL}] /\ CodeIsUsedOnce'
           /\ \A x \in Requests: code[x] # NULL <=> code'[x] # NULL
           /\ \A x \in Requests: code[x] # NULL => code'[x].user = code[x].user /\ code'[x].kind = code[x].kind
           /\ \A q \in Requests: req[q].op = "reset" => code'[req[q].code].uses = 0
    <1>1. code[k] \in Code /\ code[k].uses \in Nat
        BY DEF Typed, Code
    <1>2. PICK n \in Nat : n = code[k].uses + 1
        BY <1>1
    <1>3. PICK c : c = [code[k] EXCEPT !.uses = n]
        OBVIOUS
    <1>4. c \in Code /\ c.user = code[k].user /\ c.uses = n /\ c.kind = code[k].kind
        BY <1>1, <1>3 DEF Code
    <1>5. code' = [code EXCEPT ![k] = c]
        BY <1>2, <1>3
    <1>6. code' \in [Requests -> Code \cup {NULL}]
          /\ \A x \in Requests: code'[x] = IF x = k THEN c ELSE code[x]
        BY <1>4, <1>5 DEF Typed
    <1>7. CodeIsUsedOnce'
        BY <1>2, <1>4, <1>6 DEF CodeInv, CodeIsUsedOnce
    <1>8. \A q \in Requests: req[q].op = "reset" => code'[req[q].code].uses = 0
        BY <1>6 DEF CodeInv, Typed, Shape
    <1>9. c # NULL
        BY <1>4, RowAssumption
    <1> QED
        BY <1>4, <1>6, <1>7, <1>8, <1>9

LEMMA VerifyPhoneKeeps ==
    ASSUME AccessInv, NEW r \in Requests, VerifyPhone(r), UNCHANGED avars
    PROVE  AccessInv'
    <1>1. /\ req[r].op = "phone" /\ code' = [code EXCEPT ![req[r].code].uses = @ + 1]
          /\ req' = [req EXCEPT ![r] = Done] /\ UNCHANGED <<keycloak, user, sess, changed>>
        BY DEF VerifyPhone
    <1>2. Typed /\ CodeInv
        BY DEF AccessInv
    <1>3. PICK k \in Requests : k = req[r].code
        BY <1>1, <1>2 DEF Typed, Shape
    <1>4. code[k] # NULL /\ code[k].kind = "phone"
        BY <1>1, <1>2, <1>3 DEF CodeInv
    <1>5. ~At(r, "done")
        BY <1>1, <1>2, BusyOrIdle
    <1>6. code' = [code EXCEPT ![k].uses = @ + 1]
        BY <1>1, <1>3
    <1>7. user' \in [Accounts -> User \cup {NULL}]
        BY <1>1, <1>2 DEF Typed
    <1>8. /\ code' \in [Requests -> Code \cup {NULL}] /\ CodeIsUsedOnce'
          /\ \A x \in Requests: code[x] # NULL <=> code'[x] # NULL
          /\ \A x \in Requests: code[x] # NULL => code'[x].user = code[x].user /\ code'[x].kind = code[x].kind
          /\ \A q \in Requests: req[q].op = "reset" => code'[req[q].code].uses = 0
        BY <1>2, <1>4, <1>6, CodeUsed
    <1> QED
        BY <1>1, <1>5, <1>7, <1>8, CodeStepParts

LEMMA VerifyEmailKeeps ==
    ASSUME AccessInv, NEW r \in Requests, NEW k \in Requests, VerifyEmail(r, k), UNCHANGED avars
    PROVE  AccessInv'
    <1>1. /\ At(r, "idle") /\ Presentable(k, "email")
          /\ req' = [req EXCEPT ![r] = Done] /\ UNCHANGED <<keycloak, sess, changed>>
        BY DEF VerifyEmail
    <1>2. Typed /\ Made /\ CodeInv /\ ~At(r, "done")
        BY <1>1 DEF AccessInv, At
    <1>3. code[k] # NULL /\ code[k].kind = "email" /\ code[k].uses = 0
        BY <1>1 DEF Presentable
    <1>4. PICK a \in Accounts : a = code[k].user
        BY <1>2, <1>3 DEF Typed, Code
    <1>5. user[a] # NULL /\ user[a] \in User
        BY <1>2, <1>3, <1>4 DEF Made, Typed
    <1>6. CASE UNCHANGED <<user, code>>
        <2>1. /\ user' \in [Accounts -> User \cup {NULL}] /\ code' \in [Requests -> Code \cup {NULL}]
              /\ CodeIsUsedOnce'
            BY <1>2, <1>6 DEF Typed, CodeInv, CodeIsUsedOnce
        <2>2. \A q \in Requests \ {r}: req[q].op = "reset" => code'[req[q].code].uses = 0
            BY <1>2, <1>6 DEF CodeInv
        <2> QED
            BY <1>1, <1>2, <1>6, <2>1, <2>2, CodeStepParts
    <1>7. CASE /\ user' = [user EXCEPT ![a].verified = TRUE, ![a].customer = TRUE]
               /\ code' = [code EXCEPT ![k].uses = @ + 1]
        <2>1. PICK u : u = [user[a] EXCEPT !.verified = TRUE, !.customer = TRUE]
            OBVIOUS
        <2>2. u \in User /\ u # NULL
            BY <1>5, <2>1, RowAssumption DEF User
        <2>3. user' = [user EXCEPT ![a] = u]
            <3>1. PICK v : v = [user[a] EXCEPT !.verified = TRUE]
                OBVIOUS
            <3>2. v \in User /\ u = [v EXCEPT !.customer = TRUE]
                BY <1>5, <2>1, <3>1 DEF User
            <3>3. user' = [[user EXCEPT ![a] = v] EXCEPT ![a].customer = TRUE]
                BY <1>7, <3>1
            <3> QED
                BY <1>2, <3>2, <3>3 DEF Typed
        <2>4. user' \in [Accounts -> User \cup {NULL}] /\ \A b \in Accounts: user[b] # NULL => user'[b] # NULL
            BY <1>2, <2>2, <2>3 DEF Typed
        <2>5. /\ code' \in [Requests -> Code \cup {NULL}] /\ CodeIsUsedOnce'
              /\ \A x \in Requests: code[x] # NULL <=> code'[x] # NULL
              /\ \A x \in Requests: code[x] # NULL => code'[x].user = code[x].user /\ code'[x].kind = code[x].kind
              /\ \A q \in Requests: req[q].op = "reset" => code'[req[q].code].uses = 0
            BY <1>2, <1>3, <1>7, CodeUsed
        <2> QED
            BY <1>1, <1>2, <2>4, <2>5, CodeStepParts
    <1> QED
        BY <1>4, <1>6, <1>7 DEF VerifyEmail

\* The clock only moves expires_at.
LEMMA ExpireKeeps ==
    ASSUME AccessInv, NEW x \in Requests, Expire(x), UNCHANGED avars
    PROVE  AccessInv'
    <1>1. Typed /\ Made /\ LinkInv /\ ContextInv /\ CodeInv /\ FamilyInv /\ StaleInv /\ ReplayInv
        BY DEF AccessInv
    <1>2. UNCHANGED <<keycloak, user, req, changed, avars>>
        BY DEF Expire
    <1>3. /\ sess' \in [Requests -> Session \cup {NULL}]
          /\ \A t \in Requests: sess'[t] # NULL <=> sess[t] # NULL
          /\ \A t \in Requests: sess[t] # NULL =>
                /\ sess'[t].user = sess[t].user /\ sess'[t].family = sess[t].family
                /\ sess'[t].era = sess[t].era /\ sess'[t].raced = sess[t].raced
                /\ sess'[t].rotated = sess[t].rotated /\ sess'[t].revoked = sess[t].revoked
        <2>1. CASE sess' = sess
            BY <1>1, <2>1 DEF Typed
        <2>2. CASE Usable(x) /\ sess' = [sess EXCEPT ![x].expired = TRUE]
            <3>1. PICK n : n = [sess[x] EXCEPT !.expired = TRUE]
                OBVIOUS
            <3>2. sess[x] \in Session /\ sess[x] # NULL
                BY <1>1, <2>2 DEF Usable, Typed
            <3>3. /\ n \in Session /\ n.user = sess[x].user /\ n.family = sess[x].family
                  /\ n.era = sess[x].era /\ n.raced = sess[x].raced
                  /\ n.rotated = sess[x].rotated /\ n.revoked = sess[x].revoked
                BY <3>1, <3>2 DEF Session
            <3>4. n # NULL /\ sess' = [sess EXCEPT ![x] = n]
                BY <2>2, <3>1, <3>3, RowAssumption
            <3> QED
                BY <1>1, <3>2, <3>3, <3>4 DEF Typed
        <2> QED
            BY <2>1, <2>2 DEF Expire
    <1>4. /\ code' \in [Requests -> Code \cup {NULL}]
          /\ \A k \in Requests: code'[k] # NULL <=> code[k] # NULL
          /\ \A k \in Requests: code[k] # NULL =>
                code'[k].user = code[k].user /\ code'[k].kind = code[k].kind /\ code'[k].uses = code[k].uses
        <2>1. CASE code' = code
            BY <1>1, <2>1 DEF Typed
        <2>2. CASE code[x] # NULL /\ code' = [code EXCEPT ![x].expired = TRUE]
            <3>1. PICK n : n = [code[x] EXCEPT !.expired = TRUE]
                OBVIOUS
            <3>2. code[x] \in Code /\ code[x] # NULL
                BY <1>1, <2>2 DEF Typed
            <3>3. n \in Code /\ n.user = code[x].user /\ n.kind = code[x].kind /\ n.uses = code[x].uses
                BY <3>1, <3>2 DEF Code
            <3>4. n # NULL /\ code' = [code EXCEPT ![x] = n]
                BY <2>2, <3>1, <3>3, RowAssumption
            <3> QED
                BY <1>1, <3>2, <3>3, <3>4 DEF Typed
        <2> QED
            BY <2>1, <2>2 DEF Expire
    <1>5. Typed'
        BY <1>1, <1>2, <1>3, <1>4 DEF Typed, avars
    <1>6. \A r \in Requests:
            /\ req[r].rows \subseteq Requests
            /\ req[r].op \in {"rotate", "replay"} => req[r].token \in Requests
            /\ req[r].op \in {"reset", "phone"} => req[r].code \in Requests
        BY <1>1 DEF Typed, Shape, Request
    <1>7. Made'
        BY <1>1, <1>2, <1>3, <1>4, <1>6 DEF Made, At
    <1>8. LinkInv' /\ ContextInv'
        BY <1>1, <1>2 DEF LinkInv, ContextInv, ContextIsAtomic, At, avars
    <1>9. CodeInv'
        BY <1>1, <1>2, <1>4, <1>6 DEF CodeInv, CodeIsUsedOnce
    <1>10. FamilyInv'
        BY <1>1, <1>2, <1>3, <1>6 DEF FamilyInv, Live
    <1>11. StaleInv'
        BY <1>1, <1>2, <1>3 DEF StaleInv, Setting, At
    <1>12. ReplayInv'
        <2>1. Replays' = Replays /\ \A q \in Replays: req[q].token \in Requests
            BY <1>2, <1>6 DEF Replays
        <2>2. \A q \in Replays: \A t \in req[q].rows \cup {req[q].token}:
                t \in Requests /\ sess[t] # NULL /\ sess[t].family = sess[req[q].token].family
            BY <1>1, <1>6, <2>1 DEF ReplayInv, Replays
        <2>3. \A y, z \in Replays: Began(y, z) => Began(y, z)'
            <3>1. \A y \in Replays: \A t \in req[y].rows \cup {req[y].token}: sess'[t].revoked = sess[t].revoked
                BY <1>3, <2>2
            <3> QED
                BY <1>2, <3>1 DEF Began
        <2>4. ASSUME NEW q \in Replays
              PROVE  /\ sess'[req'[q].token] # NULL /\ ~Live(req[q].token)'
                     /\ \A t \in req'[q].rows:
                            sess'[t] # NULL /\ sess'[t].family = sess'[req'[q].token].family
            <3>1. ~Live(req[q].token)
                BY <1>1 DEF ReplayInv
            <3>2. PICK t \in Requests : t = req[q].token
                BY <2>1
            <3>3. ~Live(t)'
                BY <1>3, <3>1, <3>2 DEF Live
            <3>4. ~Live(req[q].token)'
                BY <1>2, <3>2, <3>3 DEF Live
            <3> QED
                BY <1>2, <1>3, <2>2, <3>4
        <2>5. \A q \in Replays: sess'[req[q].token].family = sess[req[q].token].family
            BY <1>3, <2>2
        <2>6. ASSUME NEW S \in SUBSET Replays, S # {},
                     \A y, z \in S: sess'[req[y].token].family = sess'[req[z].token].family
              PROVE  \E z \in S: \A y \in S \ {z}: Began(y, z)'
            <3>1. PICK z \in S: \A y \in S \ {z}: Began(y, z)
                BY <1>1, <2>5, <2>6 DEF ReplayInv
            <3> QED
                BY <2>3, <3>1
        <2> QED
            BY <1>2, <2>1, <2>6, <2>4 DEF ReplayInv
    <1> QED
        BY <1>5, <1>7, <1>8, <1>9, <1>10, <1>11, <1>12 DEF AccessInv

-----------------------------------------------------------------------------
(* The steps that issue a token *)

\* Everything but the family of the new token, which is its own or that of the
\* token it replaces.
LEMMA IssuedParts ==
    ASSUME AccessInv, NEW r \in Requests, ~At(r, "done"), req' = [req EXCEPT ![r] = Done],
           UNCHANGED <<keycloak, changed, avars>>,
           NEW n \in Session, sess'[r] = n, ~n.revoked,
           n.family = r \/ At(n.family, "done"), user'[n.user] # NULL,
           sess' \in [Requests -> Session \cup {NULL}],
           \A t \in Requests \ {r}: sess'[t] # NULL <=> sess[t] # NULL,
           \A t \in Requests \ {r}: sess[t] # NULL =>
                /\ sess'[t].user = sess[t].user /\ sess'[t].family = sess[t].family
                /\ sess'[t].era = sess[t].era /\ sess'[t].raced = sess[t].raced
                /\ sess'[t].revoked = sess[t].revoked
                /\ Live(t)' => Live(t),
           user' \in [Accounts -> User \cup {NULL}], code' \in [Requests -> Code \cup {NULL}],
           \A a \in Accounts: user[a] # NULL => user'[a] # NULL,
           \A k \in Requests \ {r}: code'[k] = code[k],
           code'[r] # code[r] => user'[code'[r].user] # NULL /\ code'[r].uses = 0,
           n.era < changed[n.user] => n.raced,
           \A p \in Requests \ {r}: Setting(p) /\ req[p].user = n.user => n.raced
    PROVE  /\ Quiet(r) /\ req'[r] = Done
           /\ Typed' /\ Made' /\ LinkInv' /\ ContextInv' /\ CodeInv' /\ StaleInv' /\ ReplayInv'
    <1>1. Typed /\ Made /\ LinkInv /\ ContextInv /\ CodeInv /\ FamilyInv /\ StaleInv /\ ReplayInv
        BY DEF AccessInv
    <1>2. PICK new : new = Done
        OBVIOUS
    <1>3. /\ new \in Request /\ Shape(new) /\ new.op = "none" /\ new.stage = "done" /\ new.token = NULL
          /\ new.rows = {}
        BY <1>2, DoneIsARequest
    <1>4. /\ Quiet(r) /\ req'[r] = new
          /\ req' \in [Requests -> Request] /\ \A q \in Requests: Shape(req'[q])
        BY <1>1, <1>2, <1>3, Written
    <1>5. Typed'
        BY <1>1, <1>4 DEF Typed, avars
    <1>6. sess[r] = NULL /\ code[r] = NULL /\ n # NULL /\ n.family \in Requests /\ n.user \in Accounts
        BY <1>1, RowAssumption DEF Made, Session
    <1>7. req'[n.family].stage = "done"
        BY <1>3, <1>4, <1>6 DEF Quiet, At
    <1>8. Made'
        BY <1>1, <1>3, <1>4, <1>5, <1>6, <1>7, MadeFrame
    <1>9. LinkInv'
        BY <1>1, <1>3, <1>4, LinkFrame, AccessAssumption DEF avars
    <1>10. ContextInv'
        BY <1>1, <1>3, <1>4, <1>5, ContextFrame DEF avars
    <1>11. CodeInv'
        <2>1. \A q \in Requests: req'[q].op \in {"phone", "reset"} =>
                q # r /\ req'[q] = req[q] /\ req[q].code \in Requests \ {r}
            BY <1>1, <1>3, <1>4, <1>6 DEF Quiet, Typed, Shape, CodeInv
        <2>2. CodeIsUsedOnce'
            BY <1>1, <1>6 DEF CodeInv, CodeIsUsedOnce
        <2> QED
            BY <1>1, <2>1, <2>2 DEF CodeInv
    <1>12. StaleInv'
        <2>1. \A q \in Requests: req'[q].op \in {"login", "rotate"} =>
                /\ q # r /\ req[q].op = req'[q].op /\ req'[q].user = req[q].user
                /\ req'[q].era = req[q].era
                /\ req[q].raced => req'[q].raced
            BY <1>3, <1>4 DEF Quiet
        <2>2. \A q \in Requests: req'[q].op \in Setters => q # r /\ req'[q] = req[q]
            BY <1>3, <1>4 DEF Quiet, Setters
        <2>3. \A q \in Requests: Setting(q)' => q # r /\ Setting(q) /\ req'[q] = req[q]
            BY <2>2 DEF Setting, At
        <2>4. ASSUME NEW t \in Requests, sess'[t] # NULL, ~sess'[t].revoked,
                     sess'[t].era < changed'[sess'[t].user]
              PROVE  sess'[t].raced
            <3>1. CASE t = r
                BY <2>4, <3>1
            <3>2. CASE t # r
                BY <1>1, <2>4, <3>2 DEF StaleInv
            <3> QED
                BY <3>1, <3>2
        <2>5. \A q \in Requests:
                req'[q].op \in {"login", "rotate"} /\ req'[q].era < changed'[req'[q].user] => req'[q].raced
            BY <1>1, <2>1 DEF StaleInv
        <2>6. \A q \in Requests: req'[q].op \in Setters => ~keycloak'
            BY <1>1, <2>2 DEF StaleInv
        <2>7. ASSUME NEW p \in Requests, Setting(p)'
              PROVE  /\ \A t \in Requests:
                        sess'[t] # NULL /\ ~sess'[t].revoked /\ sess'[t].user = req'[p].user
                            => t \in req'[p].rows \/ sess'[t].raced
                     /\ \A q \in Requests:
                        req'[q].op \in {"login", "rotate"} /\ req'[q].user = req'[p].user => req'[q].raced
                     /\ \A q \in Requests \ {p}: Setting(q)' => req'[q].user # req'[p].user
            <3>1. p # r /\ Setting(p) /\ req'[p] = req[p]
                BY <2>3, <2>7
            <3>2. ASSUME NEW t \in Requests, sess'[t] # NULL, ~sess'[t].revoked, sess'[t].user = req'[p].user
                  PROVE  t \in req'[p].rows \/ sess'[t].raced
                <4>1. CASE t = r
                    BY <3>1, <3>2, <4>1
                <4>2. CASE t # r
                    BY <1>1, <3>1, <3>2, <4>2 DEF StaleInv
                <4> QED
                    BY <4>1, <4>2
            <3>3. \A q \in Requests:
                        req'[q].op \in {"login", "rotate"} /\ req'[q].user = req'[p].user => req'[q].raced
                BY <1>1, <2>1, <3>1 DEF StaleInv
            <3>4. \A q \in Requests \ {p}: Setting(q)' => req'[q].user # req'[p].user
                BY <1>1, <2>3, <3>1 DEF StaleInv
            <3> QED
                BY <3>2, <3>3, <3>4
        <2> QED
            BY <2>4, <2>5, <2>6, <2>7 DEF StaleInv
    <1>13. ReplayInv'
        <2>1. \A t \in Requests: sess[t] # NULL =>
                /\ sess'[t] # NULL /\ sess'[t].family = sess[t].family
                /\ sess[t].revoked => sess'[t].revoked
                /\ Live(t)' => Live(t)
            BY <1>6
        <2>2. \A q \in Requests \ {r}: req[q].op = "replay" /\ sess'[req[q].token].revoked
                => sess[req[q].token].revoked
            BY <1>1, <1>6 DEF ReplayInv, Replays, Typed, Shape
        <2> QED
            BY <1>1, <1>3, <1>4, <2>1, <2>2, ReplayFrame
    <1> QED
        BY <1>2, <1>4, <1>5, <1>8, <1>9, <1>10, <1>11, <1>12, <1>13

\* A token that begins its own family: no other token has it, for a family is
\* named after a request that has answered.
LEMMA NewFamily ==
    ASSUME AccessInv, NEW r \in Requests, ~At(r, "done"), req' = [req EXCEPT ![r] = Done],
           UNCHANGED <<keycloak, changed, avars>>,
           NEW n \in Session, sess' = [sess EXCEPT ![r] = n], ~n.revoked,
           n.family = r, user'[n.user] # NULL,
           user' \in [Accounts -> User \cup {NULL}], code' \in [Requests -> Code \cup {NULL}],
           \A a \in Accounts: user[a] # NULL => user'[a] # NULL,
           \A k \in Requests \ {r}: code'[k] = code[k],
           code'[r] # code[r] => user'[code'[r].user] # NULL /\ code'[r].uses = 0,
           n.era < changed[n.user] => n.raced,
           \A p \in Requests \ {r}: Setting(p) /\ req[p].user = n.user => n.raced
    PROVE  AccessInv'
    <1>1. Typed /\ Made /\ FamilyInv
        BY DEF AccessInv
    <1>2. /\ sess' \in [Requests -> Session \cup {NULL}] /\ sess'[r] = n
          /\ \A t \in Requests \ {r}: sess'[t] = sess[t]
        BY <1>1 DEF Typed
    <1>3. \A t \in Requests \ {r}: Live(t)' <=> Live(t)
        BY <1>2 DEF Live
    <1>4. /\ Quiet(r) /\ req'[r] = Done
          /\ Typed' /\ Made' /\ LinkInv' /\ ContextInv' /\ CodeInv' /\ StaleInv' /\ ReplayInv'
        BY <1>2, <1>3, IssuedParts
    <1>5. sess[r] = NULL /\ \A t \in Requests: sess[t] # NULL => sess[t].family # r
        BY <1>1 DEF Made
    <1>6. \A q \in Requests: req'[q].op = "rotate" =>
            /\ q # r /\ req[q].op = "rotate" /\ req'[q].token = req[q].token /\ req'[q].user = req[q].user
            /\ req[q].token \in Requests \ {r}
        BY <1>1, <1>4, <1>5, DoneIsARequest DEF Quiet, FamilyInv, Live, Typed, Shape
    <1>7. \A t, x \in Requests: Live(t)' /\ Live(x)' /\ sess'[t].family = sess'[x].family => t = x
        BY <1>1, <1>2, <1>3, <1>5 DEF FamilyInv, Live
    <1>8. \A q \in Requests: req[q].op = "rotate" => Live(req[q].token)
        BY <1>1 DEF FamilyInv
    <1>9. ASSUME NEW q \in Requests, req'[q].op = "rotate"
          PROVE  /\ sess'[req'[q].token] # NULL
                 /\ ~sess'[req'[q].token].rotated /\ ~sess'[req'[q].token].revoked
                 /\ sess'[req'[q].token].user = req'[q].user
                 /\ \A p \in Requests \ {q}: req'[p].op = "rotate" => req'[p].token # req'[q].token
        BY <1>1, <1>2, <1>6, <1>8, <1>9 DEF FamilyInv, Live
    <1>10. FamilyInv'
        BY <1>7, <1>9 DEF FamilyInv, Live
    <1> QED
        BY <1>4, <1>10 DEF AccessInv

LEMMA LoginKeeps ==
    ASSUME AccessInv, NEW r \in Requests, Login(r), UNCHANGED avars
    PROVE  AccessInv'
    <1>1. Typed /\ Made /\ StaleInv
        BY DEF AccessInv
    <1>2. /\ req[r].op = "login" /\ UserFree(req[r].user, r) /\ req' = [req EXCEPT ![r] = Done]
          /\ sess' = [sess EXCEPT ![r] =
                [NewSession(req[r].user, r, req[r].era) EXCEPT !.raced = req[r].raced]]
          /\ user' = [user EXCEPT ![req[r].user] = Rehash(r, @)]
          /\ UNCHANGED <<keycloak, code, changed>>
        BY DEF Login
    <1>3. PICK a \in Accounts : a = req[r].user
        BY <1>1, <1>2 DEF Typed, Shape
    <1>4. req[r].era \in Nat /\ req[r].raced \in BOOLEAN /\ req[r].pwd \in Passwords
        BY <1>1 DEF Typed, Request
    <1>5. PICK n : n = [NewSession(a, r, req[r].era) EXCEPT !.raced = req[r].raced]
        OBVIOUS
    <1>6. /\ n \in Session /\ n.user = a /\ n.family = r /\ n.era = req[r].era /\ n.raced = req[r].raced
          /\ ~n.revoked
        <2>1. PICK e \in Nat, b \in BOOLEAN : e = req[r].era /\ b = req[r].raced
            BY <1>4
        <2>2. n = [NewSession(a, r, e) EXCEPT !.raced = b]
            BY <1>5, <2>1, Zenon
        <2>3. n \in Session /\ n.user = a /\ n.family = r /\ n.era = e /\ n.raced = b /\ ~n.revoked
            BY <2>2 DEF NewSession, Session
        <2> QED
            BY <2>1, <2>3
    <1>7. sess' = [sess EXCEPT ![r] = n]
        BY <1>2, <1>3, <1>5
    <1>8. ~At(r, "done")
        BY <1>1, <1>2, BusyOrIdle
    <1>9. user[a] # NULL /\ user[a] \in User
        BY <1>1, <1>2, <1>3 DEF Made, Typed
    <1>10. Rehash(r, user[a]) \in User
        BY <1>4, <1>9 DEF Rehash, User
    <1>11. user' = [user EXCEPT ![a] = Rehash(r, user[a])]
        BY <1>2, <1>3
    <1>12. /\ user' \in [Accounts -> User \cup {NULL}] /\ user'[a] # NULL
           /\ \A b \in Accounts: user[b] # NULL => user'[b] # NULL
        BY <1>1, <1>10, <1>11, RowAssumption DEF Typed
    <1>13. code' \in [Requests -> Code \cup {NULL}]
        BY <1>1, <1>2 DEF Typed
    <1>14. n.era < changed[n.user] => n.raced
        BY <1>1, <1>2, <1>3, <1>6 DEF StaleInv
    <1>15. \A p \in Requests \ {r}: Setting(p) /\ req[p].user = n.user => n.raced
        BY <1>2, <1>3, <1>6 DEF Setting, UserFree, Setters
    <1> QED
        BY <1>2, <1>6, <1>7, <1>8, <1>12, <1>13, <1>14, <1>15, NewFamily

LEMMA RegisterKeeps ==
    ASSUME AccessInv, NEW r \in Requests, Register(r), UNCHANGED avars
    PROVE  AccessInv'
    <1>1. Typed /\ Made /\ StaleInv /\ CodeInv
        BY DEF AccessInv
    <1>2. /\ req[r].op = "register" /\ req' = [req EXCEPT ![r] = Done]
          /\ UNCHANGED <<keycloak, changed>>
        BY DEF Register
    <1>3. PICK a \in Accounts : a = req[r].user
        BY <1>1, <1>2 DEF Typed, Shape
    <1>4. ~At(r, "done")
        BY <1>1, <1>2, BusyOrIdle
    <1>5. CASE UNCHANGED <<user, sess, code>>
        <2>1. /\ user' \in [Accounts -> User \cup {NULL}] /\ code' \in [Requests -> Code \cup {NULL}]
              /\ CodeIsUsedOnce'
            BY <1>1, <1>5 DEF Typed, CodeInv, CodeIsUsedOnce
        <2>2. \A q \in Requests \ {r}: req[q].op = "reset" => code'[req[q].code].uses = 0
            BY <1>1, <1>5 DEF CodeInv
        <2> QED
            BY <1>2, <1>4, <1>5, <2>1, <2>2, CodeStepParts
    <1>6. CASE user[a] = NULL /\ ~UNCHANGED <<user, sess, code>>
        <2>1. PICK kind \in {"email", "phone"} :
                /\ user' = [user EXCEPT ![a] =
                    [role |-> req[r].role, pwd |-> r, legacy |-> FALSE, cv |-> 1,
                     mustSet |-> FALSE, verified |-> FALSE,
                     customer |-> req[r].role = "customer"]]
                /\ sess' = [sess EXCEPT ![r] = NewSession(a, r, changed[a])]
                /\ code' = [code EXCEPT ![r] =
                        [kind |-> kind, user |-> a, expired |-> FALSE, uses |-> 0]]
            BY <1>3, <1>6 DEF Register
        <2>2. PICK b \in BOOLEAN : b = (req[r].role = "customer")
            BY Zenon
        <2>3. PICK u : u = [role |-> req[r].role, pwd |-> r, legacy |-> FALSE, cv |-> 1,
                     mustSet |-> FALSE, verified |-> FALSE, customer |-> b]
            OBVIOUS
        <2>4. user' = [user EXCEPT ![a] = u]
            BY <2>1, <2>2, <2>3, Zenon
        <2>5. req[r].role \in UserRoles
            BY <1>1, <1>2 DEF Typed, Shape
        <2>6. u \in User /\ u # NULL
            <3>1. u \in User
                BY <2>3, <2>5 DEF User, Passwords
            <3> QED
                BY <3>1, RowAssumption
        <2>7. /\ user' \in [Accounts -> User \cup {NULL}] /\ user'[a] # NULL
              /\ \A x \in Accounts: user[x] # NULL => user'[x] # NULL
            BY <1>1, <2>4, <2>6 DEF Typed
        <2>8. PICK c : c = [kind |-> kind, user |-> a, expired |-> FALSE, uses |-> 0]
            OBVIOUS
        <2>9. c \in Code /\ c.user = a /\ c.uses = 0
            BY <2>8 DEF Code
        <2>10. /\ code' \in [Requests -> Code \cup {NULL}] /\ code'[r] = c
               /\ \A k \in Requests \ {r}: code'[k] = code[k]
            BY <1>1, <2>1, <2>8, <2>9 DEF Typed
        <2>11. changed[a] \in Nat
            BY <1>1 DEF Typed
        <2>12. PICK n : n = NewSession(a, r, changed[a])
            OBVIOUS
        <2>13. n \in Session /\ n.user = a /\ n.family = r /\ n.era = changed[a] /\ ~n.revoked
            BY <2>11, <2>12 DEF NewSession, Session
        <2>14. sess' = [sess EXCEPT ![r] = n]
            BY <2>1, <2>12
        <2>15. \A p \in Requests \ {r}: ~(Setting(p) /\ req[p].user = n.user)
            BY <1>1, <1>6, <2>13 DEF Setting, Made, Setters
        <2>16. ~(n.era < changed[n.user])
            BY <2>11, <2>13
        <2> QED
            BY <1>2, <1>4, <2>7, <2>9, <2>10, <2>13, <2>14, <2>15, <2>16, NewFamily
    <1> QED
        BY <1>3, <1>5, <1>6 DEF Register

LEMMA KeycloakCallbackKeeps ==
    ASSUME AccessInv, NEW r \in Requests, NEW a \in Accounts, NEW role \in UserRoles,
           KeycloakCallback(r, a, role), UNCHANGED avars
    PROVE  AccessInv'
    <1>1. Typed /\ Made /\ StaleInv
        BY DEF AccessInv
    <1>2. /\ At(r, "idle") /\ keycloak /\ user[a] # NULL
          /\ user' = [user EXCEPT ![a].verified = TRUE, ![a].role = role]
          /\ sess' = [sess EXCEPT ![r] = NewSession(a, r, changed[a])]
          /\ req' = [req EXCEPT ![r] = Done] /\ UNCHANGED <<keycloak, code, changed>>
        BY DEF KeycloakCallback, LinkIdentity
    <1>3. ~At(r, "done") /\ user[a] \in User /\ changed[a] \in Nat
        BY <1>1, <1>2 DEF At, Typed
    <1>4. PICK u : u = [user[a] EXCEPT !.verified = TRUE, !.role = role]
        OBVIOUS
    <1>5. u \in User /\ u # NULL
        BY <1>3, <1>4, RowAssumption DEF User
    <1>6. user' = [user EXCEPT ![a] = u]
        <2>1. PICK v : v = [user[a] EXCEPT !.verified = TRUE]
            OBVIOUS
        <2>2. v \in User /\ u = [v EXCEPT !.role = role]
            BY <1>3, <1>4, <2>1 DEF User
        <2>3. user' = [[user EXCEPT ![a] = v] EXCEPT ![a].role = role]
            BY <1>2, <2>1
        <2> QED
            BY <1>1, <2>2, <2>3 DEF Typed
    <1>7. /\ user' \in [Accounts -> User \cup {NULL}] /\ user'[a] # NULL
          /\ \A x \in Accounts: user[x] # NULL => user'[x] # NULL
        BY <1>1, <1>5, <1>6 DEF Typed
    <1>8. PICK n : n = NewSession(a, r, changed[a])
        OBVIOUS
    <1>9. n \in Session /\ n.user = a /\ n.family = r /\ n.era = changed[a] /\ ~n.revoked
        BY <1>3, <1>8 DEF NewSession, Session
    <1>10. sess' = [sess EXCEPT ![r] = n] /\ code' \in [Requests -> Code \cup {NULL}]
        BY <1>1, <1>2, <1>8 DEF Typed
    <1>11. \A p \in Requests \ {r}: ~Setting(p)
        BY <1>1, <1>2 DEF Setting, StaleInv
    <1>12. ~(n.era < changed[n.user])
        BY <1>3, <1>9
    <1> QED
        BY <1>2, <1>3, <1>7, <1>9, <1>10, <1>11, <1>12, NewFamily

\* The token is locked, so that nothing has spent it since it was read.
LEMMA RotateKeeps ==
    ASSUME AccessInv, NEW r \in Requests, Rotate(r), UNCHANGED avars
    PROVE  AccessInv'
    <1>1. Typed /\ Made /\ StaleInv /\ FamilyInv
        BY DEF AccessInv
    <1>2. /\ req[r].op = "rotate" /\ req' = [req EXCEPT ![r] = Done]
          /\ sess' = [sess EXCEPT
                ![req[r].token].rotated = TRUE,
                ![r] = [NewSession(req[r].user, sess[req[r].token].family, req[r].era)
                            EXCEPT !.raced = req[r].raced]]
          /\ UNCHANGED <<keycloak, user, code, changed>>
        BY DEF Rotate, CanRotate
    <1>3. PICK t \in Requests : t = req[r].token
        BY <1>1, <1>2 DEF Typed, Shape
    <1>4. PICK a \in Accounts : a = req[r].user
        BY <1>1, <1>2 DEF Typed, Shape
    <1>5. ~At(r, "done")
        BY <1>1, <1>2, BusyOrIdle
    <1>6. Live(t) /\ sess[t].user = a /\ \A q \in Requests \ {r}: req[q].op = "rotate" => req[q].token # t
        BY <1>1, <1>2, <1>3, <1>4 DEF FamilyInv
    <1>7. sess[t] \in Session /\ sess[t] # NULL /\ sess[t].family \in Requests /\ sess[r] = NULL /\ t # r
        BY <1>1, <1>5, <1>6 DEF Live, Typed, Session, Made
    <1>8. req[r].era \in Nat /\ req[r].raced \in BOOLEAN
        BY <1>1 DEF Typed, Request
    <1>9. PICK n : n = [NewSession(a, sess[t].family, req[r].era) EXCEPT !.raced = req[r].raced]
        OBVIOUS
    <1>10. /\ n \in Session /\ n.user = a /\ n.family = sess[t].family /\ n.era = req[r].era
           /\ n.raced = req[r].raced /\ ~n.revoked /\ ~n.rotated
        <2>1. PICK e \in Nat, b \in BOOLEAN : e = req[r].era /\ b = req[r].raced
            BY <1>8
        <2>2. PICK f \in Requests : f = sess[t].family
            BY <1>7
        <2>3. n = [NewSession(a, f, e) EXCEPT !.raced = b]
            BY <1>9, <2>1, <2>2, Zenon
        <2>4. /\ n \in Session /\ n.user = a /\ n.family = f /\ n.era = e /\ n.raced = b
              /\ ~n.revoked /\ ~n.rotated
            BY <2>3 DEF NewSession, Session
        <2> QED
            BY <2>1, <2>2, <2>4
    <1>11. PICK o : o = [sess[t] EXCEPT !.rotated = TRUE]
        OBVIOUS
    <1>12. /\ o \in Session /\ o.user = sess[t].user /\ o.family = sess[t].family /\ o.era = sess[t].era
           /\ o.raced = sess[t].raced /\ o.revoked = sess[t].revoked /\ o.rotated
        BY <1>7, <1>11 DEF Session
    <1>13. sess' = [sess EXCEPT ![t] = o, ![r] = n]
        BY <1>2, <1>3, <1>4, <1>9, <1>11
    <1>14. /\ sess' \in [Requests -> Session \cup {NULL}]
           /\ \A x \in Requests: sess'[x] = IF x = r THEN n ELSE IF x = t THEN o ELSE sess[x]
        BY <1>1, <1>7, <1>10, <1>12, <1>13 DEF Typed
    <1>15. n # NULL /\ o # NULL
        BY <1>10, <1>12, RowAssumption
    <1>16. \A x \in Requests \ {r}: Live(x)' <=> Live(x) /\ x # t
        BY <1>12, <1>14 DEF Live
    <1>17. At(n.family, "done") /\ user'[n.user] # NULL
        BY <1>1, <1>2, <1>6, <1>7, <1>10 DEF Made
    <1>18. /\ user' \in [Accounts -> User \cup {NULL}] /\ code' \in [Requests -> Code \cup {NULL}]
        BY <1>1, <1>2 DEF Typed
    <1>19. n.era < changed[n.user] => n.raced
        BY <1>1, <1>2, <1>4, <1>10 DEF StaleInv
    <1>20. \A p \in Requests \ {r}: Setting(p) /\ req[p].user = n.user => n.raced
        BY <1>1, <1>2, <1>4, <1>10 DEF StaleInv
    <1>21. /\ Quiet(r) /\ req'[r] = Done
           /\ Typed' /\ Made' /\ LinkInv' /\ ContextInv' /\ CodeInv' /\ StaleInv' /\ ReplayInv'
        <2>1. /\ sess'[r] = n
              /\ \A x \in Requests \ {r}: sess'[x] # NULL <=> sess[x] # NULL
              /\ \A x \in Requests \ {r}: sess[x] # NULL =>
                    /\ sess'[x].user = sess[x].user /\ sess'[x].family = sess[x].family
                    /\ sess'[x].era = sess[x].era /\ sess'[x].raced = sess[x].raced
                    /\ sess'[x].revoked = sess[x].revoked
                    /\ Live(x)' => Live(x)
            BY <1>7, <1>12, <1>14, <1>15, <1>16
        <2> QED
            BY <1>2, <1>5, <1>10, <1>14, <1>17, <1>18, <1>19, <1>20, <2>1, IssuedParts
    <1>22. \A q \in Requests: req'[q].op = "rotate" =>
            /\ q # r /\ req[q].op = "rotate" /\ req'[q].token = req[q].token /\ req'[q].user = req[q].user
            /\ req[q].token \in Requests /\ Live(req[q].token)
        BY <1>1, <1>21, DoneIsARequest DEF Quiet, FamilyInv, Typed, Shape
    <1>23. \A q \in Requests: req'[q].op = "rotate" => req[q].token # t /\ req[q].token # r
        BY <1>6, <1>7, <1>22 DEF Live
    <1>24. ASSUME NEW x \in Requests, NEW y \in Requests, Live(x)', Live(y)',
                  sess'[x].family = sess'[y].family
           PROVE  x = y
        <2>1. \A z \in Requests \ {r}: Live(z)' => sess'[z].family # n.family
            BY <1>1, <1>6, <1>10, <1>14, <1>16 DEF FamilyInv
        <2>2. CASE x = r \/ y = r
            BY <1>14, <1>24, <2>1, <2>2
        <2>3. CASE x # r /\ y # r
            BY <1>1, <1>14, <1>16, <1>24, <2>3 DEF FamilyInv
        <2> QED
            BY <2>2, <2>3
    <1>25. ASSUME NEW q \in Requests, req'[q].op = "rotate"
           PROVE  /\ sess'[req'[q].token] # NULL
                  /\ ~sess'[req'[q].token].rotated /\ ~sess'[req'[q].token].revoked
                  /\ sess'[req'[q].token].user = req'[q].user
                  /\ \A p \in Requests \ {q}: req'[p].op = "rotate" => req'[p].token # req'[q].token
        BY <1>1, <1>14, <1>22, <1>23, <1>25 DEF FamilyInv, Live
    <1>26. FamilyInv'
        BY <1>24, <1>25 DEF FamilyInv, Live
    <1> QED
        BY <1>21, <1>26 DEF AccessInv

-----------------------------------------------------------------------------
(* The steps of administration and of the identity provider *)

LEMMA AdminParts ==
    ASSUME AccessInv, NEW r \in Requests, NEW new \in Request, Shape(new), ~At(r, "done"),
           req' = [req EXCEPT ![r] = new], new.op \in {"none", "admin"},
           \A t \in new.rows: sess[t] # NULL,
           UNCHANGED <<keycloak, sess, code, changed>>,
           user' \in [Accounts -> User \cup {NULL}],
           \A a \in Accounts: user[a] # NULL => user'[a] # NULL,
           new.op = "admin" => user'[new.user] # NULL,
           roles' \in [Accounts -> SUBSET AccessRoles],
           link' \in [Subjects -> Accounts \cup {NULL}],
           view' \in [Requests -> SUBSET AccessRoles],
           during' \in [Requests -> SUBSET SUBSET AccessRoles]
    PROVE  /\ Quiet(r) /\ req'[r] = new /\ Typed' /\ Made' /\ CodeInv' /\ FamilyInv' /\ StaleInv' /\ ReplayInv'
           /\ (link' = link /\ (new.stage = "done" => new.token \notin Subjects)) => LinkInv'
    <1>1. Typed /\ Made /\ LinkInv /\ ContextInv /\ CodeInv /\ FamilyInv /\ StaleInv /\ ReplayInv
        BY DEF AccessInv
    <1>2. /\ Quiet(r) /\ req'[r] = new
          /\ req' \in [Requests -> Request] /\ \A q \in Requests: Shape(req'[q])
        BY <1>1, Written
    <1>3. Typed'
        BY <1>1, <1>2 DEF Typed
    <1>4. Made'
        BY <1>1, <1>2, <1>3, MadeFrame
    <1>5. (link' = link /\ (new.stage = "done" => new.token \notin Subjects)) => LinkInv'
        BY <1>1, <1>2, LinkFrame
    <1>6. CodeInv'
        BY <1>1, <1>2, CodeFrame
    <1>7. \A t \in Requests: Live(t)' <=> Live(t)
        BY DEF Live
    <1>8. FamilyInv'
        <2>1. \A q \in Requests \ {r}: req[q].op = "rotate" => Live(req[q].token)'
            BY <1>1, <1>2 DEF FamilyInv, Quiet, Live
        <2> QED
            BY <1>1, <1>2, <1>7, <2>1, FamilyFrame
    <1>9. StaleInv'
        BY <1>1, <1>2, <1>3, StaleFrame DEF Setters
    <1>10. ReplayInv'
        BY <1>1, <1>2, <1>7, ReplayFrame
    <1> QED
        BY <1>2, <1>3, <1>4, <1>5, <1>6, <1>8, <1>9, <1>10

\* The other requests whose context is read or was read
LEMMA OtherContexts ==
    ASSUME Typed, Typed', NEW r \in Requests, Quiet(r)
    PROVE  \A q \in Requests \ {r}:
            /\ At(q, "context")' => At(q, "context") /\ req'[q] = req[q]
            /\ At(q, "acting")' => At(q, "acting") /\ req'[q] = req[q]
    <1>1. \A q \in Requests: At(q, "context")' \/ At(q, "acting")' => req'[q].op = "admin"
        BY DEF At, Typed, Shape, InStage, Request
    <1>2. \A q \in Requests \ {r}: At(q, "context")' \/ At(q, "acting")' => req'[q] = req[q]
        BY <1>1 DEF Quiet
    <1> QED
        BY <1>2 DEF At

LEMMA BeginContextKeeps ==
    ASSUME AccessInv, NEW r \in Requests, NEW a \in Accounts, BeginContext(r, a)
    PROVE  AccessInv'
    <1>1. Typed /\ ContextInv
        BY DEF AccessInv
    <1>2. /\ At(r, "idle") /\ user[a] # NULL
          /\ UNCHANGED <<keycloak, user, sess, code, changed, profile, roles, link, view>>
        BY DEF BeginContext
    <1>3. PICK b \in BOOLEAN : b = (a \in profile)
        <2>1. CASE a \in profile
            <3>1. TRUE = (a \in profile)
                BY <2>1
            <3> QED
                BY <3>1, Zenon
        <2>2. CASE a \notin profile
            <3>1. FALSE = (a \in profile)
                BY <2>2
            <3> QED
                BY <3>1, Zenon
        <2> QED
            BY <2>1, <2>2, Zenon
    <1>4. PICK role \in UserRoles : role = user[a].role
        BY <1>1, <1>2 DEF Typed, User
    <1>5. PICK new : new = [Start("admin", "context", a) EXCEPT !.legacy = b, !.role = role]
        OBVIOUS
    <1>6. req' = [req EXCEPT ![r] = new]
        BY <1>3, <1>4, <1>5, Zenon DEF BeginContext
    <1>7. /\ new \in Request /\ new.op = "admin" /\ new.stage = "context" /\ new.user = a
          /\ new.legacy = b /\ new.role = role /\ new.rows = {}
        BY <1>5 DEF Start, Idle, Request, Ops, Stages, Passwords
    <1>8. Shape(new)
        BY <1>7 DEF Shape, InStage, Setters
    <1>9. PICK now \in SUBSET AccessRoles : now = Effective(a, profile, roles)
        BY <1>1, <1>4 DEF Typed, Effective, ContextRoles, DefaultRole, AccessRoles, UserRoles
    <1>10. /\ during' \in [Requests -> SUBSET SUBSET AccessRoles] /\ during'[r] = {now}
           /\ \A q \in Requests \ {r}: during'[q] = during[q]
        BY <1>1, <1>9 DEF Typed, BeginContext
    <1>11. /\ user' \in [Accounts -> User \cup {NULL}] /\ roles' \in [Accounts -> SUBSET AccessRoles]
           /\ link' \in [Subjects -> Accounts \cup {NULL}] /\ view' \in [Requests -> SUBSET AccessRoles]
        BY <1>1, <1>2 DEF Typed
    <1>12. ~At(r, "done")
        BY <1>2 DEF At
    <1>13. /\ Quiet(r) /\ req'[r] = new /\ Typed' /\ Made' /\ LinkInv' /\ CodeInv' /\ FamilyInv'
           /\ StaleInv' /\ ReplayInv'
        BY <1>2, <1>6, <1>7, <1>8, <1>10, <1>11, <1>12, AdminParts
    <1>14. \A q \in Requests \ {r}:
            /\ At(q, "context")' => At(q, "context") /\ req'[q] = req[q]
            /\ At(q, "acting")' => At(q, "acting") /\ req'[q] = req[q]
        BY <1>1, <1>13, OtherContexts
    <1>15. /\ roles[a] # {} => roles[a] \in during'[r]
           /\ roles[a] = {} /\ b => {} \in during'[r]
           /\ ~b => {role} \in during'[r]
        BY <1>1, <1>3, <1>4, <1>9, <1>10 DEF Effective, ContextRoles, DefaultRole, ContextInv
    <1>16. ~At(r, "acting")'
        BY <1>7, <1>13 DEF At
    <1>17. ContextInv'
        BY <1>1, <1>2, <1>7, <1>10, <1>13, <1>14, <1>15, <1>16 DEF ContextInv, ContextIsAtomic
    <1> QED
        BY <1>13, <1>17 DEF AccessInv

LEMMA ReadAssignmentsKeeps ==
    ASSUME AccessInv, NEW r \in Requests, ReadAssignments(r)
    PROVE  AccessInv'
    <1>1. Typed /\ Made /\ ContextInv
        BY DEF AccessInv
    <1>2. /\ req[r].op = "admin" /\ At(r, "context")
          /\ UNCHANGED <<keycloak, user, sess, code, changed, profile, roles, link, during>>
        BY DEF ReadAssignments
    <1>3. req[r].user \in Accounts /\ req[r].role \in UserRoles /\ req[r] \in Request /\ Shape(req[r])
        BY <1>1, <1>2 DEF Typed, Shape
    <1>4. PICK held \in SUBSET AccessRoles :
            held = ContextRoles(req[r].legacy, roles[req[r].user], req[r].role)
        BY <1>1, <1>3 DEF Typed, ContextRoles, DefaultRole, AccessRoles, UserRoles
    <1>5. held \in during[r]
        BY <1>1, <1>2, <1>4 DEF ContextInv, ContextRoles, DefaultRole
    <1>6. PICK new : new = IF CanManage(held) THEN [req[r] EXCEPT !.stage = "acting"] ELSE Done
        OBVIOUS
    <1>7. req' = [req EXCEPT ![r] = new] /\ view' = [view EXCEPT ![r] = held]
        BY <1>4, <1>6 DEF ReadAssignments
    <1>8. /\ new \in Request /\ Shape(new) /\ new.op \in {"none", "admin"} /\ new.stage \in {"acting", "done"}
          /\ new.op = "admin" => new.user = req[r].user
          /\ new.stage = "done" => new.token = NULL
          /\ new.rows \subseteq req[r].rows
        <2>1. CASE CanManage(held)
            <3>1. new = [req[r] EXCEPT !.stage = "acting"]
                BY <1>6, <2>1
            <3>2. /\ new \in Request /\ new.op = "admin" /\ new.stage = "acting" /\ new.rows = req[r].rows
                  /\ new.user = req[r].user /\ new.role = req[r].role
                BY <1>2, <1>3, <3>1 DEF Request, Stages
            <3>3. Shape(new)
                BY <1>3, <3>2 DEF Shape, InStage, Setters
            <3> QED
                BY <3>2, <3>3
        <2>2. CASE ~CanManage(held)
            BY <1>6, <2>2, DoneIsARequest
        <2> QED
            BY <2>1, <2>2
    <1>9. /\ view' \in [Requests -> SUBSET AccessRoles] /\ view'[r] = held
          /\ \A q \in Requests \ {r}: view'[q] = view[q]
        BY <1>1, <1>7 DEF Typed
    <1>10. /\ user' \in [Accounts -> User \cup {NULL}] /\ roles' \in [Accounts -> SUBSET AccessRoles]
           /\ link' \in [Subjects -> Accounts \cup {NULL}]
           /\ during' \in [Requests -> SUBSET SUBSET AccessRoles]
        BY <1>1, <1>2 DEF Typed
    <1>11. ~At(r, "done") /\ user[req[r].user] # NULL /\ \A t \in new.rows: sess[t] # NULL
        BY <1>1, <1>2, <1>8 DEF At, Made
    <1>12. /\ Quiet(r) /\ req'[r] = new /\ Typed' /\ Made' /\ LinkInv' /\ CodeInv' /\ FamilyInv'
           /\ StaleInv' /\ ReplayInv'
        <2>1. new.op = "admin" => user'[new.user] # NULL
            BY <1>2, <1>8, <1>11
        <2>2. new.stage = "done" => new.token \notin Subjects
            BY <1>8, AccessAssumption
        <2>3. UNCHANGED <<keycloak, sess, code, changed>> /\ link' = link
            BY <1>2
        <2>4. \A b \in Accounts: user[b] # NULL => user'[b] # NULL
            BY <1>2
        <2> QED
            BY <1>7, <1>8, <1>9, <1>10, <1>11, <2>1, <2>2, <2>3, <2>4, AdminParts
    <1>13. \A q \in Requests \ {r}:
            /\ At(q, "context")' => At(q, "context") /\ req'[q] = req[q]
            /\ At(q, "acting")' => At(q, "acting") /\ req'[q] = req[q]
        BY <1>1, <1>12, OtherContexts
    <1>14. ~At(r, "context")'
        BY <1>8, <1>12 DEF At
    <1>15. ContextInv'
        BY <1>1, <1>2, <1>5, <1>9, <1>13, <1>14 DEF ContextInv, ContextIsAtomic
    <1> QED
        BY <1>12, <1>15 DEF AccessInv

\* A request that ends: its context is of no interest any more.
LEMMA AdminEnds ==
    ASSUME AccessInv, NEW r \in Requests, req[r].op = "admin", At(r, "acting"),
           req' = [req EXCEPT ![r] = Done],
           UNCHANGED <<keycloak, sess, code, changed, link, view>>,
           user' \in [Accounts -> User \cup {NULL}],
           \A a \in Accounts: user[a] # NULL => user'[a] # NULL,
           roles' \in [Accounts -> SUBSET AccessRoles],
           during' \in [Requests -> SUBSET SUBSET AccessRoles],
           \A a \in Accounts: roles'[a] # {} => a \in profile',
           \A q \in Requests: At(q, "context") =>
                /\ during[q] \subseteq during'[q]
                /\ \/ roles'[req[q].user] = roles[req[q].user]
                   \/ roles'[req[q].user] \in during'[q],
           \A q \in Requests: At(q, "acting") => during'[q] = during[q]
    PROVE  AccessInv'
    <1>1. Typed /\ ContextInv
        BY DEF AccessInv
    <1>2. PICK new : new = Done
        OBVIOUS
    <1>3. /\ new \in Request /\ Shape(new) /\ new.op = "none" /\ new.stage = "done" /\ new.token = NULL
          /\ new.rows = {}
        BY <1>2, DoneIsARequest
    <1>4. ~At(r, "done")
        BY DEF At
    <1>5. link' \in [Subjects -> Accounts \cup {NULL}] /\ view' \in [Requests -> SUBSET AccessRoles]
        BY <1>1 DEF Typed
    <1>6. /\ Quiet(r) /\ req'[r] = new /\ Typed' /\ Made' /\ LinkInv' /\ CodeInv' /\ FamilyInv'
          /\ StaleInv' /\ ReplayInv'
        BY <1>2, <1>3, <1>4, <1>5, AdminParts, AccessAssumption
    <1>7. \A q \in Requests \ {r}:
            /\ At(q, "context")' => At(q, "context") /\ req'[q] = req[q]
            /\ At(q, "acting")' => At(q, "acting") /\ req'[q] = req[q]
        BY <1>1, <1>6, OtherContexts
    <1>8. ~At(r, "context")' /\ ~At(r, "acting")'
        BY <1>3, <1>6 DEF At
    <1>9. ASSUME NEW q \in Requests, At(q, "context")'
          PROVE  /\ roles'[req'[q].user] # {} => roles'[req'[q].user] \in during'[q]
                 /\ roles'[req'[q].user] = {} /\ req'[q].legacy => {} \in during'[q]
                 /\ ~req'[q].legacy => {req'[q].role} \in during'[q]
        <2>1. q # r /\ At(q, "context") /\ req'[q] = req[q]
            BY <1>7, <1>8, <1>9
        <2>2. PICK held : held = roles[req[q].user]
            OBVIOUS
        <2>3. /\ held # {} => held \in during[q]
              /\ held = {} /\ req[q].legacy => {} \in during[q]
              /\ ~req[q].legacy => {req[q].role} \in during[q]
            BY <1>1, <2>1, <2>2 DEF ContextInv
        <2>4. during[q] \subseteq during'[q] /\ (roles'[req[q].user] = held \/ roles'[req[q].user] \in during'[q])
            BY <2>1, <2>2
        <2> QED
            BY <2>1, <2>3, <2>4
    <1>10. ContextInv'
        BY <1>1, <1>7, <1>8, <1>9 DEF ContextInv, ContextIsAtomic
    <1> QED
        BY <1>6, <1>10 DEF AccessInv

LEMMA ReplaceAssignmentsKeeps ==
    ASSUME AccessInv, NEW r \in Requests, NEW a \in Accounts,
           NEW granted \in SUBSET {"admin", "superadmin"}, ReplaceAssignments(r, a, granted)
    PROVE  AccessInv'
    <1>1. Typed /\ Made /\ ContextInv
        BY DEF AccessInv
    <1>2. /\ req[r].op = "admin" /\ At(r, "acting") /\ req' = [req EXCEPT ![r] = Done]
          /\ profile' = profile \cup {a} /\ roles' = [roles EXCEPT ![a] = granted]
          /\ during' = Observe(profile', roles')
          /\ UNCHANGED <<keycloak, user, sess, code, changed, link, view>>
        BY DEF ReplaceAssignments
    <1>3. user' \in [Accounts -> User \cup {NULL}] /\ roles' \in [Accounts -> SUBSET AccessRoles]
        BY <1>1, <1>2 DEF Typed, AccessRoles
    <1>4. \A b \in Accounts: roles'[b] # {} => b \in profile'
        BY <1>1, <1>2 DEF ContextInv, Typed
    <1>5. \A q \in Requests: during'[q] =
            IF At(q, "context") THEN during[q] \cup {Effective(req[q].user, profile', roles')} ELSE during[q]
        BY <1>2 DEF Observe
    <1>6. \A q \in Requests: At(q, "context") =>
            req[q].user \in Accounts /\ user[req[q].user] # NULL
        BY <1>1 DEF Typed, Shape, InStage, Made, At
    <1>7. \A q \in Requests: At(q, "context") => Effective(req[q].user, profile', roles') \in SUBSET AccessRoles
        <2>1. \A q \in Requests: At(q, "context") => user[req[q].user].role \in UserRoles
            BY <1>1, <1>6 DEF Typed, User
        <2> QED
            BY <1>3, <1>6, <2>1 DEF Effective, ContextRoles, DefaultRole, AccessRoles, UserRoles
    <1>8. during' \in [Requests -> SUBSET SUBSET AccessRoles]
        <2>1. ASSUME NEW q \in Requests
              PROVE  during'[q] \in SUBSET SUBSET AccessRoles
            <3>1. during[q] \in SUBSET SUBSET AccessRoles
                BY <1>1 DEF Typed
            <3>2. CASE At(q, "context")
                <4>1. PICK now \in SUBSET AccessRoles : now = Effective(req[q].user, profile', roles')
                    BY <1>7, <3>2
                <4>2. during'[q] = during[q] \cup {now}
                    BY <1>5, <3>2, <4>1
                <4> QED
                    BY <3>1, <4>2
            <3>3. CASE ~At(q, "context")
                BY <1>5, <3>1, <3>3
            <3> QED
                BY <3>2, <3>3
        <2>2. during' = [q \in Requests |-> during'[q]]
            BY <1>2 DEF Observe
        <2> QED
            BY <2>1, <2>2
    <1>9. \A q \in Requests: At(q, "context") =>
            \/ roles'[req[q].user] = roles[req[q].user]
            \/ roles'[req[q].user] \in during'[q]
        <2>1. ASSUME NEW q \in Requests, At(q, "context"), req[q].user = a
              PROVE  Effective(req[q].user, profile', roles') = roles'[req[q].user]
            BY <1>2, <2>1 DEF Effective, ContextRoles
        <2> QED
            BY <1>1, <1>2, <1>5, <1>6, <2>1 DEF Typed
    <1>10. \A q \in Requests: At(q, "acting") => during'[q] = during[q]
        BY <1>5 DEF At
    <1> QED
        BY <1>2, <1>3, <1>4, <1>5, <1>8, <1>9, <1>10, AdminEnds

LEMMA ProvisionKeeps ==
    ASSUME AccessInv, NEW r \in Requests, NEW a \in Accounts,
           NEW role \in {"operations", "admin"}, Provision(r, a, role)
    PROVE  AccessInv'
    <1>1. Typed /\ Made /\ ContextInv
        BY DEF AccessInv
    <1>2. /\ req[r].op = "admin" /\ At(r, "acting") /\ req' = [req EXCEPT ![r] = Done]
          /\ UNCHANGED <<keycloak, sess, code, changed, link, view, during>>
        BY DEF Provision
    <1>3. during' \in [Requests -> SUBSET SUBSET AccessRoles]
        BY <1>1, <1>2 DEF Typed
    <1>4. CASE UNCHANGED <<user, profile, roles>>
        <2>1. user' \in [Accounts -> User \cup {NULL}] /\ roles' \in [Accounts -> SUBSET AccessRoles]
            BY <1>1, <1>4 DEF Typed
        <2>2. \A b \in Accounts: roles'[b] # {} => b \in profile'
            BY <1>1, <1>4 DEF ContextInv
        <2> QED
            BY <1>2, <1>3, <1>4, <2>1, <2>2, AdminEnds
    <1>5. CASE /\ user[a] = NULL
               /\ user' = [user EXCEPT ![a] =
                    [role |-> role, pwd |-> NULL, legacy |-> FALSE, cv |-> 1, mustSet |-> FALSE,
                     verified |-> keycloak, customer |-> FALSE]]
               /\ profile' = profile \cup {a}
               /\ roles' = [roles EXCEPT ![a] = {role}]
        <2>1. PICK b \in BOOLEAN : b = keycloak
            BY <1>1 DEF Typed
        <2>2. PICK u : u = [role |-> role, pwd |-> NULL, legacy |-> FALSE, cv |-> 1, mustSet |-> FALSE,
                     verified |-> b, customer |-> FALSE]
            OBVIOUS
        <2>3. u \in User
            BY <2>2 DEF User, Passwords, UserRoles
        <2>4. user' = [user EXCEPT ![a] = u]
            BY <1>5, <2>1, <2>2, Zenon
        <2>5. user' \in [Accounts -> User \cup {NULL}] /\ \A x \in Accounts: user[x] # NULL => user'[x] # NULL
            BY <1>1, <2>3, <2>4, RowAssumption DEF Typed
        <2>6. roles' \in [Accounts -> SUBSET AccessRoles] /\ \A x \in Accounts: roles'[x] # {} => x \in profile'
            BY <1>1, <1>5 DEF Typed, AccessRoles, ContextInv
        <2>7. \A q \in Requests: At(q, "context") =>
                req[q].user \in Accounts /\ user[req[q].user] # NULL
            BY <1>1 DEF Typed, Shape, InStage, Made, At
        <2>8. \A q \in Requests: At(q, "context") => roles'[req[q].user] = roles[req[q].user]
            BY <1>1, <1>5, <2>7 DEF Typed
        <2> QED
            BY <1>2, <1>3, <2>5, <2>6, <2>8, AdminEnds
    <1> QED
        BY <1>4, <1>5 DEF Provision

LEMMA LinkKeeps ==
    ASSUME AccessInv, NEW r \in Requests, Link(r)
    PROVE  AccessInv'
    <1>1. Typed /\ LinkInv /\ ContextInv
        BY DEF AccessInv
    <1>2. req[r].op = "link" /\ UNCHANGED <<keycloak, user, sess, code, changed, profile, roles, view, during>>
        BY DEF Link
    <1>3. PICK s \in Subjects, a \in Accounts : s = req[r].token /\ a = req[r].user
        BY <1>1, <1>2 DEF Typed, Shape
    <1>4. PICK free \in BOOLEAN : free = (link[s] = NULL /\ LinkedTo(a) = {})
        BY Zenon
    <1>5. PICK u \in Accounts \cup {NULL} : u = IF free THEN a ELSE AfterConflict(s, a)
        BY DEF AfterConflict
    <1>6. PICK new : new = [Done EXCEPT !.user = u, !.token = s]
        OBVIOUS
    <1>7. link' = IF free THEN [link EXCEPT ![s] = a] ELSE link
        BY <1>3, <1>4, Zenon DEF Link
    <1>8. req' = [req EXCEPT ![r] = new]
        BY <1>3, <1>4, <1>5, <1>6, Zenon DEF Link
    <1>9. /\ new \in Request /\ new.op = "none" /\ new.stage = "done" /\ new.user = u /\ new.token = s
          /\ new.rows = {}
        BY <1>6 DEF Done, Idle, Request, Ops, Stages, Passwords
    <1>10. Shape(new)
        BY <1>9 DEF Shape, InStage, Setters
    <1>11. ~At(r, "done")
        BY <1>1, <1>2, BusyOrIdle
    <1>12. /\ user' \in [Accounts -> User \cup {NULL}] /\ roles' \in [Accounts -> SUBSET AccessRoles]
           /\ link' \in [Subjects -> Accounts \cup {NULL}] /\ view' \in [Requests -> SUBSET AccessRoles]
           /\ during' \in [Requests -> SUBSET SUBSET AccessRoles]
        BY <1>1, <1>2, <1>7 DEF Typed
    <1>13. /\ Quiet(r) /\ req'[r] = new /\ Typed' /\ Made' /\ CodeInv' /\ FamilyInv'
           /\ StaleInv' /\ ReplayInv'
        BY <1>2, <1>8, <1>9, <1>10, <1>11, <1>12, AdminParts
    <1>14. ContextInv'
        BY <1>1, <1>2, <1>9, <1>13, ContextFrame
    <1>15. LinkInv'
        <2>1. \A q \in Requests \ {r}: At(q, "done")' => req'[q] = req[q] /\ At(q, "done")
            BY <1>1, <1>13 DEF Quiet, At, Typed, Shape, InStage, Request
        <2>2. \A z \in Subjects: link[z] # NULL => link'[z] = link[z]
            BY <1>1, <1>4, <1>7 DEF Typed
        <2>3. u # NULL => link'[s] = u
            <3>1. CASE free
                BY <1>1, <1>5, <1>7, <3>1 DEF Typed
            <3>2. CASE ~free
                BY <1>5, <1>7, <3>2 DEF AfterConflict
            <3> QED
                BY <3>1, <3>2
        <2>4. ASSUME NEW q \in Requests, At(q, "done")', req'[q].token \in Subjects, req'[q].user # NULL
              PROVE  link'[req'[q].token] = req'[q].user
            BY <1>1, <1>9, <1>13, <2>1, <2>2, <2>3, <2>4 DEF LinkInv
        <2>5. ASSUME NEW y \in Subjects, NEW z \in Subjects, link'[y] # NULL, link'[y] = link'[z]
              PROVE  y = z
            <3>1. CASE free
                <4>1. \A x \in Subjects: link[x] # a
                    BY <1>4, <3>1 DEF LinkedTo
                <4>2. \A x \in Subjects: link'[x] = IF x = s THEN a ELSE link[x]
                    BY <1>1, <1>7, <3>1 DEF Typed
                <4> QED
                    BY <1>1, <2>5, <4>1, <4>2 DEF LinkInv
            <3>2. CASE ~free
                BY <1>1, <1>7, <2>5, <3>2 DEF LinkInv
            <3> QED
                BY <3>1, <3>2
        <2> QED
            BY <2>4, <2>5 DEF LinkInv, At
    <1> QED
        BY <1>13, <1>14, <1>15 DEF AccessInv

-----------------------------------------------------------------------------
LEMMA InitHolds ==
    ASSUME Init
    PROVE  AccessInv
    <1>1. /\ keycloak \in BOOLEAN /\ code = [r \in Requests |-> NULL]
          /\ req = [r \in Requests |-> IF r \in {First, Second} THEN Done ELSE Idle]
          /\ changed = [a \in Accounts |-> 0] /\ roles = [a \in Accounts |-> {}]
          /\ link = [s \in Subjects |-> NULL] /\ view = [r \in Requests |-> {}]
          /\ during = [r \in Requests |-> {}]
        BY DEF Init
    <1>2. PICK legacy \in BOOLEAN, mustSet \in BOOLEAN :
            user = [a \in Accounts |->
                IF a = Root
                THEN [role |-> "admin", pwd |-> NULL, legacy |-> legacy, cv |-> 1,
                      mustSet |-> mustSet, verified |-> FALSE, customer |-> FALSE]
                ELSE NULL]
        BY DEF Init
    <1>3. user \in [Accounts -> User \cup {NULL}] /\ user[Root] # NULL
        <2>1. PICK u : u = [role |-> "admin", pwd |-> NULL, legacy |-> legacy, cv |-> 1,
                      mustSet |-> mustSet, verified |-> FALSE, customer |-> FALSE]
            OBVIOUS
        <2>2. u \in User
            BY <2>1 DEF User, Passwords, UserRoles
        <2> QED
            BY <1>2, <2>1, <2>2, RowAssumption, AccessAssumption
    <1>4. PICK one, two :
            /\ one = [NewSession(Root, First, 0) EXCEPT !.rotated = TRUE] /\ two = NewSession(Root, First, 0)
            /\ sess = [r \in Requests |-> IF r = First THEN one ELSE IF r = Second THEN two ELSE NULL]
        <2>1. PICK one, two :
                one = [NewSession(Root, First, 0) EXCEPT !.rotated = TRUE] /\ two = NewSession(Root, First, 0)
            OBVIOUS
        <2>2. sess = [r \in Requests |->
                CASE r = First -> one [] r = Second -> two [] OTHER -> NULL]
            <3>1. sess = [r \in Requests |->
                    CASE r = First  -> [NewSession(Root, First, 0) EXCEPT !.rotated = TRUE]
                      [] r = Second -> NewSession(Root, First, 0)
                      [] OTHER      -> NULL]
                BY Zenon DEF Init
            <3> QED
                BY <2>1, <3>1
        <2>3. \A r \in Requests: sess[r] = IF r = First THEN one ELSE IF r = Second THEN two ELSE NULL
            BY <2>2, AccessAssumption
        <2> QED
            BY <2>1, <2>2, <2>3
    <1>5. /\ one \in Session /\ one.user = Root /\ one.family = First /\ one.rotated /\ one.era = 0
          /\ two \in Session /\ two.user = Root /\ two.family = First /\ two.era = 0
        BY <1>4, AccessAssumption DEF NewSession, Session
    <1>6. /\ sess \in [Requests -> Session \cup {NULL}]
          /\ \A t \in Requests: sess[t] # NULL =>
                /\ t \in {First, Second} /\ sess[t].user = Root /\ sess[t].family = First /\ sess[t].era = 0
                /\ t # Second => sess[t].rotated
        BY <1>4, <1>5, AccessAssumption
    <1>7. \A r \in Requests: req[r] \in Request /\ Shape(req[r]) /\ req[r] \in {Idle, Done}
        BY <1>1, DoneIsARequest
    <1>8. \A r \in Requests: /\ req[r].op = "none" /\ req[r].stage \in {"idle", "done"}
                             /\ req[r].token = NULL /\ req[r].rows = {}
        BY <1>7 DEF Idle, Done
    <1>9. Typed
        BY <1>1, <1>3, <1>6, <1>7 DEF Typed
    <1>10. At(First, "done") /\ At(Second, "done")
        BY <1>1, AccessAssumption, DoneIsARequest DEF At
    <1>11. Made
        BY <1>1, <1>3, <1>6, <1>8, <1>10 DEF Made
    <1>12. LinkInv /\ ContextInv
        BY <1>1, <1>8, AccessAssumption DEF LinkInv, ContextInv, ContextIsAtomic, At
    <1>13. CodeInv
        BY <1>1, <1>8 DEF CodeInv, CodeIsUsedOnce
    <1>14. FamilyInv
        BY <1>6, <1>8 DEF FamilyInv, Live
    <1>15. StaleInv
        BY <1>1, <1>6, <1>8, AccessAssumption DEF StaleInv, Setting, Setters
    <1>16. ReplayInv
        <2>1. Replays = {}
            BY <1>8 DEF Replays
        <2> QED
            BY <2>1 DEF ReplayInv
    <1> QED
        BY <1>9, <1>11, <1>12, <1>13, <1>14, <1>15, <1>16 DEF AccessInv

LEMMA StutterKeeps ==
    ASSUME AccessInv, UNCHANGED vars
    PROVE  AccessInv'
    <1>1. UNCHANGED <<keycloak, user, sess, code, req, changed, profile, roles, link, view, during>>
        BY DEF vars, svars, avars
    <1>2. Typed'
        BY <1>1 DEF AccessInv, Typed
    <1>3. Made' /\ LinkInv' /\ ContextInv' /\ CodeInv'
        BY <1>1 DEF AccessInv, Made, LinkInv, ContextInv, ContextIsAtomic, CodeInv, CodeIsUsedOnce, At
    <1>4. FamilyInv' /\ StaleInv'
        BY <1>1 DEF AccessInv, FamilyInv, Live, StaleInv, Setting, At
    <1>5. ReplayInv'
        <2>1. Replays' = Replays
            BY <1>1 DEF Replays
        <2>2. \A x, y \in Replays: Began(x, y) => Began(x, y)'
            BY <1>1 DEF Began
        <2>3. ReplayInv
            BY DEF AccessInv
        <2>4. ASSUME NEW S \in SUBSET Replays, S # {},
                     \A x, y \in S: sess[req[x].token].family = sess[req[y].token].family
              PROVE  \E y \in S: \A x \in S \ {y}: Began(x, y)'
            BY <2>2, <2>3, <2>4 DEF ReplayInv
        <2>5. \A r \in Replays:
                /\ sess[req[r].token] # NULL /\ ~Live(req[r].token)'
                /\ \A t \in req[r].rows: sess[t] # NULL /\ sess[t].family = sess[req[r].token].family
            BY <1>1, <2>3 DEF ReplayInv, Live
        <2> QED
            BY <1>1, <2>1, <2>4, <2>5 DEF ReplayInv
    <1> QED
        BY <1>2, <1>3, <1>4, <1>5 DEF AccessInv

LEMMA NextKeeps ==
    ASSUME AccessInv, [Next]_vars
    PROVE  AccessInv'
    <1>1. CASE AccountRoutes /\ UNCHANGED avars
        <2>1. PICK r \in Requests, a \in Accounts :
                \/ \E role \in {"customer", "vendor_admin"}: BeginRegister(r, a, role)
                \/ BeginLogin(r, a) \/ LogoutAll(r, a) \/ BeginChange(r, a) \/ BeginSet(r, a)
                \/ \E kind \in {"reset", "email"}: IssueCode(r, a, kind)
            BY <1>1 DEF AccountRoutes
        <2> QED
            BY <1>1, <2>1, BeginRegisterKeeps, BeginLoginKeeps, LogoutAllKeeps, BeginChangeKeeps,
               IssueCodeKeeps
    <1>2. CASE TokenRoutes /\ UNCHANGED avars
        <2>1. PICK r \in Requests, t \in Requests :
                \/ RefreshReplay(r, t) \/ RefreshExpired(r, t) \/ BeginRotate(r, t) \/ Logout(r, t)
                \/ VerifyEmail(r, t) \/ BeginVerifyPhone(r, t) \/ BeginReset(r, t)
            BY <1>2 DEF TokenRoutes
        <2> QED
            BY <1>2, <2>1, RefreshReplayKeeps, RefreshExpiredKeeps, BeginRotateKeeps, VerifyEmailKeeps,
               BeginVerifyPhoneKeeps, BeginResetKeeps
    <1>3. CASE Proceed /\ UNCHANGED avars
        <2>1. PICK r \in Requests :
                \/ Register(r) \/ Login(r) \/ Rotate(r) \/ VerifyPhone(r) \/ StartRevoking(r)
                \/ FinishRevoking(r) \/ DeadlockAbort(r) \/ Expire(r)
            BY <1>3 DEF Proceed
        <2> QED
            BY <1>3, <2>1, RegisterKeeps, LoginKeeps, RotateKeeps, VerifyPhoneKeeps, StartRevokingKeeps,
               FinishRevokingKeeps, DeadlockAbortKeeps, ExpireKeeps
    <1>4. CASE \E r \in Requests, a \in Accounts:
                \/ \E role \in UserRoles:
                    /\ KeycloakCallback(r, a, role)
                    /\ UNCHANGED <<profile, roles, link, view, during>>
                \/ BeginContext(r, a)
                \/ \E granted \in SUBSET {"admin", "superadmin"}: ReplaceAssignments(r, a, granted)
                \/ \E role \in {"operations", "admin"}: Provision(r, a, role)
                \/ \E s \in Subjects: BeginLink(r, s, a)
        <2>1. PICK r \in Requests, a \in Accounts :
                \/ \E role \in UserRoles: KeycloakCallback(r, a, role) /\ UNCHANGED avars
                \/ BeginContext(r, a)
                \/ \E granted \in SUBSET {"admin", "superadmin"}: ReplaceAssignments(r, a, granted)
                \/ \E role \in {"operations", "admin"}: Provision(r, a, role)
                \/ \E s \in Subjects: BeginLink(r, s, a)
            BY <1>4 DEF avars
        <2> QED
            BY <2>1, KeycloakCallbackKeeps, BeginContextKeeps, ReplaceAssignmentsKeeps, ProvisionKeeps,
               BeginLinkKeeps
    <1>5. CASE \E r \in Requests: ReadAssignments(r) \/ Link(r)
        BY <1>5, ReadAssignmentsKeeps, LinkKeeps
    <1>6. CASE UNCHANGED vars
        BY <1>6, StutterKeeps
    <1> QED
        BY <1>1, <1>2, <1>3, <1>4, <1>5, <1>6 DEF Next

LEMMA AccessIsInvariant ==
    Spec => []AccessInv
    <1>1. Init => AccessInv
        BY InitHolds
    <1>2. AccessInv /\ [Next]_vars => AccessInv'
        BY NextKeeps
    <1> QED
        BY <1>1, <1>2, PTL DEF Spec

-----------------------------------------------------------------------------
(***************************************************************************)
(* What may be used once is used once.  refresh() and the codes lock their *)
(* row before they look at it: however many requests present one token or  *)
(* code, a family never has two tokens that can be exchanged, and a code   *)
(* for a password or an e-mail is used at most once.                       *)
(***************************************************************************)
THEOREM UsedOnce ==
    Spec => []SingleUse
    <1>1. AccessInv => SingleUse
        BY DEF AccessInv, SingleUse, OneUsablePerFamily, FamilyInv, CodeInv, Usable, Live
    <1> QED
        BY <1>1, AccessIsInvariant, PTL

(***************************************************************************)
(* _set_password revokes every session of the account: a token issued      *)
(* under the old password survives only if the request that issued it      *)
(* overlapped the change.                                                  *)
(***************************************************************************)
THEOREM OldTokensEnd ==
    Spec => []StaleIsRaced
    <1>1. AccessInv => StaleIsRaced
        BY DEF AccessInv, StaleIsRaced, StaleInv, Usable
    <1> QED
        BY <1>1, AccessIsInvariant, PTL

(***************************************************************************)
(* AccessService.context reads the profile and then the assignments: the   *)
(* roles it gives a request are roles that the account had meanwhile.      *)
(***************************************************************************)
THEOREM ContextIsReal ==
    Spec => []ContextIsAtomic
    <1>1. AccessInv => ContextIsAtomic
        BY DEF AccessInv, ContextInv
    <1> QED
        BY <1>1, AccessIsInvariant, PTL

(***************************************************************************)
(* _keycloak_user answers for the account that the subject is linked to,   *)
(* and an account has one subject, for any number of subjects whose first  *)
(* requests run at the same time.                                          *)
(***************************************************************************)
THEOREM SubjectsAreApart ==
    Spec => []ActsAsLinked
    <1>1. ASSUME AccessInv
          PROVE  ActsAsLinked
        <2>1. LinkInv
            BY <1>1 DEF AccessInv
        <2>2. ASSUME NEW a \in Accounts
              PROVE  Cardinality(LinkedTo(a)) <= 1
            <3>1. CASE LinkedTo(a) = {}
                BY <3>1, FS_EmptySet
            <3>2. CASE LinkedTo(a) # {}
                <4>1. PICK s \in Subjects : s \in LinkedTo(a)
                    BY <3>2 DEF LinkedTo
                <4>2. LinkedTo(a) = {s}
                    BY <2>1, <4>1, SessionsAssumption DEF LinkInv, LinkedTo
                <4> QED
                    BY <4>2, FS_Singleton
            <3> QED
                BY <3>1, <3>2
        <2> QED
            BY <2>1, <2>2 DEF ActsAsLinked, LinkInv
    <1> QED
        BY <1>1, AccessIsInvariant, PTL

\* Two replays that wait for each other's rows
LEMMA TwoWait ==
    ASSUME NEW x \in Replays, NEW y \in Replays, x # y, At(y, "revoking"),
           req[y].token \in req[x].rows,
           req[x].token \in req[y].rows \/ \E t \in req[x].rows: t \in req[y].rows
    PROVE  Deadlocked(x)
    BY DEF Deadlocked, LockedTokens, Replays

(***************************************************************************)
(* Neither a refresh nor a login is ever in a circle of waiting requests.  *)
(* The requests that lock a token and revoke its family wait for each      *)
(* other, and PostgreSQL only aborts a request that waits for one which    *)
(* waits for it.  That is enough: however many replays of one family run,  *)
(* no longer circle of them leaves all of them waiting.  The last of them  *)
(* to begin saw the tokens the others wait for, unless they are revoked,   *)
(* so that the one it waits for waits for it too, or for an older one that *)
(* it is deadlocked with.                                                  *)
(***************************************************************************)
THEOREM WaitsEnd ==
    Spec => []NeverStuck
    <1>1. ASSUME AccessInv, ~NeverStuck
          PROVE  FALSE
        <2>1. Typed /\ ReplayInv
            BY <1>1 DEF AccessInv
        <2>2. PICK r \in Requests : At(r, "revoking")
            BY <1>1 DEF NeverStuck
        <2>3. \A x \in Requests: req[x].op # "rotate" /\ (At(x, "revoking") => Waits(x) /\ ~Deadlocked(x))
            BY <1>1 DEF NeverStuck, CanRotate
        <2>4. \A x \in Replays: x \in Requests /\ At(x, "revoking") /\ Waits(x) /\ ~Deadlocked(x)
            BY <2>1, <2>3 DEF Replays, Typed, Shape, InStage, At
        <2>5. \A x \in Requests: Waits(x) =>
                \E z \in Replays \ {x}: req[z].token \in req[x].rows
            BY <2>3 DEF Waits, TokenFree, LockedTokens, Replays
        <2>6. PICK q \in Replays : TRUE
            BY <2>2, <2>3, <2>5
        <2>7. PICK S : S = {x \in Replays: sess[req[x].token].family = sess[req[q].token].family}
            OBVIOUS
        <2>8. PICK y \in S : \A x \in S \ {y}: Began(x, y)
            <3>1. S \in SUBSET Replays /\ S # {}
                BY <2>6, <2>7
            <3>2. \A x, z \in S: sess[req[x].token].family = sess[req[z].token].family
                BY <2>7
            <3> QED
                BY <2>1, <3>1, <3>2 DEF ReplayInv
        <2>9. ASSUME NEW x \in S
              PROVE  \E z \in S \ {x}: req[z].token \in req[x].rows
            <3>1. PICK z \in Replays \ {x} : req[z].token \in req[x].rows
                BY <2>4, <2>5, <2>7
            <3>2. sess[req[z].token].family = sess[req[x].token].family
                BY <2>1, <2>7, <3>1 DEF ReplayInv
            <3> QED
                BY <2>7, <3>1, <3>2
        <2>10. PICK z \in S \ {y} : req[z].token \in req[y].rows
            BY <2>9
        <2>11. PICK w \in S \ {z} : req[w].token \in req[z].rows
            BY <2>9, <2>10
        <2>12. Began(z, y) /\ ~sess[req[z].token].revoked
            BY <2>8, <2>10 DEF Began
        <2>13. /\ y \in Replays /\ z \in Replays /\ w \in Replays /\ y # z /\ w # z
               /\ At(z, "revoking") /\ At(w, "revoking") /\ ~Deadlocked(y) /\ ~Deadlocked(z)
            BY <2>4, <2>7, <2>8, <2>10, <2>11
        <2>14. CASE w = y
            BY <2>10, <2>11, <2>13, <2>14, TwoWait
        <2>15. CASE ~sess[req[w].token].revoked
            <3>1. req[w].token \in req[y].rows
                BY <2>11, <2>12, <2>15 DEF Began
            <3> QED
                BY <2>10, <2>11, <2>13, <3>1, TwoWait
        <2>16. CASE w # y /\ sess[req[w].token].revoked
            <3>1. PICK T : T = {z, w}
                OBVIOUS
            <3>2. T \in SUBSET Replays /\ T # {} /\ T \subseteq S
                BY <2>10, <2>11, <2>13, <3>1
            <3>3. \A a, b \in T: sess[req[a].token].family = sess[req[b].token].family
                BY <2>7, <3>2
            <3>4. PICK l \in T : \A x \in T \ {l}: Began(x, l)
                BY <2>1, <3>2, <3>3 DEF ReplayInv
            <3>5. ~Began(w, z)
                BY <2>11, <2>16 DEF Began
            <3>6. Began(z, w)
                BY <2>13, <3>1, <3>4, <3>5
            <3>7. req[z].token \in req[w].rows
                BY <2>12, <3>6 DEF Began
            <3> QED
                BY <2>11, <2>13, <3>7, TwoWait
        <2> QED
            BY <2>14, <2>15, <2>16
    <1>2. AccessInv => NeverStuck
        BY <1>1
    <1> QED
        BY <1>2, AccessIsInvariant, PTL
=============================================================================
