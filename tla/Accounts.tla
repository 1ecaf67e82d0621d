------------------------------ MODULE Accounts ------------------------------
(***************************************************************************)
(* The accounts, the identities of the sign-in provider bound to them, and *)
(* the requests that write them: the sign-in callback, the onboarding and  *)
(* profile forms, and the admin's user page.  Every request is a walk      *)
(* through short transactions of repository/users.py; nothing holds the    *)
(* account between two of them.                                            *)
(*                                                                         *)
(* A session is a signed cookie with a user name and nothing in the        *)
(* database: it outlives the account.                                      *)
(***************************************************************************)
EXTENDS Integers

CONSTANTS Request,     \* request threads
          Subject,     \* identities at the provider
          Root,        \* the account of the first superadmin
          Chosen,      \* user names an admin may give
          Uuid,        \* user names made by first sign-ins
          NoAccount,
          Email, NoEmail,
          SuperEmail,  \* settings.auth0_superadmin_email
          Base,        \* display names before a counter is appended
          MaxSuffix,   \* bound: the counter
          MaxOps       \* bound: requests started

Account == {Root} \cup Chosen \cup Uuid

ASSUME AccountsAssumption ==
    /\ NoAccount \notin Account
    /\ NoEmail \notin Email
    /\ SuperEmail \in Email
    /\ MaxSuffix \in Nat \ {0}
    /\ MaxOps \in Nat

Name  == Base \X (1..MaxSuffix)
Role  == {"superadmin", "admin", "user"}
Adult == {"unset", "yes", "no"}
Row   == [name : Name, email : Email \cup {NoEmail}, adult : Adult,
          gate : BOOLEAN, active : BOOLEAN, role : Role]

VARIABLES
    users,       \* the users table: a function from the accounts that exist
    identities,  \* auth_identities: the account of a subject
    cookies,     \* accounts that some browser has a session cookie of
    at, loc,     \* where each request stands and what it has read
    ops,         \* requests started
    supers,      \* history: accounts made superadmin by a superadmin's request
                 \* or by a sign-in with the configured e-mail address, and
                 \* neither demoted nor removed since
    overtaken,   \* history: sign-ins that carried a superadmin's row when its
                 \* account was demoted or removed
    regained,    \* history: accounts that such a sign-in has written since
    racy         \* history: subjects that had two sign-ins at once

db   == <<users, identities, cookies>>
made == <<supers, overtaken, regained>>
vars == <<db, at, loc, ops, made, racy>>

Live == DOMAIN users

Put(a, row) == [x \in Live \cup {a} |-> IF x = a THEN row ELSE users[x]]

\* The unique indexes on lower(display_name) and lower(email).
Unique(a, row) ==
    \A x \in Live \ {a} :
        /\ users[x].name # row.name
        /\ row.email # NoEmail => users[x].email # row.email

Onboarded(row) == row.gate /\ row.adult # "unset"

\* get_user_role: a missing or deactivated user is a guest.
RoleOf(a) == IF a \in Live /\ users[a].active THEN users[a].role ELSE "guest"

Privileged(role) == role \in {"superadmin", "admin"}

Under18(a) == a \in Live /\ users[a].adult = "no"

-----------------------------------------------------------------------------
(* Requests.                                                               *)

SignIns == [kind : {"signIn"}, subject : Subject, email : Email \cup {NoEmail}, base : Base]

Answers == [kind : {"onboard", "profile"}, actor : Account, name : Name, adult : {"yes", "no"}]

\* What else the form for a new account says is chosen where it is stored.
AdminForms ==
    [kind : {"create"}, actor : Account, target : Chosen, role : Role]
    \cup [kind : {"setRole"}, actor : Account, target : Account, role : Role]
    \cup [kind : {"setActive"}, actor : Account, target : Account, active : BOOLEAN]
    \cup [kind : {"remove"}, actor : Account, target : Account]

\* q the request, via how its account was found, acc the account, seen its row
\* as read, row the row to write, k the name counter, role the actor's role.
NoLoc == [q |-> [kind |-> "none"], via |-> "none", acc |-> NoAccount,
          seen |-> <<>>, row |-> <<>>, k |-> 1, role |-> "guest"]

RootRow(name) == [name |-> name, email |-> SuperEmail, adult |-> "yes",
                  gate |-> TRUE, active |-> TRUE, role |-> "superadmin"]

\* The first superadmin has signed in and answered the onboarding form.
Init ==
    /\ \E b \in Base, s \in Subject :
          /\ users = [x \in {Root} |-> RootRow(<<b, 1>>)]
          /\ identities = [x \in Subject |-> IF x = s THEN Root ELSE NoAccount]
    /\ cookies = {Root}
    /\ at = [r \in Request |-> "idle"]
    /\ loc = [r \in Request |-> NoLoc]
    /\ ops = 0
    /\ supers = {Root}
    /\ overtaken = {}
    /\ regained = {}
    /\ racy = {}

To(r, step, l) ==
    /\ at' = [at EXCEPT ![r] = step]
    /\ loc' = [loc EXCEPT ![r] = l]

Stop(r) == To(r, "idle", NoLoc)

History == UNCHANGED <<ops, made, racy>>
Reads   == UNCHANGED db /\ History

Start(r, q, step) ==
    /\ at[r] = "idle"
    /\ ops < MaxOps
    /\ ops' = ops + 1
    /\ To(r, step, [NoLoc EXCEPT !.q = q])
    /\ overtaken' = overtaken \ {r}
    /\ UNCHANGED <<db, supers, regained>>

\* The callback, with what the provider says of the subject.
BeginSignIn(r, q) ==
    /\ Start(r, q, "identity")
    /\ racy' = racy \cup {s \in {q.subject} :
                  \E x \in Request : loc[x].q.kind = "signIn" /\ loc[x].q.subject = s}

\* The onboarding form is behind the under-age middleware, the profile is not.
BeginAnswer(r, q) ==
    /\ q.actor \in cookies
    /\ q.kind = "onboard" => ~Under18(q.actor)
    /\ Start(r, q, IF q.kind = "onboard" THEN "required" ELSE "answer")
    /\ UNCHANGED racy

\* The user page is behind the middleware and the guard of the admin paths.
BeginAdmin(r, q) ==
    /\ q.actor \in cookies
    /\ ~Under18(q.actor)
    /\ Privileged(RoleOf(q.actor))
    /\ Start(r, q, "actor")
    /\ UNCHANGED racy

-----------------------------------------------------------------------------
(* Sign-in: get_or_create_user_for_auth0_identity.                         *)

\* Seeded fault for Bound: an e-mail address is looked up before the identity.
FaultBound(q) == IF q.email = NoEmail THEN identities[q.subject] ELSE NoAccount

Bound(q) == identities[q.subject]

LookUpIdentity(r) ==
    LET a == Bound(loc[r].q) IN
    /\ at[r] = "identity"
    /\ IF a = NoAccount THEN To(r, "byEmail", loc[r])
                        ELSE To(r, "user", [loc[r] EXCEPT !.acc = a])
    /\ Reads

\* Seeded fault for Resumed: age_gate_completed and is_over_18 are left to the
\* defaults of upsert_user.
FaultResumed(q, row) ==
    [row EXCEPT !.active = TRUE, !.gate = TRUE, !.adult = "unset",
                !.role = IF q.email = SuperEmail THEN "superadmin" ELSE @]

\* The row a sign-in is going to write over the one it read: active again, and
\* superadmin if the address is the configured one.
Resumed(q, row) ==
    [row EXCEPT !.active = TRUE,
                !.role = IF q.email = SuperEmail THEN "superadmin" ELSE @]

\* Where a sign-in goes on with an account: a display name is suggested until
\* onboarding has settled one.
Adopt(r, a, via, next) ==
    To(r, IF Onboarded(users[a]) THEN next ELSE "name",
       [loc[r] EXCEPT !.via = via, !.acc = a, !.seen = users[a],
                      !.row = Resumed(loc[r].q, users[a])])

LookUpUser(r) ==
    /\ at[r] = "user"
    /\ IF loc[r].acc \in Live THEN Adopt(r, loc[r].acc, "identity", "emailFree")
                              ELSE To(r, "byEmail", loc[r])
    /\ Reads

\* _local_user_by_email; without a match a new account under a fresh UUID.
LookUpEmail(r) ==
    LET q     == loc[r].q
        owner == {a \in Live : q.email # NoEmail /\ users[a].email = q.email}
        role  == IF q.email = SuperEmail THEN "superadmin" ELSE "user"
        inUse == Live \cup cookies \cup {loc[x].acc : x \in Request}
    IN  /\ at[r] = "byEmail"
        /\ \/ \E a \in owner : Adopt(r, a, "email", "write")
           \/ /\ owner = {}
              /\ \E a \in Uuid \ inUse :
                    To(r, "name", [loc[r] EXCEPT !.via = "new", !.acc = a,
                         !.row = [name |-> <<q.base, 1>>, email |-> q.email, adult |-> "unset",
                                  gate |-> FALSE, active |-> TRUE, role |-> role]])
        /\ Reads

\* _next_available_display_name: one look-up per candidate.
NextName(r) ==
    LET l         == loc[r]
        candidate == <<l.q.base, l.k>>
    IN  /\ at[r] = "name"
        /\ IF \E a \in Live \ {l.acc} : users[a].name = candidate
           THEN l.k < MaxSuffix /\ To(r, "name", [l EXCEPT !.k = @ + 1])
           ELSE To(r, IF l.via = "identity" THEN "emailFree" ELSE "write",
                   [l EXCEPT !.row.name = candidate])
        /\ Reads

\* A known identity brings a changed address along, unless somebody has it.
CheckEmail(r) ==
    LET l    == loc[r]
        want == IF l.q.email = NoEmail THEN l.seen.email ELSE l.q.email
        free == \A a \in Live \ {l.acc} : want # NoEmail => users[a].email # want
    IN  /\ at[r] = "emailFree"
        /\ To(r, "write", [l EXCEPT !.row.email = IF free THEN want ELSE l.seen.email])
        /\ Reads

\* upsert_user or create_user.  Their own checks of the name and the address
\* come before and only end the request earlier (Fail).
StoreUser(r) ==
    LET l == loc[r] IN
    /\ at[r] = "write"
    /\ Unique(l.acc, l.row)
    /\ users' = Put(l.acc, l.row)
    /\ supers' = supers \cup {a \in {l.acc} : l.q.email = SuperEmail}
    /\ regained' = regained \cup {a \in {l.acc} : r \in overtaken}
    /\ To(r, "bind", l)
    /\ UNCHANGED <<identities, cookies, ops, overtaken, racy>>

\* IntegrityError.
StoreUserFails(r) ==
    /\ at[r] = "write"
    /\ ~Unique(loc[r].acc, loc[r].row)
    /\ Stop(r)
    /\ Reads

\* Seeded fault for Bind: the account is stored once more, with the identity.
FaultBind(r) ==
    LET l == loc[r] IN
    /\ at[r] = "bind"
    /\ Stop(r)
    /\ IF l.acc \in Live
       THEN /\ users' = IF Unique(l.acc, l.row) THEN Put(l.acc, l.row) ELSE users
            /\ identities' = [identities EXCEPT ![l.q.subject] = l.acc]
            /\ cookies' = cookies \cup {l.acc}
       ELSE UNCHANGED db
    /\ History

\* upsert_auth_identity, whose foreign key needs the account, and the cookie.
Bind(r) ==
    LET l == loc[r] IN
    /\ at[r] = "bind"
    /\ Stop(r)
    /\ IF l.acc \in Live
       THEN /\ identities' = [identities EXCEPT ![l.q.subject] = l.acc]
            /\ cookies' = cookies \cup {l.acc}
            /\ UNCHANGED users
       ELSE UNCHANGED db
    /\ History

-----------------------------------------------------------------------------
(* Onboarding and profile.                                                 *)

\* user_requires_onboarding.
CheckRequired(r) ==
    LET a == loc[r].q.actor IN
    /\ at[r] = "required"
    /\ IF a \in Live /\ ~Onboarded(users[a]) THEN To(r, "answer", loc[r]) ELSE Stop(r)
    /\ Reads

\* Seeded fault for Answerable: the WHERE clause names the user only.
FaultAnswerable(q) == q.actor \in Live

\* The WHERE clause of update_user_onboarding and update_user_profile_details.
Answerable(q) ==
    q.actor \in Live /\ (q.kind = "onboard" => ~Onboarded(users[q.actor]))

Answer(r) ==
    LET q   == loc[r].q
        row == [users[q.actor] EXCEPT !.name = q.name, !.adult = q.adult, !.gate = TRUE]
    IN  /\ at[r] = "answer"
        /\ users' = IF Answerable(q) /\ Unique(q.actor, row) THEN Put(q.actor, row) ELSE users
        /\ Stop(r)
        /\ UNCHANGED <<identities, cookies>>
        /\ History

-----------------------------------------------------------------------------
(* The admin's user page.                                                  *)

\* What AdminUsersPolicy allows with the roles that were read; target is
\* "guest" for a creation.
AdminUsersPolicy(q, role, target) ==
    /\ Privileged(role)
    /\ role # "superadmin" =>
          /\ target # "superadmin"
          /\ q.kind \in {"create", "setRole"} => q.role # "superadmin"
    /\ q.kind \in {"setActive", "remove"} => q.target # q.actor

ReadActor(r) ==
    LET role == RoleOf(loc[r].q.actor) IN
    /\ at[r] = "actor"
    /\ IF loc[r].q.kind = "create" /\ AdminUsersPolicy(loc[r].q, role, "guest")
       THEN To(r, "apply", [loc[r] EXCEPT !.role = role])
       ELSE IF loc[r].q.kind # "create" /\ Privileged(role)
            THEN To(r, "target", [loc[r] EXCEPT !.role = role])
            ELSE Stop(r)
    /\ Reads

ReadTarget(r) ==
    LET q == loc[r].q IN
    /\ at[r] = "target"
    /\ IF q.target \in Live /\ AdminUsersPolicy(q, loc[r].role, users[q.target].role)
       THEN To(r, "apply", loc[r])
       ELSE Stop(r)
    /\ Reads

\* The rows that the form can create.
Created(role) == [name : Name, email : Email \cup {NoEmail}, adult : {"unset"},
                  gate : {TRUE}, active : BOOLEAN, role : {role}]

\* The table after create_user, set_user_role, set_user_active, delete_user.
Applied(q) ==
    IF q.kind = "create"
    THEN {IF q.target \notin Live /\ Unique(q.target, row) THEN Put(q.target, row) ELSE users :
              row \in Created(q.role)}
    ELSE IF q.target \notin Live THEN {users}
    ELSE CASE q.kind = "setRole"   -> {[users EXCEPT ![q.target].role = q.role]}
           [] q.kind = "setActive" -> {[users EXCEPT ![q.target].active = q.active]}
           [] q.kind = "remove"    -> {[x \in Live \ {q.target} |-> users[x]]}

\* Seeded fault for Cascaded: identities have no foreign key.
FaultCascaded(table) == identities

\* ON DELETE CASCADE of auth_identities.
Cascaded(table) ==
    [s \in Subject |-> IF identities[s] \in DOMAIN table THEN identities[s] ELSE NoAccount]

\* A request by a superadmin that makes the target one, a request that takes
\* the role from it, and the sign-ins that are about to write it back.
Grants(q, role) == q.kind \in {"create", "setRole"} /\ q.role = "superadmin" /\ role = "superadmin"

Takes(q) == q.kind = "remove" \/ (q.kind = "setRole" /\ q.role # "superadmin")

WritingBack(a) ==
    {x \in Request : /\ at[x] \in {"name", "emailFree", "write"}
                     /\ loc[x].acc = a
                     /\ loc[x].row.role = "superadmin"}

Apply(r) ==
    LET q    == loc[r].q
        lost == {a \in {q.target} : Takes(q)}
    IN
    /\ at[r] = "apply"
    /\ users' \in Applied(q)
    /\ identities' = Cascaded(users')
    /\ supers' = (supers \ lost)
                    \cup {a \in {q.target} : Grants(q, loc[r].role) /\ users' # users}
    /\ overtaken' = overtaken \cup UNION {WritingBack(a) : a \in lost}
    /\ regained' = regained \ lost
    /\ Stop(r)
    /\ UNCHANGED <<cookies, ops, racy>>

\* A check of upsert_user refuses, a transaction gives up or the process dies.
Fail(r) ==
    /\ at[r] # "idle"
    /\ Stop(r)
    /\ Reads

Step(r) ==
    \/ LookUpIdentity(r) \/ LookUpUser(r) \/ LookUpEmail(r) \/ NextName(r) \/ CheckEmail(r)
    \/ StoreUser(r) \/ StoreUserFails(r) \/ Bind(r)
    \/ CheckRequired(r) \/ Answer(r)
    \/ ReadActor(r) \/ ReadTarget(r) \/ Apply(r)
    \/ Fail(r)

Done == ops = MaxOps /\ (\A r \in Request : at[r] = "idle") /\ UNCHANGED vars

Next ==
    \/ \E r \in Request : \E q \in SignIns : BeginSignIn(r, q)
    \/ \E r \in Request : \E q \in Answers : BeginAnswer(r, q)
    \/ \E r \in Request : \E q \in AdminForms : BeginAdmin(r, q)
    \/ \E r \in Request : Step(r)
    \/ Done

Spec == Init /\ [][Next]_vars

-----------------------------------------------------------------------------
(* Properties.                                                             *)

\* The tables have their shape, and an identity belongs to a user that exists.
TypeOK ==
    /\ Live \subseteq Account
    /\ \A a \in Live : users[a] \in Row
    /\ \A s \in Subject : identities[s] \in Live \cup {NoAccount}
    /\ cookies \subseteq Account
    /\ ops \in 0..MaxOps

\* However sign-ins, removals, new accounts of the same name and changes of
\* role overlap, a superadmin has been made one by a superadmin or by a sign-in
\* with the configured address, and has kept the role since: no demotion,
\* removal or re-creation is undone.  There is one way around it, and it is the
\* only one: a sign-in that has read a superadmin's account writes the role it
\* read, together with the account if that is gone, whatever an admin has done
\* to the account in between.
SuperadminsAreMade ==
    \A a \in Live : users[a].role = "superadmin" => a \in supers \cup regained

\* A sign-in that finds the account as it read it changes nothing that its
\* user or an admin has settled: the age answer, a name given at onboarding,
\* the role (except for the configured address).  And the onboarding form, sent
\* twice or after the profile form, does not change an answer.
AnswersStand ==
    [][\A r \in Request :
          LET a == loc[r].acc
              b == loc[r].q.actor
          IN  /\ at[r] = "write" /\ at'[r] = "bind" /\ a \in Live /\ users[a] = loc[r].seen =>
                    /\ users'[a].adult = users[a].adult
                    /\ users'[a].gate = users[a].gate
                    /\ Onboarded(users[a]) => users'[a].name = users[a].name
                    /\ loc[r].q.email # SuperEmail => users'[a].role = users[a].role
              /\ at[r] = "answer" /\ at'[r] = "idle" /\ loc[r].q.kind = "onboard" /\ b \in Live =>
                    (Onboarded(users[b]) => users'[b] = users[b])]_vars

\* Whoever signs in again reaches the account of the first time for as long as
\* it exists, whatever address the provider reports by then and whatever other
\* requests do, unless two sign-ins of the same subject overlap.
ReturnsToOwnAccount ==
    [][\A s \in Subject \ racy :
          identities[s] # NoAccount /\ identities'[s] # identities[s]
              => identities[s] \notin DOMAIN users']_vars
=============================================================================
