---------------------------- MODULE AccountsProofs ----------------------------
(***************************************************************************)
(* Four facts about the accounts of Accounts, for any number of requests,  *)
(* identities and accounts: the tables keep their shape, a superadmin has  *)
(* been made one and not lost the role since (but for the sign-ins that a  *)
(* demotion overtakes), a sign-in leaves what the user has answered, and   *)
(* an identity returns to its account.  All of them rest on one invariant, *)
(* which says what a request may carry from what it has read to the step   *)
(* that writes it.                                                         *)
(***************************************************************************)
EXTENDS Accounts, TLAPS

SignInSteps  == {"identity", "user", "byEmail", "name", "emailFree", "write", "bind"}
AnswerSteps  == {"required", "answer"}
AdminSteps   == {"actor", "target", "apply"}
At           == {"idle"} \cup SignInSteps \cup AnswerSteps \cup AdminSteps

\* The steps at which a sign-in has an account, and those at which it has the
\* row it is going to write.
WithAccount == {"user", "name", "emailFree", "write", "bind"}
WithRow     == {"name", "emailFree", "write"}

Query == SignIns \cup Answers \cup AdminForms \cup {[kind |-> "none"]}
Via   == {"none", "identity", "email", "new"}
Local == [q : Query, via : Via, acc : Account \cup {NoAccount}, seen : Row \cup {<<>>},
          row : Row \cup {<<>>}, k : 1..MaxSuffix, role : Role \cup {"guest"}]

TypeInv ==
    /\ Live \subseteq Account
    /\ \A a \in Live : users[a] \in Row
    /\ identities \in [Subject -> Account \cup {NoAccount}]
    /\ \A s \in Subject : identities[s] \in Live \cup {NoAccount}
    /\ cookies \subseteq Account
    /\ ops \in 0..MaxOps
    /\ at \in [Request -> At]
    /\ loc \in [Request -> Local]

\* The row keeps what the row it was made from says of the answers, a settled
\* name and, but for the configured address, the role.
Keeps(row, l) ==
    /\ row.adult = l.seen.adult
    /\ row.gate = l.seen.gate
    /\ Onboarded(l.seen) => row.name = l.seen.name
    /\ l.q.email # SuperEmail => row.role = l.seen.role

\* What a request carries at a step, whatever the tables say by then.
Carries(step, l) ==
    /\ step \in SignInSteps => l.q \in SignIns
    /\ step \in AnswerSteps => l.q \in Answers
    /\ step \in AdminSteps => l.q \in AdminForms
    /\ step \in WithAccount => l.acc \in Account
    /\ step \in WithRow => l.row \in Row
    /\ step \in WithRow /\ l.via # "new" =>
          /\ l.seen \in Row
          /\ Keeps(l.row, l)
          /\ step = "name" => ~Onboarded(l.seen)
    /\ step \in {"identity", "user", "byEmail"} \/ (step \in WithRow /\ l.via = "new") =>
          l.seen = <<>>
    /\ step = "emailFree" => l.via = "identity"
    /\ step = "apply" /\ l.q.kind \in {"create", "setRole"} /\ l.q.role = "superadmin" =>
          l.role = "superadmin"

\* A row to be written says superadmin only of an account that is counted as
\* one, of one that signs in with the configured address, or in a request that
\* a demotion or a removal has overtaken.
Entitled(r, step, l) ==
    step \in WithRow /\ l.row.role = "superadmin" =>
        l.acc \in supers \cup regained \/ l.q.email = SuperEmail \/ r \in overtaken

SignsIn(r, s) == loc[r].q.kind = "signIn" /\ loc[r].q.subject = s

\* An identity that never signed in twice at once has one request, ...
OneAtATime ==
    \A s \in Subject \ racy : \A x, y \in Request :
        SignsIn(x, s) /\ SignsIn(y, s) => x = y

\* ... which is going to bind it to the account it has already, if it has one.
Homeward ==
    \A s \in Subject \ racy : \A r \in Request :
        SignsIn(r, s) =>
            /\ at[r] = "byEmail" => identities[s] = NoAccount
            /\ at[r] \in WithAccount => identities[s] \in {NoAccount, loc[r].acc}

RequestsCarry == \A r \in Request : Carries(at[r], loc[r]) /\ Entitled(r, at[r], loc[r])

IInv == TypeInv /\ RequestsCarry /\ SuperadminsAreMade /\ OneAtATime /\ Homeward

-----------------------------------------------------------------------------
(* Lemmas.                                                                 *)

\* The requests, by their kinds.
LEMMA Kinds ==
    /\ \A q \in SignIns : q \in Query /\ q.kind = "signIn" /\ q.subject \in Subject
                          /\ q.email \in Email \cup {NoEmail} /\ q.base \in Base
    /\ \A q \in Answers : q \in Query /\ q.kind \in {"onboard", "profile"}
                          /\ q.actor \in Account /\ q.name \in Name /\ q.adult \in {"yes", "no"}
    /\ \A q \in AdminForms :
          /\ q \in Query /\ q.kind \in {"create", "setRole", "setActive", "remove"}
          /\ q.actor \in Account /\ q.target \in Account
          /\ q.kind \in {"create", "setRole"} => q.role \in Role
          /\ q.kind = "setActive" => q.active \in BOOLEAN
  BY DEF SignIns, Answers, AdminForms, Query, Account

\* A request at rest carries nothing.
LEMMA AtRest ==
    /\ NoLoc \in Local /\ NoLoc.q.kind = "none" /\ NoLoc.q \notin SignIns
    /\ Carries("idle", NoLoc) /\ \A r \in Request : Entitled(r, "idle", NoLoc)
<1>1. 1 \in 1..MaxSuffix
  BY AccountsAssumption
<1>2. NoLoc \in Local
  BY <1>1 DEF NoLoc, Local, Query, Via
<1>3. NoLoc.q.kind = "none" /\ NoLoc.q \notin SignIns
  BY Kinds DEF NoLoc
<1>. QED
  BY <1>2, <1>3 DEF Carries, Entitled, SignInSteps, AnswerSteps, AdminSteps, WithAccount, WithRow

\* What a step of request r leaves it with: nothing, or its query and what a
\* request of that query may carry at the step it goes to.
Onward(r, step, l) ==
    /\ step \in At /\ l \in Local
    /\ Carries(step, l) /\ Entitled(r, step, l)
    /\ \/ step = "idle" /\ l = NoLoc
       \/ /\ l.q = loc[r].q
          /\ l.q.kind = "signIn" /\ l.q.subject \in Subject \ racy =>
                /\ step = "byEmail" => identities[l.q.subject] = NoAccount
                /\ step \in WithAccount => identities[l.q.subject] \in {NoAccount, l.acc}

\* A request may always stop.
LEMMA Stops == ASSUME NEW r \in Request PROVE Onward(r, "idle", NoLoc)
  BY AtRest DEF Onward, At

\* Who is counted as a superadmin may change as long as no request that goes on
\* is left with a row it is not entitled to.
StillEntitled(r, step) ==
    /\ step \in WithRow => UNCHANGED made
    /\ \A x \in Request \ {r} :
          at[x] \in WithRow /\ loc[x].row.role = "superadmin" =>
              \/ loc[x].acc \in supers \cup regained => loc[x].acc \in supers' \cup regained'
              \/ x \in overtaken'
    /\ overtaken \subseteq overtaken'

\* A request that goes on as it may keeps the invariant about requests, as
\* long as no other identity than its own is bound, and that at its end only.
LEMMA GoesOn ==
    ASSUME IInv, NEW r \in Request, NEW step, NEW l,
           To(r, step, l), Onward(r, step, l),
           racy' = racy, StillEntitled(r, step),
           \A s \in Subject : \/ identities'[s] \in {identities[s], NoAccount}
                              \/ SignsIn(r, s) /\ l = NoLoc /\ step = "idle"
    PROVE  at' \in [Request -> At] /\ loc' \in [Request -> Local]
           /\ RequestsCarry' /\ OneAtATime' /\ Homeward'
<1>1. at \in [Request -> At] /\ loc \in [Request -> Local]
  BY DEF IInv, TypeInv
<1>2. at'[r] = step /\ loc'[r] = l
  BY <1>1 DEF To
<1>3. \A x \in Request \ {r} : at'[x] = at[x] /\ loc'[x] = loc[x]
  BY <1>1 DEF To
<1>4. at' \in [Request -> At] /\ loc' \in [Request -> Local]
  BY <1>1 DEF To, Onward
<1>5. RequestsCarry'
  <2>. SUFFICES ASSUME NEW x \in Request
                PROVE  (Carries(at[x], loc[x]) /\ Entitled(x, at[x], loc[x]))'
    BY DEF RequestsCarry
  <2>1. Carries(at'[x], loc'[x])
    BY <1>2, <1>3 DEF Onward, IInv, RequestsCarry
  <2>2. CASE x = r
    <3>1. Entitled(r, step, l)
      BY DEF Onward
    <3>2. step \in WithRow => supers' = supers /\ regained' = regained /\ overtaken' = overtaken
      BY DEF StillEntitled, made
    <3>. QED
      BY <1>2, <2>1, <2>2, <3>1, <3>2 DEF Entitled, Carries
  <2>3. CASE x # r
    <3>1. Entitled(x, at[x], loc[x]) /\ at'[x] = at[x] /\ loc'[x] = loc[x]
      BY <1>3, <2>3 DEF IInv, RequestsCarry
    <3>. QED
      BY <2>1, <2>3, <3>1 DEF Entitled, Carries, StillEntitled
  <2>. QED
    BY <2>2, <2>3
<1>6. \A x \in Request, s \in Subject : SignsIn(x, s)' => SignsIn(x, s)
  BY <1>2, <1>3, AtRest DEF SignsIn, Onward
<1>7. OneAtATime'
  BY <1>6 DEF OneAtATime, IInv
<1>8. Homeward'
  <2>. SUFFICES ASSUME NEW s \in Subject \ racy, NEW x \in Request, SignsIn(x, s)'
                PROVE  /\ at'[x] = "byEmail" => identities'[s] = NoAccount
                       /\ at'[x] \in WithAccount => identities'[s] \in {NoAccount, loc'[x].acc}
    BY DEF Homeward
  <2>1. SignsIn(x, s)
    BY <1>6
  <2>2. CASE l = NoLoc /\ step = "idle"
    <3>1. x # r
      BY <2>2, <1>2, AtRest DEF SignsIn
    <3>2. ~SignsIn(r, s)
      BY <2>1, <3>1 DEF IInv, OneAtATime
    <3>3. identities'[s] \in {identities[s], NoAccount}
      BY <3>2
    <3>. QED
      BY <3>1, <3>3, <2>1, <1>3 DEF IInv, Homeward
  <2>3. CASE ~(l = NoLoc /\ step = "idle")
    <3>1. identities'[s] \in {identities[s], NoAccount}
      BY <2>3
    <3>2. CASE x = r
      BY <3>1, <3>2, <2>3, <1>2 DEF SignsIn, Onward
    <3>3. CASE x # r
      BY <3>1, <3>3, <2>1, <1>3 DEF IInv, Homeward
    <3>. QED
      BY <3>2, <3>3
  <2>. QED
    BY <2>2, <2>3
<1>. QED
  BY <1>4, <1>5, <1>7, <1>8

-----------------------------------------------------------------------------
(* The steps of a request, each as one way to go on.                       *)

\* What the invariant says of request r, and of its identity unless racing.
LEMMA Standing ==
    ASSUME IInv, NEW r \in Request
    PROVE  /\ loc[r] \in Local /\ Carries(at[r], loc[r]) /\ Entitled(r, at[r], loc[r])
           /\ loc[r].q.kind = "signIn" /\ loc[r].q.subject \in Subject \ racy =>
                 /\ at[r] = "byEmail" => identities[loc[r].q.subject] = NoAccount
                 /\ at[r] \in WithAccount => identities[loc[r].q.subject] \in {NoAccount, loc[r].acc}
  BY DEF IInv, TypeInv, RequestsCarry, Homeward, SignsIn

\* A sign-in that adopts an existing account has its row, as read, to write.
LEMMA Adopts ==
    ASSUME IInv, NEW r \in Request, NEW a \in Live, NEW via \in {"identity", "email"},
           NEW next \in {"emailFree", "write"}, next = "emailFree" => via = "identity",
           loc[r].q \in SignIns,
           loc[r].q.subject \in Subject \ racy =>
               identities[loc[r].q.subject] \in {NoAccount, a},
           Adopt(r, a, via, next)
    PROVE  \E step, l : To(r, step, l) /\ Onward(r, step, l)
<1>. DEFINE row  == Resumed(loc[r].q, users[a])
            l    == [loc[r] EXCEPT !.via = via, !.acc = a, !.seen = users[a], !.row = row]
            step == IF Onboarded(users[a]) THEN next ELSE "name"
<1>1. loc[r] \in Local
  BY Standing
<1>2. users[a] \in Row /\ a \in Account
  BY DEF IInv, TypeInv
<1>3. /\ row \in Row /\ row.adult = users[a].adult /\ row.gate = users[a].gate
      /\ row.name = users[a].name
      /\ row.role = IF loc[r].q.email = SuperEmail THEN "superadmin" ELSE users[a].role
  BY <1>2 DEF Resumed, Row, Role
<1>4. /\ l \in Local /\ l.q = loc[r].q /\ l.via = via /\ l.acc = a
      /\ l.seen = users[a] /\ l.row = row
  BY <1>1, <1>2, <1>3 DEF Local, Via
<1>5. step \in WithRow /\ step \in At /\ step \in SignInSteps
      /\ step \notin AnswerSteps /\ step \notin AdminSteps
  BY DEF WithRow, At, SignInSteps, AnswerSteps, AdminSteps
<1>. HIDE DEF l, row
<1>6. Carries(step, l)
  BY <1>2, <1>3, <1>4, <1>5 DEF Carries, Keeps, WithRow, WithAccount, AdminSteps
<1>7. Entitled(r, step, l)
  BY <1>2, <1>3, <1>4 DEF Entitled, IInv, SuperadminsAreMade
<1>8. Onward(r, step, l)
  BY <1>4, <1>5, <1>6, <1>7 DEF Onward, WithRow
<1>9. To(r, step, l)
  BY DEF Adopt, l, row
<1>. QED
  BY <1>8, <1>9

\* Reading the identity, the user and the address.
LEMMA LookUps ==
    ASSUME IInv, NEW r \in Request,
           LookUpIdentity(r) \/ LookUpUser(r) \/ LookUpEmail(r)
    PROVE  \E step, l : To(r, step, l) /\ Onward(r, step, l)
<1>1. /\ loc[r] \in Local /\ loc[r].q \in SignIns
      /\ loc[r].q.kind = "signIn" /\ loc[r].q.subject \in Subject
      /\ loc[r].q.email \in Email \cup {NoEmail} /\ loc[r].q.base \in Base
  BY Standing, Kinds DEF LookUpIdentity, LookUpUser, LookUpEmail, Carries, SignInSteps
<1>2. loc[r].seen = <<>>
  BY Standing DEF LookUpIdentity, LookUpUser, LookUpEmail, Carries
<1>3. CASE LookUpIdentity(r)
  <2>. DEFINE a == identities[loc[r].q.subject]
              l == [loc[r] EXCEPT !.acc = a]
  <2>1. CASE a = NoAccount
    <3>1. To(r, "byEmail", loc[r])
      BY <1>3, <2>1 DEF LookUpIdentity, Bound
    <3>2. Onward(r, "byEmail", loc[r])
      BY <1>1, <1>2, <2>1 DEF Onward, At, Carries, Entitled, SignInSteps, AnswerSteps, AdminSteps,
                        WithAccount, WithRow
    <3>. QED
      BY <3>1, <3>2
  <2>2. CASE a # NoAccount
    <3>1. To(r, "user", l)
      BY <1>3, <2>2 DEF LookUpIdentity, Bound
    <3>2. a \in Account
      BY <1>1, <2>2 DEF IInv, TypeInv
    <3>3. l \in Local /\ l.q = loc[r].q /\ l.acc = a /\ l.seen = <<>>
      BY <1>1, <1>2, <3>2 DEF Local
    <3>. HIDE DEF l
    <3>4. Onward(r, "user", l)
      BY <1>1, <3>2, <3>3 DEF Onward, At, Carries, Entitled, SignInSteps, AnswerSteps,
                              AdminSteps, WithAccount, WithRow
    <3>. QED
      BY <3>1, <3>4
  <2>. QED
    BY <2>1, <2>2
<1>4. CASE LookUpUser(r)
  <2>1. CASE loc[r].acc \in Live
    <3>1. Adopt(r, loc[r].acc, "identity", "emailFree")
      BY <1>4, <2>1 DEF LookUpUser
    <3>2. loc[r].q.subject \in Subject \ racy =>
              identities[loc[r].q.subject] \in {NoAccount, loc[r].acc}
      BY <1>1, <1>4, Standing DEF LookUpUser, WithAccount
    <3>3. PICK a \in Live : a = loc[r].acc
      BY <2>1
    <3>. QED
      BY <1>1, <3>1, <3>2, <3>3, Adopts
  <2>2. CASE loc[r].acc \notin Live
    <3>1. To(r, "byEmail", loc[r])
      BY <1>4, <2>2 DEF LookUpUser
    <3>2. loc[r].q.subject \in Subject \ racy => identities[loc[r].q.subject] = NoAccount
      BY <1>1, <1>4, <2>2, Standing DEF LookUpUser, WithAccount, IInv, TypeInv
    <3>3. Onward(r, "byEmail", loc[r])
      BY <1>1, <1>2, <3>2 DEF Onward, At, Carries, Entitled, SignInSteps, AnswerSteps, AdminSteps,
                        WithAccount, WithRow
    <3>. QED
      BY <3>1, <3>3
  <2>. QED
    BY <2>1, <2>2
<1>5. CASE LookUpEmail(r)
  <2>. DEFINE q    == loc[r].q
              role == IF q.email = SuperEmail THEN "superadmin" ELSE "user"
              row  == [name |-> <<q.base, 1>>, email |-> q.email, adult |-> "unset",
                       gate |-> FALSE, active |-> TRUE, role |-> role]
  <2>1. q.subject \in Subject \ racy => identities[q.subject] = NoAccount
    BY <1>1, <1>5, Standing DEF LookUpEmail
  <2>2. CASE \E a \in Live : Adopt(r, a, "email", "write")
    <3>1. PICK a \in Live : Adopt(r, a, "email", "write")
      BY <2>2
    <3>. QED
      BY <1>1, <2>1, <3>1, Adopts
  <2>3. CASE \E a \in Uuid : To(r, "name", [loc[r] EXCEPT !.via = "new", !.acc = a, !.row = row])
    <3>1. PICK a \in Uuid : To(r, "name", [loc[r] EXCEPT !.via = "new", !.acc = a, !.row = row])
      BY <2>3
    <3>. DEFINE l == [loc[r] EXCEPT !.via = "new", !.acc = a, !.row = row]
    <3>2. 1 \in 1..MaxSuffix
      BY AccountsAssumption
    <3>3. row \in Row /\ row.role = role
      BY <1>1, <3>2 DEF Row, Name, Role, Adult
    <3>. HIDE DEF row
    <3>4. l \in Local /\ l.q = q /\ l.acc = a /\ l.via = "new" /\ l.row = row /\ l.seen = <<>>
      BY <1>1, <1>2, <3>3 DEF Local, Via, Account
    <3>. HIDE DEF l
    <3>5. a \in Account
      BY DEF Account
    <3>6. Onward(r, "name", l)
      BY <1>1, <2>1, <3>3, <3>4, <3>5
         DEF Onward, At, Carries, Entitled, SignInSteps, AnswerSteps, AdminSteps,
             WithAccount, WithRow
    <3>. QED
      BY <3>1, <3>6 DEF l
  <2>. QED
    BY <1>5, <2>2, <2>3 DEF LookUpEmail
<1>. QED
  BY <1>3, <1>4, <1>5

\* Looking for a free name and for the address, and keeping the row.
LEMMA Settles ==
    ASSUME IInv, NEW r \in Request, NextName(r) \/ CheckEmail(r) \/ StoreUser(r)
    PROVE  \E step, l : To(r, step, l) /\ Onward(r, step, l)
<1>1. at[r] \in WithRow
  BY DEF NextName, CheckEmail, StoreUser, WithRow
<1>2. /\ loc[r] \in Local /\ loc[r].q \in SignIns /\ loc[r].row \in Row /\ loc[r].acc \in Account
      /\ loc[r].q.kind = "signIn" /\ loc[r].q.subject \in Subject
      /\ loc[r].q.email \in Email \cup {NoEmail} /\ loc[r].q.base \in Base
      /\ loc[r].k \in 1..MaxSuffix
  BY <1>1, Standing, Kinds DEF Carries, SignInSteps, WithAccount, WithRow, Local
<1>3. loc[r].q.subject \in Subject \ racy =>
          identities[loc[r].q.subject] \in {NoAccount, loc[r].acc}
  BY <1>1, <1>2, Standing DEF WithRow, WithAccount
<1>4. /\ loc[r].via = "new" => loc[r].seen = <<>>
      /\ loc[r].via # "new" => loc[r].seen \in Row /\ Keeps(loc[r].row, loc[r])
      /\ at[r] = "name" /\ loc[r].via # "new" => ~Onboarded(loc[r].seen)
      /\ at[r] = "emailFree" => loc[r].via = "identity"
      /\ loc[r].row.role = "superadmin" =>
             loc[r].acc \in supers \cup regained \/ loc[r].q.email = SuperEmail \/ r \in overtaken
  BY <1>1, Standing DEF Carries, Entitled
<1>. USE DEF At, SignInSteps, AnswerSteps, AdminSteps, WithAccount, WithRow
<1>5. CASE NextName(r)
  <2>. DEFINE candidate == <<loc[r].q.base, loc[r].k>>
              next == IF loc[r].via = "identity" THEN "emailFree" ELSE "write"
              row  == [loc[r].row EXCEPT !.name = candidate]
              more == [loc[r] EXCEPT !.k = @ + 1]
              done == [loc[r] EXCEPT !.row.name = candidate]
  <2>0. at[r] = "name"
    BY <1>5 DEF NextName
  <2>1. CASE loc[r].k < MaxSuffix /\ To(r, "name", more)
    <3>1. loc[r].k + 1 \in 1..MaxSuffix
      BY <1>2, <2>1, AccountsAssumption
    <3>2. /\ more \in Local /\ more.q = loc[r].q /\ more.via = loc[r].via
          /\ more.acc = loc[r].acc /\ more.seen = loc[r].seen /\ more.row = loc[r].row
      BY <1>2, <3>1 DEF Local
    <3>. HIDE DEF more
    <3>3. Onward(r, "name", more)
      BY <1>2, <1>3, <1>4, <2>0, <3>2 DEF Onward, Carries, Entitled, Keeps
    <3>. QED
      BY <2>1, <3>3
  <2>2. CASE To(r, next, done)
    <3>1. candidate \in Name
      BY <1>2 DEF Name
    <3>2. /\ row \in Row /\ row.role = loc[r].row.role
          /\ row.adult = loc[r].row.adult /\ row.gate = loc[r].row.gate
      BY <1>2, <3>1 DEF Row
    <3>3. /\ done \in Local /\ done.q = loc[r].q /\ done.via = loc[r].via
          /\ done.acc = loc[r].acc /\ done.seen = loc[r].seen /\ done.row = row
      BY <1>2, <3>2 DEF Local
    <3>4. next \in {"emailFree", "write"} /\ (next = "emailFree" => loc[r].via = "identity")
      OBVIOUS
    <3>. HIDE DEF done, row, next
    <3>5. Onward(r, next, done)
      BY <1>2, <1>3, <1>4, <2>0, <3>2, <3>3, <3>4 DEF Onward, Carries, Entitled, Keeps
    <3>. QED
      BY <2>2, <3>5
  <2>. QED
    BY <1>5, <2>1, <2>2 DEF NextName
<1>6. CASE CheckEmail(r)
  <2>. DEFINE want == IF loc[r].q.email = NoEmail THEN loc[r].seen.email ELSE loc[r].q.email
  <2>0. at[r] = "emailFree"
    BY <1>6 DEF CheckEmail
  <2>1. loc[r].seen.email \in Email \cup {NoEmail} /\ want \in Email \cup {NoEmail}
    BY <1>2, <1>4, <2>0 DEF Row
  <2>2. PICK e \in {want, loc[r].seen.email} : To(r, "write", [loc[r] EXCEPT !.row.email = e])
    BY <1>6 DEF CheckEmail
  <2>. DEFINE row  == [loc[r].row EXCEPT !.email = e]
              done == [loc[r] EXCEPT !.row.email = e]
  <2>3. /\ row \in Row /\ row.role = loc[r].row.role /\ row.name = loc[r].row.name
        /\ row.adult = loc[r].row.adult /\ row.gate = loc[r].row.gate
    BY <1>2, <2>1 DEF Row
  <2>4. /\ done \in Local /\ done.q = loc[r].q /\ done.via = loc[r].via
        /\ done.acc = loc[r].acc /\ done.seen = loc[r].seen /\ done.row = row
    BY <1>2, <2>3 DEF Local
  <2>. HIDE DEF done, row
  <2>5. Onward(r, "write", done)
    BY <1>2, <1>3, <1>4, <2>0, <2>3, <2>4 DEF Onward, Carries, Entitled, Keeps
  <2>. QED
    BY <2>2, <2>5 DEF done
<1>7. CASE StoreUser(r)
  <2>1. To(r, "bind", loc[r])
    BY <1>7 DEF StoreUser
  <2>2. Onward(r, "bind", loc[r])
    BY <1>2, <1>3 DEF Onward, Carries, Entitled
  <2>. QED
    BY <2>1, <2>2
<1>. QED
  BY <1>5, <1>6, <1>7

\* The forms: what was read of the account and of the roles.
LEMMA Forms ==
    ASSUME IInv, NEW r \in Request, CheckRequired(r) \/ ReadActor(r) \/ ReadTarget(r)
    PROVE  \E step, l : To(r, step, l) /\ Onward(r, step, l)
<1>. USE DEF At, SignInSteps, AnswerSteps, AdminSteps, WithAccount, WithRow
<1>1. Stop(r) => \E step, l : To(r, step, l) /\ Onward(r, step, l)
  BY Stops DEF Stop
<1>2. CASE CheckRequired(r)
  <2>1. loc[r] \in Local /\ loc[r].q \in Answers /\ loc[r].q.kind # "signIn"
    BY <1>2, Standing, Kinds DEF CheckRequired, Carries
  <2>2. Onward(r, "answer", loc[r])
    BY <2>1 DEF Onward, Carries, Entitled
  <2>. QED
    BY <1>1, <1>2, <2>2 DEF CheckRequired
<1>3. CASE ReadActor(r)
  <2>. DEFINE role == RoleOf(loc[r].q.actor)
              l    == [loc[r] EXCEPT !.role = role]
  <2>1. /\ loc[r] \in Local /\ loc[r].q \in AdminForms /\ loc[r].q.kind # "signIn"
        /\ loc[r].q.kind \in {"create", "setRole"} => loc[r].q.role \in Role
    BY <1>3, Standing, Kinds DEF ReadActor, Carries
  <2>2. role \in Role \cup {"guest"}
    BY DEF RoleOf, IInv, TypeInv, Row
  <2>3. l \in Local /\ l.q = loc[r].q /\ l.role = role
    BY <2>1, <2>2 DEF Local
  <2>. HIDE DEF l, role
  <2>4. Onward(r, "target", l)
    BY <2>1, <2>3 DEF Onward, Carries, Entitled
  <2>5. loc[r].q.kind = "create" /\ AdminUsersPolicy(loc[r].q, role, "guest") => Onward(r, "apply", l)
    BY <2>1, <2>3 DEF Onward, Carries, Entitled, AdminUsersPolicy
  <2>. QED
    BY <1>1, <1>3, <2>4, <2>5 DEF ReadActor, l, role
<1>4. CASE ReadTarget(r)
  <2>1. loc[r] \in Local /\ loc[r].q \in AdminForms /\ loc[r].q.kind # "signIn"
    BY <1>4, Standing, Kinds DEF ReadTarget, Carries
  <2>. QED
    BY <1>1, <1>4, <2>1 DEF ReadTarget, Onward, Carries, Entitled, AdminUsersPolicy
<1>. QED
  BY <1>2, <1>3, <1>4

\* The steps that end a request write what other requests may be reading, but
\* take nothing along themselves.
LEMMA Ends ==
    ASSUME IInv, NEW r \in Request,
           StoreUserFails(r) \/ Bind(r) \/ Answer(r) \/ Apply(r) \/ Fail(r)
    PROVE  \E step, l : To(r, step, l) /\ Onward(r, step, l)
  BY Stops DEF StoreUserFails, Bind, Answer, Apply, Fail, Stop

-----------------------------------------------------------------------------
(* The tables.                                                             *)

\* Writing a row whose role is accounted for keeps the users' part.
LEMMA Writes ==
    ASSUME TypeInv, SuperadminsAreMade, NEW a \in Account, NEW row \in Row,
           users' = Put(a, row), supers \cup regained \subseteq supers' \cup regained',
           row.role = "superadmin" => a \in supers' \cup regained'
    PROVE  /\ Live' = Live \cup {a}
           /\ \A x \in Live' : users'[x] \in Row
           /\ SuperadminsAreMade'
<1>1. Live' = Live \cup {a}
  BY DEF Put, Live
<1>2. \A x \in Live' : users'[x] = IF x = a THEN row ELSE users[x]
  BY <1>1 DEF Put
<1>3. \A x \in Live' : users'[x] \in Row
  BY <1>1, <1>2 DEF TypeInv
<1>. QED
  BY <1>1, <1>2, <1>3 DEF SuperadminsAreMade

Tables ==
    /\ Live \subseteq Account
    /\ \A a \in Live : users[a] \in Row
    /\ identities \in [Subject -> Account \cup {NoAccount}]
    /\ \A s \in Subject : identities[s] \in Live \cup {NoAccount}
    /\ cookies \subseteq Account

\* A sign-in writes the row it is entitled to.
LEMMA StoreKeepsTables ==
    ASSUME IInv, NEW r \in Request, StoreUser(r)
    PROVE  Tables' /\ SuperadminsAreMade'
<1>1. /\ users' = Put(loc[r].acc, loc[r].row) /\ UNCHANGED <<identities, cookies>>
      /\ supers' = supers \cup {a \in {loc[r].acc} : loc[r].q.email = SuperEmail}
      /\ regained' = regained \cup {a \in {loc[r].acc} : r \in overtaken}
  BY DEF StoreUser
<1>2. /\ loc[r].acc \in Account /\ loc[r].row \in Row
      /\ loc[r].row.role = "superadmin" => loc[r].acc \in supers' \cup regained'
  BY <1>1, Standing DEF StoreUser, Carries, Entitled, WithRow, WithAccount
<1>3. PICK a \in Account, row \in Row :
          a = loc[r].acc /\ row = loc[r].row
  BY <1>2
<1>4. /\ Live' = Live \cup {a}
      /\ \A x \in Live' : users'[x] \in Row
      /\ SuperadminsAreMade'
  <2>1. /\ users' = Put(a, row) /\ supers \cup regained \subseteq supers' \cup regained'
        /\ row.role = "superadmin" => a \in supers' \cup regained'
    BY <1>1, <1>2, <1>3
  <2>. QED
    BY <2>1, Writes DEF IInv
<1>. QED
  BY <1>1, <1>4 DEF Tables, IInv, TypeInv

\* Binding needs the account.
LEMMA BindKeepsTables ==
    ASSUME IInv, NEW r \in Request, Bind(r)
    PROVE  Tables' /\ SuperadminsAreMade'
<1>1. users' = users /\ supers' = supers /\ regained' = regained
  BY DEF Bind, History, db, made
<1>2. loc[r].q.subject \in Subject /\ loc[r].acc \in Account
  BY Standing, Kinds DEF Bind, Carries, SignInSteps, WithAccount
<1>3. CASE loc[r].acc \in Live
  <2>1. /\ identities' = [identities EXCEPT ![loc[r].q.subject] = loc[r].acc]
        /\ cookies' = cookies \cup {loc[r].acc}
    BY <1>3 DEF Bind
  <2>. QED
    BY <1>1, <1>2, <1>3, <2>1 DEF Tables, IInv, TypeInv, SuperadminsAreMade, Live
<1>4. CASE loc[r].acc \notin Live
  BY <1>1, <1>4 DEF Bind, db, Tables, IInv, TypeInv, SuperadminsAreMade, Live
<1>. QED
  BY <1>3, <1>4

\* An answer keeps the role.
LEMMA AnswerKeepsTables ==
    ASSUME IInv, NEW r \in Request, Answer(r)
    PROVE  Tables' /\ SuperadminsAreMade'
<1>. DEFINE q == loc[r].q
            row == [users[q.actor] EXCEPT !.name = q.name, !.adult = q.adult, !.gate = TRUE]
<1>1. UNCHANGED <<identities, cookies, supers, regained>>
  BY DEF Answer, History, made
<1>2. q.actor \in Account /\ q.name \in Name /\ q.adult \in {"yes", "no"}
  BY Standing, Kinds DEF Answer, Carries, AnswerSteps
<1>3. CASE users' = Put(q.actor, row) /\ q.actor \in Live
  <2>0. users[q.actor] \in Row
    BY <1>3 DEF IInv, TypeInv
  <2>1. row \in Row /\ row.role = users[q.actor].role
    BY <1>2, <2>0 DEF Row, Adult
  <2>2. row.role = "superadmin" => q.actor \in supers' \cup regained'
    BY <1>1, <1>3, <2>1 DEF IInv, SuperadminsAreMade
  <2>3. PICK a \in Account, new \in Row : a = q.actor /\ new = row
    BY <1>2, <2>1
  <2>4. /\ users' = Put(a, new) /\ supers \cup regained \subseteq supers' \cup regained'
        /\ new.role = "superadmin" => a \in supers' \cup regained'
    BY <1>1, <1>3, <2>2, <2>3
  <2>5. /\ Live' = Live \cup {a}
        /\ \A x \in Live' : users'[x] \in Row
        /\ SuperadminsAreMade'
    BY <2>4, Writes DEF IInv
  <2>. QED
    BY <1>1, <2>5 DEF Tables, IInv, TypeInv
<1>4. CASE users' = users
  BY <1>1, <1>4 DEF Tables, IInv, TypeInv, SuperadminsAreMade, Live
<1>. QED
  BY <1>3, <1>4 DEF Answer, Answerable

\* An admin's change makes a superadmin only if the actor was read as one.
LEMMA ApplyKeepsTables ==
    ASSUME IInv, NEW r \in Request, Apply(r)
    PROVE  Tables' /\ SuperadminsAreMade'
<1>. DEFINE q == loc[r].q
            lost == {a \in {q.target} : Takes(q)}
<1>1. /\ users' \in Applied(q) /\ identities' = Cascaded(users') /\ cookies' = cookies
      /\ supers' = (supers \ lost)
                      \cup {a \in {q.target} : Grants(q, loc[r].role) /\ users' # users}
      /\ regained' = regained \ lost
  BY DEF Apply
<1>2. /\ q.kind \in {"create", "setRole", "setActive", "remove"} /\ q.target \in Account
      /\ q.kind \in {"create", "setRole"} => q.role \in Role
      /\ q.kind = "setActive" => q.active \in BOOLEAN
  BY Standing, Kinds DEF Apply, Carries, AdminSteps
<1>3. q.kind \in {"create", "setRole"} /\ q.role = "superadmin" /\ users' # users =>
          q.target \in supers'
  BY <1>1, Standing DEF Apply, Carries, Grants
<1>4. Live \subseteq Account /\ \A a \in Live : users[a] \in Row
  BY DEF IInv, TypeInv
<1>5. \A a \in Live : users[a].role = "superadmin" /\ a \notin lost => a \in supers' \cup regained'
  BY <1>1 DEF IInv, SuperadminsAreMade
<1>6. lost \subseteq {q.target} /\ (q.kind \in {"create", "setActive"} => lost = {})
      /\ (q.kind = "setRole" => lost = IF q.role = "superadmin" THEN {} ELSE {q.target})
  BY <1>2 DEF Takes
<1>. DEFINE Good(table) == /\ DOMAIN table \subseteq Account
                           /\ \A a \in DOMAIN table : table[a] \in Row
                           /\ \A a \in DOMAIN table :
                                 table[a].role = "superadmin" => a \in supers' \cup regained'
<1>. HIDE DEF lost
<1>7. Good(users')
  <2>0. users' = users /\ (q.target \notin Live \/ lost = {}) => Good(users')
    BY <1>4, <1>5, <1>6 DEF Live
  <2>1. ASSUME q.kind = "create", NEW new \in Created(q.role), users' = Put(q.target, new)
        PROVE  Good(users')
    <3>1. new \in Row /\ new.role = q.role
      BY <1>2, <2>1 DEF Created, Row, Adult
    <3>2. /\ DOMAIN users' = Live \cup {q.target}
          /\ \A x \in DOMAIN users' : users'[x] = IF x = q.target THEN new ELSE users[x]
      BY <2>1 DEF Put
    <3>3. lost = {}
      BY <1>6, <2>1
    <3>. QED
      BY <1>2, <1>3, <1>4, <1>5, <2>0, <2>1, <3>1, <3>2, <3>3
  <2>2. CASE q.kind = "setRole" /\ q.target \in Live /\ users' = [users EXCEPT ![q.target].role = q.role]
    <3>. DEFINE row == [users[q.target] EXCEPT !.role = q.role]
    <3>1. row \in Row /\ row.role = q.role
      BY <1>2, <1>4, <2>2 DEF Row
    <3>2. /\ DOMAIN users' = Live
          /\ \A x \in Live : users'[x] = IF x = q.target THEN row ELSE users[x]
      BY <2>2 DEF Live
    <3>. HIDE DEF row
    <3>3. CASE q.role = "superadmin"
      <4>1. lost = {}
        BY <1>6, <2>2, <3>3
      <4>. QED
        BY <1>2, <1>3, <1>4, <1>5, <2>0, <2>2, <3>1, <3>2, <3>3, <4>1
    <3>4. CASE q.role # "superadmin"
      <4>1. \A x \in Live : users'[x].role = "superadmin" => x \notin lost /\ users'[x] = users[x]
        BY <1>6, <3>1, <3>2, <3>4
      <4>. QED
        BY <1>4, <1>5, <3>1, <3>2, <4>1
    <3>. QED
      BY <3>3, <3>4
  <2>3. CASE q.kind = "setActive" /\ q.target \in Live /\ users' = [users EXCEPT ![q.target].active = q.active]
    <3>. DEFINE row == [users[q.target] EXCEPT !.active = q.active]
    <3>1. row \in Row /\ row.role = users[q.target].role
      BY <1>2, <1>4, <2>3 DEF Row
    <3>2. /\ DOMAIN users' = Live
          /\ \A x \in Live : users'[x] = IF x = q.target THEN row ELSE users[x]
      BY <2>3 DEF Live
    <3>. HIDE DEF row
    <3>3. lost = {}
      BY <1>6, <2>3
    <3>. QED
      BY <1>4, <1>5, <3>1, <3>2, <3>3
  <2>4. CASE users' = [x \in Live \ {q.target} |-> users[x]]
    BY <1>4, <1>5, <1>6, <2>4
  <2>5. CASE users' = users /\ (q.kind = "create" \/ q.target \notin Live)
    BY <1>6, <2>0, <2>5
  <2>6. \/ q.kind = "create" /\ \E new \in Created(q.role) : users' = Put(q.target, new)
        \/ q.kind = "setRole" /\ q.target \in Live /\ users' = [users EXCEPT ![q.target].role = q.role]
        \/ q.kind = "setActive" /\ q.target \in Live /\ users' = [users EXCEPT ![q.target].active = q.active]
        \/ users' = [x \in Live \ {q.target} |-> users[x]]
        \/ users' = users /\ (q.kind = "create" \/ q.target \notin Live)
    BY <1>1, <1>2 DEF Applied
  <2>. QED
    BY <2>1, <2>2, <2>3, <2>4, <2>5, <2>6
<1>8. /\ identities' \in [Subject -> Account \cup {NoAccount}]
      /\ \A s \in Subject : identities'[s] \in DOMAIN users' \cup {NoAccount}
  BY <1>1 DEF Cascaded, IInv, TypeInv
<1>. QED
  BY <1>1, <1>7, <1>8 DEF Tables, SuperadminsAreMade, Live, IInv, TypeInv

\* Whatever a request's step does, the tables keep their shape, ...
LEMMA StepKeepsTables ==
    ASSUME IInv, NEW r \in Request, Step(r)
    PROVE  Tables' /\ SuperadminsAreMade' /\ ops' = ops /\ racy' = racy
<1>1. CASE Reads
  BY <1>1 DEF Reads, History, db, made, Tables, IInv, TypeInv, SuperadminsAreMade, Live
<1>2. CASE StoreUser(r)
  BY <1>2, StoreKeepsTables DEF StoreUser
<1>3. CASE Bind(r)
  BY <1>3, BindKeepsTables DEF Bind, History
<1>4. CASE Answer(r)
  BY <1>4, AnswerKeepsTables DEF Answer, History
<1>5. CASE Apply(r)
  BY <1>5, ApplyKeepsTables DEF Apply
<1>. QED
  BY <1>1, <1>2, <1>3, <1>4, <1>5
     DEF Step, LookUpIdentity, LookUpUser, LookUpEmail, NextName, CheckEmail, StoreUserFails,
         CheckRequired, ReadActor, ReadTarget, Fail

\* ... and the other requests stay entitled to the rows they carry: who loses
\* the role leaves its mark on the sign-ins that are about to write it back.
LEMMA StepKeepsEntitled ==
    ASSUME IInv, NEW r \in Request, Step(r), NEW step, NEW l, To(r, step, l)
    PROVE  StillEntitled(r, step)
<1>1. CASE UNCHANGED made
  BY <1>1 DEF StillEntitled, made
<1>2. at'[r] = step
  BY DEF To, IInv, TypeInv
<1>3. CASE StoreUser(r)
  <2>1. at'[r] = "bind"
    BY <1>3 DEF StoreUser, To, IInv, TypeInv
  <2>. QED
    BY <1>2, <1>3, <2>1 DEF StillEntitled, StoreUser, WithRow
<1>4. CASE Apply(r)
  <2>1. at'[r] = "idle"
    BY <1>4 DEF Apply, Stop, To, IInv, TypeInv
  <2>. DEFINE lost == {a \in {loc[r].q.target} : Takes(loc[r].q)}
  <2>2. /\ supers \ lost \subseteq supers' /\ regained' = regained \ lost
        /\ overtaken' = overtaken \cup UNION {WritingBack(a) : a \in lost}
    BY <1>4 DEF Apply
  <2>. HIDE DEF lost
  <2>3. ASSUME NEW x \in Request, at[x] \in WithRow, loc[x].row.role = "superadmin",
               loc[x].acc \in lost
        PROVE  x \in overtaken'
    <3>1. x \in WritingBack(loc[x].acc)
      BY <2>3 DEF WritingBack, WithRow
    <3>. QED
      BY <2>2, <2>3, <3>1
  <2>. QED
    BY <1>2, <2>1, <2>2, <2>3 DEF StillEntitled, WithRow
<1>. QED
  BY <1>1, <1>3, <1>4
     DEF Step, LookUpIdentity, LookUpUser, LookUpEmail, NextName, CheckEmail, StoreUserFails, Bind,
         CheckRequired, Answer, ReadActor, ReadTarget, Fail, Reads, History

-----------------------------------------------------------------------------
(* The invariant.                                                          *)

\* It holds at the start.
LEMMA InitInv == Init => IInv
<1>. SUFFICES ASSUME Init PROVE IInv
  OBVIOUS
<1>1. PICK b \in Base, s \in Subject :
          /\ users = [x \in {Root} |-> RootRow(<<b, 1>>)]
          /\ identities = [x \in Subject |-> IF x = s THEN Root ELSE NoAccount]
  BY DEF Init
<1>2. Live = {Root} /\ Root \in Account /\ users[Root] = RootRow(<<b, 1>>)
  BY <1>1 DEF Live, Account
<1>3. RootRow(<<b, 1>>) \in Row
  BY AccountsAssumption DEF RootRow, Row, Name, Role, Adult
<1>4. \A r \in Request : at[r] = "idle" /\ loc[r] = NoLoc
  BY DEF Init
<1>5. TypeInv
  <2>1. ops \in 0..MaxOps
    BY AccountsAssumption DEF Init
  <2>2. at \in [Request -> At] /\ loc \in [Request -> Local]
    BY AtRest DEF Init, At
  <2>. QED
    BY <1>1, <1>2, <1>3, <2>1, <2>2 DEF TypeInv, Init
<1>6. RequestsCarry
  BY <1>4, AtRest DEF RequestsCarry
<1>7. SuperadminsAreMade
  BY <1>2 DEF SuperadminsAreMade, Init
<1>8. OneAtATime /\ Homeward
  BY <1>4, AtRest DEF OneAtATime, Homeward, SignsIn
<1>. QED
  BY <1>5, <1>6, <1>7, <1>8 DEF IInv

\* A request's step keeps it: it goes on as it may, and binds no other identity
\* than its own.
LEMMA StepInv == ASSUME IInv, NEW r \in Request, Step(r) PROVE IInv'
<1>1. PICK step, l : To(r, step, l) /\ Onward(r, step, l)
  BY LookUps, Settles, Forms, Ends DEF Step
<1>2. Tables' /\ SuperadminsAreMade' /\ ops' = ops /\ racy' = racy /\ StillEntitled(r, step)
  BY <1>1, StepKeepsTables, StepKeepsEntitled
<1>3. \A s \in Subject : \/ identities'[s] \in {identities[s], NoAccount}
                         \/ SignsIn(r, s) /\ l = NoLoc /\ step = "idle"
  <2>1. CASE identities' = identities
    BY <2>1
  <2>2. CASE Apply(r)
    BY <2>2 DEF Apply, Cascaded
  <2>3. CASE Bind(r)
    <3>1. loc'[r] = l /\ at'[r] = step /\ loc'[r] = NoLoc /\ at'[r] = "idle"
      BY <1>1, <2>3 DEF Bind, Stop, To, IInv, TypeInv
    <3>2. loc[r].q.kind = "signIn"
      BY <2>3, Standing, Kinds DEF Bind, Carries, SignInSteps
    <3>3. \A s \in Subject : s # loc[r].q.subject => identities'[s] = identities[s]
      BY <2>3 DEF Bind, db, IInv, TypeInv
    <3>. QED
      BY <3>1, <3>2, <3>3 DEF SignsIn
  <2>. QED
    BY <2>1, <2>2, <2>3
       DEF Step, LookUpIdentity, LookUpUser, LookUpEmail, NextName, CheckEmail, StoreUser,
           StoreUserFails, CheckRequired, Answer, ReadActor, ReadTarget, Fail, Reads, db
<1>4. at' \in [Request -> At] /\ loc' \in [Request -> Local]
      /\ RequestsCarry' /\ OneAtATime' /\ Homeward'
  BY <1>1, <1>2, <1>3, GoesOn
<1>5. TypeInv'
  BY <1>2, <1>4 DEF Tables, TypeInv, IInv
<1>. QED
  BY <1>2, <1>4, <1>5 DEF IInv

\* A request begins with its query and nothing else; a second sign-in of a
\* subject makes the subject racy.
LEMMA BeginInv ==
    ASSUME IInv, NEW r \in Request, NEW q \in SignIns \cup Answers \cup AdminForms, NEW step,
           Start(r, q, step),
           /\ q \in SignIns => step = "identity"
           /\ q \in Answers => step \in AnswerSteps
           /\ q \in AdminForms => step = "actor",
           racy \subseteq racy',
           q.kind = "signIn" =>
               racy' = racy \cup {s \in {q.subject} : \E x \in Request : SignsIn(x, s)}
    PROVE  IInv'
<1>. DEFINE l == [NoLoc EXCEPT !.q = q]
<1>1. /\ at[r] = "idle" /\ To(r, step, l)
      /\ UNCHANGED <<users, identities, cookies, supers, regained>> /\ overtaken' = overtaken \ {r}
      /\ ops < MaxOps /\ ops' = ops + 1
  BY DEF Start, db
<1>2. l \in Local /\ l.q = q /\ l.seen = <<>>
  BY AtRest DEF Local, Query, NoLoc
<1>3. /\ q \in SignIns => q.kind = "signIn"
      /\ q \in Answers => q.kind \in {"onboard", "profile"}
      /\ q \in AdminForms => q.kind \in {"create", "setRole", "setActive", "remove"}
  BY Kinds
<1>4. Carries(step, l) /\ step \in At /\ step \notin WithRow /\ step \notin WithAccount /\ step # "byEmail"
  BY <1>2, <1>3 DEF Carries, At, SignInSteps, AnswerSteps, AdminSteps, WithAccount, WithRow
<1>. HIDE DEF l
<1>5. at'[r] = step /\ loc'[r] = l /\ at' \in [Request -> At] /\ loc' \in [Request -> Local]
      /\ \A x \in Request \ {r} : at'[x] = at[x] /\ loc'[x] = loc[x]
  BY <1>1, <1>2, <1>4 DEF To, IInv, TypeInv
<1>6. TypeInv'
  BY <1>1, <1>5, AccountsAssumption DEF TypeInv, IInv, Live
<1>7. RequestsCarry'
  BY <1>1, <1>4, <1>5 DEF RequestsCarry, IInv, Entitled, Carries
<1>8. SuperadminsAreMade'
  BY <1>1 DEF SuperadminsAreMade, IInv, Live
<1>9. OneAtATime'
  <2>. SUFFICES ASSUME NEW s \in Subject \ racy', NEW x \in Request, NEW y \in Request,
                       SignsIn(x, s)', SignsIn(y, s)', x # y
                PROVE  FALSE
    BY DEF OneAtATime
  <2>1. CASE x # r /\ y # r
    BY <2>1, <1>5 DEF IInv, OneAtATime, SignsIn
  <2>2. CASE x = r
    BY <2>2, <1>2, <1>5 DEF SignsIn
  <2>3. CASE y = r
    BY <2>3, <1>2, <1>5 DEF SignsIn
  <2>. QED
    BY <2>1, <2>2, <2>3
<1>10. Homeward'
  BY <1>1, <1>4, <1>5 DEF Homeward, IInv, SignsIn
<1>. QED
  BY <1>6, <1>7, <1>8, <1>9, <1>10 DEF IInv

\* Every step keeps it.
LEMMA NextInv == IInv /\ [Next]_vars => IInv'
<1>. SUFFICES ASSUME IInv, [Next]_vars PROVE IInv'
  OBVIOUS
<1>1. ASSUME NEW r \in Request, NEW q \in SignIns, BeginSignIn(r, q) PROVE IInv'
  BY <1>1, BeginInv, Kinds DEF BeginSignIn, SignsIn, AnswerSteps
<1>2. ASSUME NEW r \in Request, NEW q \in Answers, BeginAnswer(r, q) PROVE IInv'
  BY <1>2, BeginInv, Kinds DEF BeginAnswer, AnswerSteps
<1>3. ASSUME NEW r \in Request, NEW q \in AdminForms, BeginAdmin(r, q) PROVE IInv'
  BY <1>3, BeginInv, Kinds DEF BeginAdmin
<1>4. CASE UNCHANGED vars
  <2>1. TypeInv'
    BY <1>4 DEF vars, db, IInv, TypeInv, Live
  <2>2. RequestsCarry' /\ SuperadminsAreMade' /\ OneAtATime' /\ Homeward'
    BY <1>4 DEF vars, db, made, IInv, RequestsCarry, Carries, Entitled, SuperadminsAreMade, Live,
                OneAtATime, Homeward, SignsIn
  <2>. QED
    BY <2>1, <2>2 DEF IInv
<1>. QED
  BY <1>1, <1>2, <1>3, <1>4, StepInv DEF Next, Done

-----------------------------------------------------------------------------
(* Theorems.                                                               *)

\* The tables keep their shape, and an identity that is bound belongs to a user
\* that exists: upsert_auth_identity against the deletion of a user.
THEOREM TypeCorrect == Spec => []TypeOK
<1>1. IInv => TypeOK
  BY DEF IInv, TypeInv, TypeOK
<1>. QED
  BY <1>1, InitInv, NextInv, PTL DEF Spec

\* A role is written back by sign-ins that read it earlier and set by admins
\* whose own role was read earlier; still every superadmin has been made one by
\* a superadmin or the configured address and not been demoted or removed since,
\* but for the accounts that a sign-in overtaken by the demotion has rewritten.
THEOREM SuperadminsMade == Spec => []SuperadminsAreMade
<1>1. IInv => SuperadminsAreMade
  BY DEF IInv
<1>. QED
  BY <1>1, InitInv, NextInv, PTL DEF Spec

\* While no two sign-ins of a subject overlap, its identity leaves an account
\* only when the account is gone.
THEOREM ReturnsHome == Spec => ReturnsToOwnAccount
<1>1. ASSUME IInv, [Next]_vars, NEW s \in Subject \ racy,
             identities[s] # NoAccount, identities'[s] # identities[s]
      PROVE  identities[s] \notin DOMAIN users'
  <2>1. PICK r \in Request : Bind(r) \/ Apply(r)
    BY <1>1 DEF Next, Done, vars, db, BeginSignIn, BeginAnswer, BeginAdmin, Start, Step,
                LookUpIdentity, LookUpUser, LookUpEmail, NextName, CheckEmail, StoreUser,
                StoreUserFails, CheckRequired, Answer, ReadActor, ReadTarget, Fail, Reads
  <2>2. CASE Apply(r)
    BY <1>1, <2>2 DEF Apply, Cascaded
  <2>3. CASE Bind(r)
    <3>1. loc[r].q.kind = "signIn" /\ at[r] \in WithAccount
      BY <1>1, <2>3, Standing, Kinds DEF Bind, Carries, SignInSteps, WithAccount
    <3>2. loc[r].q.subject = s /\ identities'[s] = loc[r].acc
      BY <1>1, <2>3 DEF Bind, db, IInv, TypeInv
    <3>. QED
      BY <1>1, <3>1, <3>2 DEF IInv, Homeward, SignsIn
  <2>. QED
    BY <2>1, <2>2, <2>3
<1>2. IInv /\ [Next]_vars =>
          [\A s \in Subject \ racy :
              identities[s] # NoAccount /\ identities'[s] # identities[s]
                  => identities[s] \notin DOMAIN users']_vars
  BY <1>1
<1>. QED
  BY <1>2, InitInv, NextInv, PTL DEF Spec, ReturnsToOwnAccount

\* No row is empty.
LEMMA RowsAreFull == <<>> \notin Row
<1>. SUFFICES ASSUME <<>> \in Row PROVE FALSE
  OBVIOUS
<1>1. \A row \in Row : DOMAIN row = {"name", "email", "adult", "gate", "active", "role"}
  BY DEF Row
<1>2. DOMAIN <<>> = {}
  OBVIOUS
<1>. QED
  BY <1>1, <1>2

\* A request leaves the step that writes by a step of its own.
LEMMA OthersStand ==
    ASSUME IInv, [Next]_vars, NEW r \in Request, at'[r] # at[r], at[r] \in {"write", "answer"}
    PROVE  Step(r)
<1>1. at \in [Request -> At]
  BY DEF IInv, TypeInv
<1>2. ASSUME NEW x \in Request, x # r, \E step, l : To(x, step, l) PROVE at'[r] = at[r]
  BY <1>1, <1>2 DEF To
<1>3. ASSUME NEW x \in Request, Step(x) PROVE \E step, l : To(x, step, l)
  BY <1>3, LookUps, Settles, Forms, Ends DEF Step
<1>4. ASSUME NEW x \in Request, NEW q, NEW step, Start(x, q, step)
      PROVE  x # r /\ \E s, l : To(x, s, l)
  BY <1>4 DEF Start
<1>. QED
  BY <1>2, <1>3, <1>4 DEF Next, Done, vars, BeginSignIn, BeginAnswer, BeginAdmin

\* A sign-in that writes over the row it read changes no answer, no settled
\* name and no role but to the configured one; the onboarding form changes no
\* account that is through onboarding.
THEOREM AnswersKept == Spec => AnswersStand
<1>1. ASSUME IInv, [Next]_vars, NEW r \in Request, at[r] = "write", at'[r] = "bind",
             loc[r].acc \in Live, users[loc[r].acc] = loc[r].seen
      PROVE  /\ users'[loc[r].acc].adult = users[loc[r].acc].adult
             /\ users'[loc[r].acc].gate = users[loc[r].acc].gate
             /\ Onboarded(users[loc[r].acc]) => users'[loc[r].acc].name = users[loc[r].acc].name
             /\ loc[r].q.email # SuperEmail => users'[loc[r].acc].role = users[loc[r].acc].role
  <2>1. Step(r)
    BY <1>1, OthersStand
  <2>2. at \in [Request -> At]
    BY <1>1 DEF IInv, TypeInv
  <2>3. StoreUser(r)
    BY <1>1, <2>1, <2>2
       DEF Step, LookUpIdentity, LookUpUser, LookUpEmail, NextName, CheckEmail, StoreUserFails,
           Bind, CheckRequired, Answer, ReadActor, ReadTarget, Apply, Fail, Stop, To
  <2>4. users'[loc[r].acc] = loc[r].row
    BY <2>3, <1>1 DEF StoreUser, Put
  <2>5. loc[r].seen # <<>>
    BY <1>1, RowsAreFull DEF IInv, TypeInv
  <2>6. Keeps(loc[r].row, loc[r])
    BY <1>1, <2>5, Standing DEF Carries, WithRow
  <2>. QED
    BY <1>1, <2>4, <2>6 DEF Keeps
<1>2. ASSUME IInv, [Next]_vars, NEW r \in Request, at[r] = "answer", at'[r] = "idle",
             loc[r].q.kind = "onboard", loc[r].q.actor \in Live, Onboarded(users[loc[r].q.actor])
      PROVE  users'[loc[r].q.actor] = users[loc[r].q.actor]
  <2>1. Step(r)
    BY <1>2, OthersStand
  <2>2. Answer(r) \/ Fail(r)
    BY <1>2, <2>1
       DEF Step, LookUpIdentity, LookUpUser, LookUpEmail, NextName, CheckEmail, StoreUser,
           StoreUserFails, Bind, CheckRequired, ReadActor, ReadTarget, Apply
  <2>. QED
    BY <1>2, <2>2 DEF Answer, Answerable, Fail, Reads, db
<1>3. IInv /\ [Next]_vars =>
        [\A r \in Request :
          LET a == loc[r].acc
              b == loc[r].q.actor
          IN  /\ at[r] = "write" /\ at'[r] = "bind" /\ a \in Live /\ users[a] = loc[r].seen =>
                    /\ users'[a].adult = users[a].adult
                    /\ users'[a].gate = users[a].gate
                    /\ Onboarded(users[a]) => users'[a].name = users[a].name
                    /\ loc[r].q.email # SuperEmail => users'[a].role = users[a].role
              /\ at[r] = "answer" /\ at'[r] = "idle" /\ loc[r].q.kind = "onboard" /\ b \in Live =>
                    (Onboarded(users[b]) => users'[b] = users[b])]_vars
  BY <1>1, <1>2
<1>. QED
  BY <1>3, InitInv, NextInv, PTL DEF Spec, AnswersStand

=============================================================================
