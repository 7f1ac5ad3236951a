-------------------------- MODULE OperatorsProofs --------------------------
(***************************************************************************)
(* Proofs about Operators, for every set of operators, passwords and       *)
(* sessions, and every length of the sessions' lives: an enabled lead      *)
(* remains, answers about operators hold, how long the role of a session   *)
(* may be out of date, and that nobody is locked out without cause.  What  *)
(* is shown here of each step is used where the operators' module is one   *)
(* of several.                                                             *)
(***************************************************************************)
EXTENDS Operators, SequenceTheorems, FiniteSetTheorems, TLAPS

Sessions == [user : Names, role : Roles, created : Nat, seen : Nat]
LoginStates == {NoLogin} \cup [at : {"checked", "refused"}, name : Names, source : Sources]
               \cup [at : {"accepted"}, name : Names, source : Sources, role : Roles]
Changes == ({"role"} \X Roles) \cup ({"password"} \X Passwords) \cup ({"disabled"} \X BOOLEAN)
Updates == [name : Names, todo : Seq(Changes)]

\* The operators, in memory or in the file.
Book(U) == DOMAIN U \subseteq Names /\ U \in [DOMAIN U -> Account]

\* Role r is not what n's account in U entitles it to.
Mismatch(U, n, r) == n \notin DOMAIN U \/ U[n].disabled \/ U[n].role # r

Typed ==
    /\ now \in Nat /\ up \in BOOLEAN
    /\ Book(users) /\ Book(usersFile)
    /\ sessions \in [DOMAIN sessions -> Sessions]
    /\ login \in [Logins -> LoginStates]
    /\ update \in Updates
    /\ changed \in [Names -> Nat]

\* A session, or a login that is about to open one, can have a role that its
\* operator has not only if the account has changed since the login.
SessionsDated ==
    \A s \in DOMAIN sessions :
        /\ sessions[s].created <= now
        /\ Mismatch(users, sessions[s].user, sessions[s].role)
               => changed[sessions[s].user] >= sessions[s].created
LoginsDated ==
    \A l \in Logins :
        login[l].at = "accepted" /\ Mismatch(users, login[l].name, login[l].role)
            => changed[login[l].name] = now
Dated == (\A n \in Names : changed[n] <= now) /\ SessionsDated /\ LoginsDated

OperatorsInv == Typed /\ LeadRemains /\ Dated

-----------------------------------------------------------------------------
(* The operators with one of them changed.                                 *)

\* V is U but perhaps for n.
Differs(U, V, n) ==
    \A m \in Names : m # n =>
        /\ m \in DOMAIN V <=> m \in DOMAIN U
        /\ m \in DOMAIN U => V[m] = U[m]

LEMMA Added ==
    ASSUME NEW U, Book(U), NEW n \in Names, NEW x \in Account, n \notin DOMAIN U,
           NEW V, V = With(U, n, x)
    PROVE  Book(V) /\ Differs(U, V, n) /\ EnabledLeads(U) \subseteq EnabledLeads(V)
<1>1. DOMAIN V = DOMAIN U \cup {n} /\ \A m \in DOMAIN V : V[m] = IF m = n THEN x ELSE U[m]
  BY DEF With
<1>2. Book(V)
  <2>1. V = [m \in DOMAIN U \cup {n} |-> IF m = n THEN x ELSE U[m]]
    BY DEF With
  <2> QED
    BY <1>1, <2>1 DEF Book
<1>3. Differs(U, V, n)
  BY <1>1 DEF Differs
<1>4. EnabledLeads(U) \subseteq EnabledLeads(V)
  BY <1>1 DEF EnabledLeads
<1> QED
  BY <1>2, <1>3, <1>4

LEMMA Removed ==
    ASSUME NEW U, Book(U), NEW n \in Names, NEW V, V = Without(U, n)
    PROVE  Book(V) /\ Differs(U, V, n) /\ EnabledLeads(V) = EnabledLeads(U) \ {n}
<1>1. V = [m \in DOMAIN U \ {n} |-> U[m]]
  BY DEF Without, Restrict
<1> QED
  BY <1>1 DEF Book, Differs, EnabledLeads

SetField(U, n, c) == [U EXCEPT ![n][c[1]] = c[2]]

LEMMA Changed ==
    ASSUME NEW U, Book(U), NEW n \in DOMAIN U, NEW c \in Changes,
           NEW V, V = SetField(U, n, c)
    PROVE  /\ Book(V) /\ DOMAIN V = DOMAIN U /\ Differs(U, V, n)
           /\ V[n].role = IF c[1] = "role" THEN c[2] ELSE U[n].role
           /\ V[n].disabled = IF c[1] = "disabled" THEN c[2] ELSE U[n].disabled
<1> DEFINE x == U[n]
           y == [x EXCEPT ![c[1]] = c[2]]
<1>1. x \in Account
  BY DEF Book
<1>2. y \in Account /\ y.role = (IF c[1] = "role" THEN c[2] ELSE x.role)
      /\ y.disabled = (IF c[1] = "disabled" THEN c[2] ELSE x.disabled)
  <2> HIDE DEF x
  <2>1. CASE c \in {"role"} \X Roles
    BY <1>1, <2>1 DEF Account
  <2>2. CASE c \in {"password"} \X Passwords
    BY <1>1, <2>2 DEF Account
  <2>3. CASE c \in {"disabled"} \X BOOLEAN
    BY <1>1, <2>3 DEF Account
  <2> QED
    BY <2>1, <2>2, <2>3 DEF Changes
<1>3. V = [m \in DOMAIN U |-> IF m = n THEN y ELSE U[m]]
  BY DEF Book, SetField
<1> HIDE DEF y
<1>4. Book(V) /\ DOMAIN V = DOMAIN U /\ Differs(U, V, n) /\ V[n] = y
  BY <1>2, <1>3 DEF Book, Differs
<1> QED
  BY <1>2, <1>4

\* What is promised of one operator is indifferent to the others.
LEMMA PromiseApart ==
    ASSUME NEW U, NEW V, NEW n, Differs(U, V, n), NEW m \in Names, m # n
    PROVE  Promise(V, m) = Promise(U, m)
<1>1. m \in DOMAIN V <=> m \in DOMAIN U
  BY DEF Differs
<1>2. m \in DOMAIN U => V[m] = U[m]
  BY DEF Differs
<1>3. {V[k] : k \in DOMAIN V \cap {m}} = {U[k] : k \in DOMAIN U \cap {m}}
  <2>1. CASE m \in DOMAIN U
    BY <1>1, <1>2, <2>1
  <2>2. CASE m \notin DOMAIN U
    BY <1>1, <2>2
  <2> QED
    BY <2>1, <2>2
<1> QED
  BY <1>3 DEF Promise

\* The leads of a book after a change that is not refused.
LEMMA LeadsAfterChange ==
    ASSUME Book(users), EnabledLeads(users) # {}, NEW n, NEW c \in Changes, ~Refused(n, c),
           NEW V, V = SetField(users, n, c)
    PROVE  EnabledLeads(V) # {}
<1>1. n \in DOMAIN users /\ n \in Names
  BY DEF Refused, Book
<1>2. /\ Book(V) /\ DOMAIN V = DOMAIN users /\ Differs(users, V, n)
      /\ V[n].role = IF c[1] = "role" THEN c[2] ELSE users[n].role
      /\ V[n].disabled = IF c[1] = "disabled" THEN c[2] ELSE users[n].disabled
  BY <1>1, Changed
<1>3. \A m \in DOMAIN users : m # n /\ m \in EnabledLeads(users) => m \in EnabledLeads(V)
  BY <1>2 DEF EnabledLeads, Differs, Book
<1>4. CASE \E m \in EnabledLeads(users) : m # n
  BY <1>3, <1>4 DEF EnabledLeads
<1>5. CASE EnabledLeads(users) = {n}
  <2>1. c # <<"role", "analyst">> /\ c # <<"disabled", TRUE>>
    BY <1>5 DEF Refused, OnlyLead
  <2>2. users[n].role = "lead" /\ users[n].disabled = FALSE /\ users[n] \in Account
    <3>1. n \in {m \in DOMAIN users : users[m].role = "lead" /\ ~users[m].disabled}
      BY <1>5 DEF EnabledLeads
    <3> QED
      BY <1>1, <3>1 DEF Book, Account
  <2>3. CASE c \in {"role"} \X Roles
    BY <1>1, <1>2, <2>1, <2>2, <2>3 DEF Roles, EnabledLeads
  <2>4. CASE c \in {"password"} \X Passwords
    BY <1>1, <1>2, <2>2, <2>4 DEF EnabledLeads
  <2>5. CASE c \in {"disabled"} \X BOOLEAN
    <3>1. PICK b \in BOOLEAN : c = <<"disabled", b>>
      BY <2>5
    <3>2. b = FALSE
      BY <2>1, <3>1
    <3>3. V[n].role = "lead" /\ V[n].disabled = FALSE
      BY <1>2, <2>2, <3>1, <3>2
    <3> QED
      BY <1>1, <1>2, <3>3 DEF EnabledLeads
  <2> QED
    BY <2>3, <2>4, <2>5 DEF Changes
<1> QED
  BY <1>4, <1>5

-----------------------------------------------------------------------------
(* Kinds of steps.                                                         *)

\* The sessions are some of those there were, seen now or not.
SomeSessions ==
    /\ sessions' \in [DOMAIN sessions' -> Sessions]
    /\ DOMAIN sessions' \subseteq DOMAIN sessions
    /\ \A s \in DOMAIN sessions' :
        /\ sessions'[s].user = sessions[s].user
        /\ sessions'[s].role = sessions[s].role
        /\ sessions'[s].created = sessions[s].created

SeenAt(r, t) == [r EXCEPT !.seen = t]

LEMMA SeenAtIn ==
    ASSUME NEW r \in Sessions, NEW t \in Nat
    PROVE  /\ SeenAt(r, t) \in Sessions
           /\ SeenAt(r, t).user = r.user /\ SeenAt(r, t).role = r.role /\ SeenAt(r, t).created = r.created
BY DEF SeenAt, Sessions

LEMMA Authenticating ==
    ASSUME Typed, NEW s, Authenticated(s)
    PROVE  SomeSessions
<1>1. sessions \in [DOMAIN sessions -> Sessions] /\ now \in Nat
  BY DEF Typed
<1>2. sessions' = [t \in DOMAIN sessions |-> IF t = s THEN SeenAt(sessions[t], now) ELSE sessions[t]]
  <2>1. sessions' = [sessions EXCEPT ![s] = SeenAt(sessions[s], now)]
    BY Zenon DEF Authenticated, SeenAt
  <2> QED
    BY <1>1, <2>1
<1>3. \A t \in DOMAIN sessions :
          /\ SeenAt(sessions[t], now) \in Sessions
          /\ SeenAt(sessions[t], now).user = sessions[t].user
          /\ SeenAt(sessions[t], now).role = sessions[t].role
          /\ SeenAt(sessions[t], now).created = sessions[t].created
  BY <1>1, SeenAtIn
<1> QED
  BY <1>1, <1>2, <1>3 DEF SomeSessions

LEMMA FewerSessions ==
    ASSUME Typed, NEW s, sessions' = Without(sessions, s)
    PROVE  SomeSessions
<1>1. sessions' = [t \in DOMAIN sessions \ {s} |-> sessions[t]]
  BY DEF Without, Restrict
<1> QED
  BY <1>1 DEF SomeSessions, Typed

LEMMA SameSessions == Typed /\ UNCHANGED sessions => SomeSessions
BY DEF Typed, SomeSessions

\* Nothing about an account changes.
Quiet ==
    /\ UNCHANGED <<now, up, users, usersFile, changed>>
    /\ SomeSessions
    /\ login' \in [Logins -> LoginStates]
    /\ \A l \in Logins :
        login'[l].at = "accepted" /\ Mismatch(users, login'[l].name, login'[l].role)
            => changed[login'[l].name] = now
    /\ update' \in Updates

LEMMA QuietKeeps == OperatorsInv /\ Quiet => OperatorsInv'
<1> SUFFICES ASSUME OperatorsInv, Quiet PROVE OperatorsInv'
  OBVIOUS
<1>1. Typed'
  BY DEF OperatorsInv, Typed, Quiet, SomeSessions
<1>2. LeadRemains'
  BY DEF OperatorsInv, Quiet, LeadRemains, EnabledLeads
<1>3. (\A n \in Names : changed[n] <= now)'
  BY DEF OperatorsInv, Dated, Quiet
<1>4. SessionsDated'
  BY DEF OperatorsInv, Dated, SessionsDated, Mismatch, Quiet, SomeSessions
<1>5. LoginsDated'
  BY DEF LoginsDated, Mismatch, Quiet
<1> QED
  BY <1>1, <1>2, <1>3, <1>4, <1>5 DEF OperatorsInv, Dated

\* n's account changes in memory, and in the file if it could be written.
Renewed(V, n) ==
    /\ Book(V) /\ Differs(users, V, n) /\ EnabledLeads(V) # {}
    /\ users' = V /\ usersFile' \in {V, usersFile}
    /\ changed' = [changed EXCEPT ![n] = now]
    /\ UNCHANGED <<now, up, login>>
    /\ SomeSessions
    /\ update' \in Updates

LEMMA RenewedKeeps ==
    ASSUME OperatorsInv, NEW V, NEW n \in Names, Renewed(V, n)
    PROVE  OperatorsInv'
<1>1. changed' \in [Names -> Nat] /\ \A m \in Names : changed'[m] = IF m = n THEN now ELSE changed[m]
  BY DEF OperatorsInv, Typed, Renewed
<1>2. Typed'
  BY <1>1 DEF OperatorsInv, Typed, Renewed, SomeSessions
<1>3. LeadRemains'
  BY DEF OperatorsInv, Renewed, LeadRemains, EnabledLeads
<1>4. (\A m \in Names : changed[m] <= now)'
  BY <1>1 DEF OperatorsInv, Typed, Dated, Renewed
<1>5. \A m \in Names : \A r : m # n /\ Mismatch(users', m, r) => Mismatch(users, m, r)
  BY DEF Renewed, Differs, Mismatch
<1>6. SessionsDated'
  <2> SUFFICES ASSUME NEW s \in DOMAIN sessions'
               PROVE  /\ sessions'[s].created <= now
                      /\ Mismatch(users', sessions'[s].user, sessions'[s].role)
                             => changed'[sessions'[s].user] >= sessions'[s].created
    BY DEF SessionsDated, Mismatch, Renewed
  <2>1. /\ s \in DOMAIN sessions /\ sessions'[s].user = sessions[s].user
        /\ sessions'[s].role = sessions[s].role /\ sessions'[s].created = sessions[s].created
    BY DEF Renewed, SomeSessions
  <2>2. sessions[s].user \in Names /\ sessions[s].created \in Nat /\ now \in Nat
    BY <2>1 DEF OperatorsInv, Typed, Sessions
  <2> QED
    BY <1>1, <1>5, <2>1, <2>2 DEF OperatorsInv, Dated, SessionsDated
<1>7. LoginsDated'
  <2> SUFFICES ASSUME NEW l \in Logins, login[l].at = "accepted",
                      Mismatch(users', login[l].name, login[l].role)
               PROVE  changed'[login[l].name] = now
    BY DEF LoginsDated, Mismatch, Renewed
  <2>1. login[l].name \in Names
    BY DEF OperatorsInv, Typed, LoginStates, NoLogin
  <2> QED
    BY <1>1, <1>5, <2>1 DEF OperatorsInv, Dated, LoginsDated
<1> QED
  BY <1>2, <1>3, <1>4, <1>6, <1>7 DEF OperatorsInv, Dated

\* The file is edited at a shell, and nothing else changes.
LEMMA EditedKeeps ==
    ASSUME OperatorsInv, NEW U, NEW n \in Names, Edit(U, n), Book(U), EnabledLeads(U) # {}
    PROVE  OperatorsInv'
<1>1. /\ usersFile' = U /\ changed' = [changed EXCEPT ![n] = now]
      /\ UNCHANGED <<now, up, users, sessions, login, update>>
  BY DEF Edit, Shell
<1>2. changed' \in [Names -> Nat] /\ \A m \in Names : changed'[m] = IF m = n THEN now ELSE changed[m]
  BY <1>1 DEF OperatorsInv, Typed
<1>3. Typed'
  BY <1>1, <1>2 DEF OperatorsInv, Typed, Book
<1>4. LeadRemains'
  BY <1>1 DEF OperatorsInv, LeadRemains, EnabledLeads
<1>5. (\A m \in Names : changed[m] <= now)'
  BY <1>1, <1>2 DEF OperatorsInv, Typed, Dated
<1>6. SessionsDated'
  <2> SUFFICES ASSUME NEW s \in DOMAIN sessions
               PROVE  /\ sessions[s].created <= now
                      /\ Mismatch(users, sessions[s].user, sessions[s].role)
                             => changed'[sessions[s].user] >= sessions[s].created
    BY <1>1 DEF SessionsDated, Mismatch
  <2>1. sessions[s].user \in Names /\ sessions[s].created \in Nat /\ now \in Nat
    BY DEF OperatorsInv, Typed, Sessions
  <2> QED
    BY <1>2, <2>1 DEF OperatorsInv, Dated, SessionsDated
<1>7. LoginsDated'
  <2> SUFFICES ASSUME NEW l \in Logins, login[l].at = "accepted",
                      Mismatch(users, login[l].name, login[l].role)
               PROVE  changed'[login[l].name] = now
    BY <1>1 DEF LoginsDated, Mismatch
  <2>1. login[l].name \in Names
    BY DEF OperatorsInv, Typed, LoginStates, NoLogin
  <2> QED
    BY <1>2, <2>1 DEF OperatorsInv, Dated, LoginsDated
<1> QED
  BY <1>3, <1>4, <1>5, <1>6, <1>7 DEF OperatorsInv, Dated

-----------------------------------------------------------------------------
(* The steps of a login.                                                   *)

LEMMA LoginSteps ==
    ASSUME OperatorsInv, NEW l \in Logins,
           \/ \E n \in Names, a \in Sources : LoginBegin(l, n, a)
           \/ \E p \in Passwords : LoginAuthenticate(l, p)
           \/ LoginRefuse(l)
    PROVE  Quiet
<1>1. UNCHANGED <<now, up, users, usersFile, changed, sessions, update>>
  BY DEF LoginBegin, LoginAuthenticate, LoginRefuse, Serves, Takes, process, accounts
<1>2. SomeSessions
  BY <1>1, SameSessions DEF OperatorsInv
<1>3. PICK x : login' = [login EXCEPT ![l] = x] /\ x \in LoginStates
               /\ (x.at = "accepted" => ~Mismatch(users, x.name, x.role))
  <2>1. ASSUME NEW n \in Names, NEW a \in Sources, LoginBegin(l, n, a)
        PROVE  \E x : login' = [login EXCEPT ![l] = x] /\ x \in LoginStates
                      /\ (x.at = "accepted" => ~Mismatch(users, x.name, x.role))
    <3> DEFINE x == [at |-> "checked", name |-> n, source |-> a]
    <3>1. x \in LoginStates /\ x.at # "accepted"
      BY DEF LoginStates
    <3>2. login' = [login EXCEPT ![l] = x]
      BY <2>1 DEF LoginBegin
    <3> QED
      BY <3>1, <3>2
  <2>2. ASSUME NEW p \in Passwords, LoginAuthenticate(l, p)
        PROVE  \E x : login' = [login EXCEPT ![l] = x] /\ x \in LoginStates
                      /\ (x.at = "accepted" => ~Mismatch(users, x.name, x.role))
    <3>1. login[l] \in [at : {"checked", "refused"}, name : Names, source : Sources]
      <4>1. login[l] \in LoginStates /\ login[l].at = "checked"
        BY <2>2 DEF OperatorsInv, Typed, LoginAuthenticate
      <4> QED
        BY <4>1 DEF LoginStates, NoLogin
    <3> DEFINE n == login[l].name
               ok == n \in DOMAIN users /\ ~users[n].disabled /\ users[n].password = p
               y == [at |-> "accepted", name |-> n, source |-> login[l].source, role |-> users[n].role]
               z == [at |-> "refused", name |-> n, source |-> login[l].source]
    <3>2. z = [login[l] EXCEPT !.at = "refused"]
      BY <3>1
    <3>3. login' = [login EXCEPT ![l] = IF ok THEN y ELSE z]
      BY <2>2, <3>2, Zenon DEF LoginAuthenticate
    <3>4. CASE ok
      <4>1. y \in LoginStates /\ ~Mismatch(users, y.name, y.role)
        BY <3>1, <3>4 DEF LoginStates, Mismatch, OperatorsInv, Typed, Book, Account
      <4> HIDE DEF y, z
      <4> QED
        BY <3>3, <3>4, <4>1
    <3>5. CASE ~ok
      <4>1. z \in LoginStates /\ z.at # "accepted"
        BY <3>1 DEF LoginStates
      <4> HIDE DEF y, z, ok
      <4> QED
        BY <3>3, <3>5, <4>1
    <3> QED
      BY <3>4, <3>5
  <2>3. ASSUME LoginRefuse(l)
        PROVE  \E x : login' = [login EXCEPT ![l] = x] /\ x \in LoginStates
                      /\ (x.at = "accepted" => ~Mismatch(users, x.name, x.role))
    <3>1. login' = [login EXCEPT ![l] = NoLogin]
      BY <2>3 DEF LoginRefuse
    <3>2. NoLogin \in LoginStates /\ NoLogin.at # "accepted"
      BY DEF LoginStates, NoLogin
    <3> QED
      BY <3>1, <3>2
  <2> QED
    BY <2>1, <2>2, <2>3
<1>4. login' \in [Logins -> LoginStates] /\ \A k \in Logins : login'[k] = IF k = l THEN x ELSE login[k]
  BY <1>3 DEF OperatorsInv, Typed
<1>5. \A k \in Logins :
          login'[k].at = "accepted" /\ Mismatch(users, login'[k].name, login'[k].role)
              => changed[login'[k].name] = now
  BY <1>3, <1>4 DEF OperatorsInv, Dated, LoginsDated
<1>6. update' \in Updates
  BY <1>1 DEF OperatorsInv, Typed
<1> QED
  BY <1>1, <1>2, <1>4, <1>5, <1>6 DEF Quiet

LEMMA LoginAccepted == ASSUME OperatorsInv, NEW l \in Logins, LoginAccept(l) PROVE OperatorsInv'
<1>1. UNCHANGED <<now, up, users, usersFile, changed, update>> /\ login' = [login EXCEPT ![l] = NoLogin]
  BY DEF LoginAccept, Serves, process, accounts
<1>2. login[l] \in [at : {"accepted"}, name : Names, source : Sources, role : Roles]
  <2>1. login[l] \in LoginStates /\ login[l].at = "accepted"
    BY DEF OperatorsInv, Typed, LoginAccept
  <2> QED
    BY <2>1 DEF LoginStates, NoLogin
<1> DEFINE r == [user |-> login[l].name, role |-> login[l].role, created |-> now, seen |-> now]
<1>3. PICK s \in SessionIds \ DOMAIN sessions : sessions' = With(sessions, s, r)
  BY DEF LoginAccept
<1>4. r \in Sessions
  BY <1>2 DEF OperatorsInv, Typed, Sessions
<1>5. r.created = now /\ r.user = login[l].name /\ r.role = login[l].role
  OBVIOUS
<1> HIDE DEF r
<1>6. sessions' = [t \in DOMAIN sessions \cup {s} |-> IF t = s THEN r ELSE sessions[t]]
  BY <1>3 DEF With
<1>7. login' \in [Logins -> LoginStates] /\ \A k \in Logins : login'[k] = IF k = l THEN NoLogin ELSE login[k]
  <2>1. NoLogin \in LoginStates
    BY DEF LoginStates
  <2> QED
    BY <1>1, <2>1 DEF OperatorsInv, Typed
<1>8. sessions' \in [DOMAIN sessions' -> Sessions]
  BY <1>4, <1>6 DEF OperatorsInv, Typed
<1>9. Typed'
  BY <1>1, <1>7, <1>8 DEF OperatorsInv, Typed, Book
<1>10. LeadRemains'
  BY <1>1 DEF OperatorsInv, LeadRemains, EnabledLeads
<1>11. (\A n \in Names : changed[n] <= now)'
  BY <1>1 DEF OperatorsInv, Dated
<1>12. SessionsDated'
  <2> SUFFICES ASSUME NEW t \in DOMAIN sessions'
               PROVE  /\ sessions'[t].created <= now
                      /\ Mismatch(users, sessions'[t].user, sessions'[t].role)
                             => changed[sessions'[t].user] >= sessions'[t].created
    BY <1>1 DEF SessionsDated, Mismatch
  <2>1. CASE t = s
    <3>1. sessions'[t] = r
      BY <1>6, <2>1
    <3>2. Mismatch(users, r.user, r.role) => changed[r.user] = now
      BY <1>2, <1>5 DEF OperatorsInv, Dated, LoginsDated
    <3>3. now \in Nat
      BY DEF OperatorsInv, Typed
    <3> QED
      BY <1>5, <3>1, <3>2, <3>3
  <2>2. CASE t # s
    BY <1>6, <2>2 DEF OperatorsInv, Dated, SessionsDated
  <2> QED
    BY <2>1, <2>2
<1>13. LoginsDated'
  BY <1>1, <1>7 DEF OperatorsInv, Dated, LoginsDated, NoLogin, Mismatch
<1> QED
  BY <1>9, <1>10, <1>11, <1>12, <1>13 DEF OperatorsInv, Dated

-----------------------------------------------------------------------------
(* The administration.                                                     *)

\* The bodies of an update are made of changes.
LEMMA FieldIn ==
    ASSUME NEW f, NEW V, {f} \X V \subseteq Changes
    PROVE  Field(f, V) \subseteq Seq(Changes)
<1>1. <<>> \in Seq(Changes)
  OBVIOUS
<1>2. ASSUME NEW v \in V PROVE << <<f, v>> >> \in Seq(Changes)
  <2>1. <<f, v>> \in Changes
    OBVIOUS
  <2> QED
    BY <2>1
<1> QED
  BY <1>1, <1>2 DEF Field

LEMMA BodiesIn == Bodies \subseteq Seq(Changes)
<1>1. {"role"} \X Roles \subseteq Changes /\ {"password"} \X Passwords \subseteq Changes
      /\ {"disabled"} \X BOOLEAN \subseteq Changes
  BY DEF Changes
<1>2. /\ Field("role", Roles) \subseteq Seq(Changes)
      /\ Field("password", Passwords) \subseteq Seq(Changes)
      /\ Field("disabled", BOOLEAN) \subseteq Seq(Changes)
  BY <1>1, FieldIn
<1>3. ASSUME NEW r \in Seq(Changes), NEW p \in Seq(Changes), NEW d \in Seq(Changes)
      PROVE  r \o p \o d \in Seq(Changes)
  <2>1. r \o p \in Seq(Changes)
    BY ConcatProperties
  <2> QED
    BY <2>1, ConcatProperties
<1>4. \A x \in Fields : x[1] \o x[2] \o x[3] \in Seq(Changes)
  <2>1. \A x \in Fields : x[1] \in Seq(Changes) /\ x[2] \in Seq(Changes) /\ x[3] \in Seq(Changes)
    BY <1>2 DEF Fields
  <2> QED
    BY <1>3, <2>1
<1> QED
  BY <1>4 DEF Bodies

\* What CreateUser and DeleteUser make of the operators.
LEMMA StoreRenews ==
    ASSUME OperatorsInv, NEW V, NEW n \in Names, NEW kinds, Store(kinds, V, n),
           Book(V), Differs(users, V, n), EnabledLeads(V) # {}, SomeSessions,
           UNCHANGED <<lockouts, login, update>>
    PROVE  Renewed(V, n)
<1>1. UNCHANGED <<now, up>> /\ users' = V /\ usersFile' \in {V, usersFile}
      /\ changed' = [changed EXCEPT ![n] = now]
  BY DEF Store, Saved, Unsaved, Takes
<1>2. update' \in Updates
  BY DEF OperatorsInv, Typed
<1> QED
  BY <1>1, <1>2 DEF Renewed

\* Only another can be deleted, and the only enabled lead not at all.
LEMMA DeletedRemain ==
    ASSUME NEW n, EnabledLeads(users) # {}, ~OnlyLead(n)
    PROVE  EnabledLeads(users) \ {n} # {}
BY DEF OnlyLead

LEMMA NoUpdateIn == NoUpdate \in Updates
<1>1. Names # {}
  BY OperatorsAssumption
<1>2. (CHOOSE n \in Names : TRUE) \in Names
  BY <1>1
<1> QED
  BY <1>2 DEF NoUpdate, Updates

Still(u, todo) == [u EXCEPT !.todo = todo]

LEMMA StillIn == \A u \in Updates, todo \in Seq(Changes) : Still(u, todo) \in Updates
BY DEF Still, Updates

\* A field of an operator is set.
LEMMA FieldRenews ==
    ASSUME OperatorsInv, UpdateField
    PROVE  \E n \in Names : \E V : Renewed(V, n)
<1> DEFINE n == update.name
           c == Head(update.todo)
           rest == Tail(update.todo)
           V == SetField(users, n, c)
<1>1. c \in Changes /\ rest \in Seq(Changes)
  <2>1. update.todo \in Seq(Changes) /\ update.todo # <<>>
    BY DEF OperatorsInv, Typed, Updates, UpdateField
  <2> QED
    BY <2>1, HeadTailProperties
<1>2. n \in Names /\ ~Refused(n, c) /\ n \in DOMAIN users
  BY DEF OperatorsInv, Typed, Updates, UpdateField, Refused
<1>3. /\ \/ /\ Saved({}, V, n, IF rest = <<>> THEN Promise(V, n) ELSE Unknown)
            /\ update' = IF rest = <<>> THEN NoUpdate ELSE Still(update, rest)
         \/ Unsaved({}, V, n) /\ update' = NoUpdate
      /\ UNCHANGED <<sessions, login>>
  BY Zenon DEF UpdateField, SetField, Still
<1>4. Book(V) /\ Differs(users, V, n)
  <2> HIDE DEF n, c, V
  <2> QED
    BY <1>1, <1>2, Changed DEF OperatorsInv, Typed, V
<1>5. EnabledLeads(V) # {}
  <2> HIDE DEF n, c, V
  <2> QED
    BY <1>1, <1>2, LeadsAfterChange DEF OperatorsInv, Typed, LeadRemains, V
<1> HIDE DEF V
<1>6. UNCHANGED <<now, up>> /\ users' = V /\ usersFile' \in {V, usersFile}
      /\ changed' = [changed EXCEPT ![n] = now]
  BY <1>3 DEF Saved, Unsaved, Takes
<1>7. update' \in Updates
  <2> HIDE DEF rest
  <2>1. Still(update, rest) \in Updates
    BY <1>1, StillIn DEF OperatorsInv, Typed
  <2> QED
    BY <1>3, <2>1, NoUpdateIn
<1>8. SomeSessions
  BY <1>3, SameSessions DEF OperatorsInv
<1> HIDE DEF n
<1>9. Renewed(V, n)
  BY <1>3, <1>4, <1>5, <1>6, <1>7, <1>8 DEF Renewed
<1> QED
  BY <1>2, <1>9

-----------------------------------------------------------------------------
(* The steps of Operators preserve the invariant.                          *)

OneOfKind ==
    \/ Quiet
    \/ \E n \in Names : \E V : Renewed(V, n)
    \/ \E n \in Names : \E U : Edit(U, n) /\ Book(U) /\ EnabledLeads(U) # {}
    \/ \E l \in Logins : LoginAccept(l)

LEMMA OperatorsKinds == ASSUME OperatorsInv, OperatorsNext PROVE OneOfKind
<1>0. Typed /\ Book(users) /\ Book(usersFile) /\ EnabledLeads(users) # {} /\ EnabledLeads(usersFile) # {}
  BY DEF OperatorsInv, Typed, LeadRemains
<1>1. ASSUME NEW s \in SessionIds, Expire(s) \/ Visit(s) \/ Logout(s)
      PROVE  OneOfKind
  <2>1. UNCHANGED <<now, up, users, usersFile, changed, login, update>>
    BY <1>1 DEF Expire, Visit, Logout, Serves, Takes, process, accounts
  <2>2. SomeSessions
    BY <1>0, <1>1, FewerSessions, Authenticating DEF Expire, Visit, Logout
  <2>3. Quiet
    BY <2>1, <2>2 DEF OperatorsInv, Typed, Dated, LoginsDated, Quiet
  <2> QED
    BY <2>3 DEF OneOfKind
<1>2. ASSUME NEW l \in Logins,
             \/ \E n \in Names, a \in Sources : LoginBegin(l, n, a)
             \/ \E p \in Passwords : LoginAuthenticate(l, p)
             \/ LoginRefuse(l)
             \/ LoginAccept(l)
      PROVE  OneOfKind
  BY <1>2, LoginSteps DEF OneOfKind
<1>3. ASSUME NEW s \in SessionIds, NEW n \in Names, NEW p \in Passwords, NEW r \in Roles,
             CreateUser(s, n, p, r)
      PROVE  OneOfKind
  <2> DEFINE x == [role |-> r, password |-> p, disabled |-> FALSE]
             V == With(users, n, x)
  <2>1. Store({"admin"}, V, n) /\ n \notin DOMAIN users /\ UNCHANGED <<lockouts, login, update>>
    BY <1>3 DEF CreateUser
  <2>2. SomeSessions
    BY <1>0, <1>3, Authenticating DEF CreateUser, LeadSession
  <2>3. x \in Account
    BY DEF Account
  <2> HIDE DEF x
  <2>4. Book(V) /\ Differs(users, V, n) /\ EnabledLeads(users) \subseteq EnabledLeads(V)
    BY <1>0, <2>1, <2>3, Added
  <2> HIDE DEF V
  <2>5. Renewed(V, n)
    BY <1>0, <2>1, <2>2, <2>4, StoreRenews
  <2> QED
    BY <2>5 DEF OneOfKind
<1>4. ASSUME NEW s \in SessionIds, NEW n \in Names, DeleteUser(s, n)
      PROVE  OneOfKind
  <2> DEFINE V == Without(users, n)
  <2>1. Store({"admin"}, V, n) /\ ~OnlyLead(n) /\ UNCHANGED <<lockouts, login, update>>
    BY <1>4 DEF DeleteUser
  <2>2. SomeSessions
    BY <1>0, <1>4, Authenticating DEF DeleteUser, LeadSession
  <2>3. Book(V) /\ Differs(users, V, n) /\ EnabledLeads(V) = EnabledLeads(users) \ {n}
    BY <1>0, Removed
  <2> HIDE DEF V
  <2>4. EnabledLeads(V) # {}
    BY <1>0, <2>1, <2>3, DeletedRemain
  <2>5. Renewed(V, n)
    BY <2>1, <2>2, <2>3, <2>4, StoreRenews
  <2> QED
    BY <2>5 DEF OneOfKind
<1>5. ASSUME NEW s \in SessionIds, NEW n \in Names, NEW body \in Bodies, UpdateBegin(s, n, body)
      PROVE  OneOfKind
  <2>1. UNCHANGED <<now, up, users, usersFile, changed, login>>
    BY <1>5 DEF UpdateBegin, Takes, lockouts
  <2>2. SomeSessions
    BY <1>0, <1>5, Authenticating DEF UpdateBegin, LeadSession
  <2>3. update' \in Updates
    BY <1>5, BodiesIn DEF UpdateBegin, Updates
  <2>4. Quiet
    BY <2>1, <2>2, <2>3 DEF OperatorsInv, Typed, Dated, LoginsDated, Quiet
  <2> QED
    BY <2>4 DEF OneOfKind
<1>6. ASSUME NEW s \in SessionIds, NEW n \in Names, UnlockUser(s, n)
      PROVE  OneOfKind
  <2>1. UNCHANGED <<now, up, users, usersFile, changed, login, update>>
    BY <1>6 DEF UnlockUser, Takes, accounts
  <2>2. SomeSessions
    BY <1>0, <1>6, Authenticating DEF UnlockUser, LeadSession
  <2>3. Quiet
    BY <2>1, <2>2 DEF OperatorsInv, Typed, Dated, LoginsDated, Quiet
  <2> QED
    BY <2>3 DEF OneOfKind
<1>7. ASSUME UpdateRefused
      PROVE  OneOfKind
  <2>1. UNCHANGED <<now, up, users, usersFile, changed, sessions, login>> /\ update' = NoUpdate
    BY <1>7 DEF UpdateRefused, Serves, process, accounts
  <2>2. SomeSessions
    BY <1>0, <2>1, SameSessions
  <2>3. Quiet
    BY <2>1, <2>2, NoUpdateIn DEF OperatorsInv, Typed, Dated, LoginsDated, Quiet
  <2> QED
    BY <2>3 DEF OneOfKind
<1>8. ASSUME UpdateField
      PROVE  OneOfKind
  BY <1>8, FieldRenews DEF OneOfKind
<1>9. ASSUME NEW n \in Names, NEW p \in Passwords, SetUserPassword(n, p)
      PROVE  OneOfKind
  <2> DEFINE c == <<"password", p>>
             V == SetField(usersFile, n, c)
  <2>1. n \in DOMAIN usersFile /\ Edit([usersFile EXCEPT ![n].password = p], n)
    BY <1>9 DEF SetUserPassword
  <2>2. V = [usersFile EXCEPT ![n].password = p]
    BY DEF SetField
  <2>3. c \in Changes /\ c[1] = "password"
    BY DEF Changes
  <2> HIDE DEF c
  <2>4. /\ Book(V) /\ DOMAIN V = DOMAIN usersFile /\ Differs(usersFile, V, n)
        /\ V[n].role = usersFile[n].role /\ V[n].disabled = usersFile[n].disabled
    BY <1>0, <2>1, <2>3, Changed
  <2>5. EnabledLeads(V) # {}
    <3> HIDE DEF V
    <3>1. \A m \in EnabledLeads(usersFile) : m \in EnabledLeads(V)
      BY <1>0, <2>4 DEF EnabledLeads, Differs, Book
    <3> QED
      BY <1>0, <3>1
  <2>6. Edit(V, n)
    BY <2>1, <2>2
  <2> HIDE DEF V
  <2> QED
    BY <2>4, <2>5, <2>6 DEF OneOfKind
<1>10. ASSUME NEW n \in Names, NEW p \in Passwords, NEW r \in Roles, AddUser(n, p, r)
       PROVE  OneOfKind
  <2> DEFINE x == [role |-> r, password |-> p, disabled |-> FALSE]
             V == With(usersFile, n, x)
  <2>1. n \notin DOMAIN usersFile /\ Edit(V, n)
    BY <1>10 DEF AddUser
  <2>2. x \in Account
    BY DEF Account
  <2> HIDE DEF x
  <2>3. Book(V) /\ EnabledLeads(usersFile) \subseteq EnabledLeads(V)
    BY <1>0, <2>1, <2>2, Added
  <2> HIDE DEF V
  <2> QED
    BY <1>0, <2>1, <2>3 DEF OneOfKind
<1> QED
  BY <1>1, <1>2, <1>3, <1>4, <1>5, <1>6, <1>7, <1>8, <1>9, <1>10 DEF OperatorsNext

LEMMA OperatorsSteps == ASSUME OperatorsInv, OperatorsNext PROVE OperatorsInv'
BY OperatorsKinds, QuietKeeps, RenewedKeeps, EditedKeeps, LoginAccepted DEF OneOfKind

LEMMA OperatorsUp == ASSUME OperatorsInv, OperatorsNext PROVE UNCHANGED up
BY OperatorsKinds DEF OneOfKind, Quiet, Renewed, Edit, Shell, LoginAccept, Serves, process

LEMMA OperatorsInitially == ProcessInit /\ OperatorsInit => OperatorsInv
<1> SUFFICES ASSUME ProcessInit, OperatorsInit PROVE OperatorsInv
  OBVIOUS
<1>1. /\ now = 0 /\ up = TRUE /\ users = FirstUsers /\ usersFile = FirstUsers /\ sessions = <<>>
      /\ login = [l \in Logins |-> NoLogin] /\ update = NoUpdate /\ changed = [n \in Names |-> 0]
  BY DEF ProcessInit, OperatorsInit, Nothing
<1>2. Book(FirstUsers) /\ EnabledLeads(FirstUsers) # {}
  BY OperatorsAssumption DEF Book, FirstUsers, Account, Roles, EnabledLeads
<1>3. DOMAIN sessions = {} /\ sessions \in [{} -> Sessions]
  BY <1>1
<1>4. Typed
  BY <1>1, <1>2, <1>3, NoUpdateIn DEF Typed, LoginStates
<1>5. Dated
  BY <1>1, <1>3 DEF Dated, SessionsDated, LoginsDated, NoLogin
<1> QED
  BY <1>1, <1>2, <1>4, <1>5 DEF OperatorsInv, LeadRemains

\* The clock, a stop and a start of the process.
LEMMA OperatorsProcess ==
    ASSUME OperatorsInv
    PROVE  /\ Pass /\ OperatorsPass => OperatorsInv'
           /\ Halt /\ UNCHANGED operators => OperatorsInv'
           /\ Boot /\ OperatorsBoot => OperatorsInv'
<1>1. ASSUME Pass, OperatorsPass PROVE OperatorsInv'
  <2>1. /\ now' = now + 1 /\ UNCHANGED <<up, users, usersFile, sessions, login, update, changed>>
        /\ \A l \in Logins : login[l].at # "accepted"
    BY <1>1 DEF Pass, OperatorsPass, operators, accounts
  <2>2. now \in Nat
    BY DEF OperatorsInv, Typed
  <2>3. Typed'
    BY <2>1, <2>2 DEF OperatorsInv, Typed, Book
  <2>4. LeadRemains'
    BY <2>1 DEF OperatorsInv, LeadRemains, EnabledLeads
  <2>5. (\A n \in Names : changed[n] <= now)'
    BY <2>1, <2>2 DEF OperatorsInv, Typed, Dated
  <2>6. SessionsDated'
    <3>1. \A s \in DOMAIN sessions : sessions[s].created \in Nat
      BY DEF OperatorsInv, Typed, Sessions
    <3> QED
      BY <2>1, <2>2, <3>1 DEF OperatorsInv, Dated, SessionsDated, Mismatch
  <2>7. LoginsDated'
    BY <2>1 DEF LoginsDated
  <2> QED
    BY <2>3, <2>4, <2>5, <2>6, <2>7 DEF OperatorsInv, Dated
<1>2. ASSUME Halt, UNCHANGED operators PROVE OperatorsInv'
  <2>1. up' \in BOOLEAN /\ UNCHANGED <<now, users, usersFile, sessions, login, update, changed>>
    BY <1>2 DEF Halt, operators, accounts
  <2>2. Typed' /\ LeadRemains' /\ Dated'
    BY <2>1 DEF OperatorsInv, Typed, Book, LeadRemains, EnabledLeads, Dated, SessionsDated,
                LoginsDated, Mismatch
  <2> QED
    BY <2>2 DEF OperatorsInv
<1>3. ASSUME Boot, OperatorsBoot PROVE OperatorsInv'
  <2>1. /\ up' = TRUE /\ UNCHANGED <<now, usersFile, changed>> /\ users' = usersFile /\ sessions' = <<>>
        /\ login' = [l \in Logins |-> NoLogin] /\ update' = NoUpdate
    BY <1>3 DEF Boot, OperatorsBoot, Nothing
  <2>2. DOMAIN sessions' = {} /\ sessions' \in [{} -> Sessions]
    BY <2>1
  <2>3. Typed'
    BY <2>1, <2>2, NoUpdateIn DEF OperatorsInv, Typed, Book, LoginStates
  <2>4. LeadRemains'
    BY <2>1 DEF OperatorsInv, LeadRemains, EnabledLeads
  <2>5. Dated'
    BY <2>1, <2>2 DEF OperatorsInv, Dated, SessionsDated, LoginsDated, NoLogin
  <2> QED
    BY <2>3, <2>4, <2>5 DEF OperatorsInv
<1> QED
  BY <1>1, <1>2, <1>3

\* A session's role is out of date for less than its lifetime.
LEMMA StaleRole == OperatorsInv => StaleRoleBounded
<1> SUFFICES ASSUME OperatorsInv, NEW s \in DOMAIN sessions, Live(s),
                    Mismatch(users, sessions[s].user, sessions[s].role)
             PROVE  now - changed[sessions[s].user] < AbsoluteTTL
  BY DEF StaleRoleBounded, Mismatch
<1>1. sessions[s].user \in Names /\ sessions[s].created \in Nat /\ now \in Nat
  BY DEF OperatorsInv, Typed, Sessions
<1>2. changed[sessions[s].user] \in Nat /\ AbsoluteTTL \in Nat
  BY <1>1, OperatorsAssumption DEF OperatorsInv, Typed
<1>3. changed[sessions[s].user] >= sessions[s].created
  BY DEF OperatorsInv, Dated, SessionsDated
<1> QED
  BY <1>1, <1>2, <1>3 DEF Live

-----------------------------------------------------------------------------
(* Answers about operators.  The file is edited at a shell only while the   *)
(* server is away: with --force an edit is undone by the server's next      *)
(* write.                                                                   *)

Answers == told = [n \in Names |-> told[n]] /\ AnswersHold

\* What was promised of an operator, and is not answered anew.
Answered(m) ==
    told[m].sure => Promise(usersFile, m) = told[m] /\ (up => Promise(users, m) = told[m])

LEMMA AnswersIn == Answers <=> told = [n \in Names |-> told[n]] /\ \A m \in Names : Answered(m)
BY DEF Answers, AnswersHold, Answered

\* Every change of the operators is answered for, or is not.
LEMMA SavedAnswers ==
    ASSUME Answers, NEW kinds, NEW V, NEW n \in Names, Differs(users, V, n), NEW answer,
           \/ answer \in {Promise(V, n), Unknown} /\ Saved(kinds, V, n, answer)
           \/ Unsaved(kinds, V, n)
    PROVE  Answers'
<1>1. up /\ up' = up /\ users' = V /\ (told' = [told EXCEPT ![n] = answer] \/ told' = [told EXCEPT ![n] = Unknown])
  BY DEF Saved, Unsaved, Takes
<1>2. /\ told' = [m \in Names |-> told'[m]]
      /\ \A m \in Names : m # n => told'[m] = told[m]
  BY <1>1 DEF Answers
<1>3. ASSUME NEW m \in Names, m # n PROVE Answered(m)'
  <2>1. Promise(V, m) = Promise(users, m)
    BY <1>3, PromiseApart
  <2>2. usersFile' \in {V, usersFile} /\ Answered(m) /\ told'[m] = told[m]
    BY <1>2, <1>3, AnswersIn DEF Saved, Unsaved
  <2> QED
    BY <1>1, <2>1, <2>2 DEF Answered
<1>4. Answered(n)'
  <2>1. CASE Saved(kinds, V, n, answer) /\ answer = Promise(V, n)
    BY <2>1 DEF Saved, Answered, Answers
  <2>2. CASE told' = [told EXCEPT ![n] = Unknown]
    BY <2>2 DEF Answered, Answers, Unknown
  <2> QED
    BY <2>1, <2>2 DEF Saved, Unsaved
<1> QED
  BY <1>2, <1>3, <1>4, AnswersIn DEF Answers, AnswersHold, Answered

LEMMA EditedAnswers ==
    ASSUME Answers, ~up, NEW U, NEW n \in Names, Differs(usersFile, U, n), Edit(U, n)
    PROVE  Answers'
<1>1. /\ ~up' /\ usersFile' = U /\ told' = [told EXCEPT ![n] = Promise(U, n)]
  BY DEF Edit, Shell
<1>2. /\ told' = [m \in Names |-> told'[m]]
      /\ \A m \in Names : told'[m] = IF m = n THEN Promise(U, n) ELSE told[m]
  BY <1>1 DEF Answers
<1>3. \A m \in Names : m # n => Promise(U, m) = Promise(usersFile, m)
  BY PromiseApart
<1>4. \A m \in Names : Answered(m)'
  BY <1>1, <1>2, <1>3, AnswersIn DEF Answered
<1> QED
  BY <1>2, <1>4 DEF Answers, AnswersHold, Answered

LEMMA SilentAnswers ==
    ASSUME Answers, UNCHANGED <<users, usersFile>>, up' => up, NEW n,
           told' = told \/ told' = [told EXCEPT ![n] = Unknown]
    PROVE  Answers'
<1>1. /\ told' = [m \in Names |-> told'[m]]
      /\ \A m \in Names : told'[m] = told[m] \/ told'[m] = Unknown
  BY DEF Answers
<1>2. \A m \in Names : Answered(m)'
  BY <1>1, AnswersIn DEF Answered, Unknown
<1> QED
  BY <1>1, <1>2 DEF Answers, AnswersHold, Answered

LEMMA AnswersSteps ==
    ASSUME "force" \notin Unguarded, OperatorsInv, Answers, OperatorsNext
    PROVE  Answers'
<1>0. Book(users) /\ Book(usersFile)
  BY DEF OperatorsInv, Typed
<1>1. ASSUME NEW s \in SessionIds, Expire(s) \/ Visit(s) \/ Logout(s)
      PROVE  Answers'
  BY <1>1, SilentAnswers DEF Expire, Visit, Logout, Serves, Takes, process, accounts
<1>2. ASSUME NEW l \in Logins,
             \/ \E n \in Names, a \in Sources : LoginBegin(l, n, a)
             \/ \E p \in Passwords : LoginAuthenticate(l, p)
             \/ LoginRefuse(l)
             \/ LoginAccept(l)
      PROVE  Answers'
  <2>1. UNCHANGED <<users, usersFile, told, up>>
    BY <1>2 DEF LoginBegin, LoginAuthenticate, LoginRefuse, LoginAccept, Serves, Takes, process, accounts
  <2> QED
    BY <2>1, SilentAnswers
<1>3. ASSUME NEW s \in SessionIds, NEW n \in Names, NEW p \in Passwords, NEW r \in Roles,
             CreateUser(s, n, p, r)
      PROVE  Answers'
  <2> DEFINE x == [role |-> r, password |-> p, disabled |-> FALSE]
             V == With(users, n, x)
  <2>1. Store({"admin"}, V, n) /\ n \notin DOMAIN users
    BY <1>3 DEF CreateUser
  <2>2. x \in Account
    BY DEF Account
  <2> HIDE DEF x
  <2>3. Differs(users, V, n)
    BY <1>0, <2>1, <2>2, Added
  <2> HIDE DEF V
  <2> QED
    BY <2>1, <2>3, SavedAnswers DEF Store
<1>4. ASSUME NEW s \in SessionIds, NEW n \in Names, DeleteUser(s, n)
      PROVE  Answers'
  <2> DEFINE V == Without(users, n)
  <2>1. Store({"admin"}, V, n)
    BY <1>4 DEF DeleteUser
  <2>2. Differs(users, V, n)
    BY <1>0, Removed
  <2> HIDE DEF V
  <2> QED
    BY <2>1, <2>2, SavedAnswers DEF Store
<1>5. ASSUME NEW s \in SessionIds, NEW n \in Names, NEW body \in Bodies, UpdateBegin(s, n, body)
      PROVE  Answers'
  <2>1. UNCHANGED <<users, usersFile, up>>
        /\ told' = [told EXCEPT ![n] = IF n \in DOMAIN users THEN Unknown ELSE told[n]]
    BY <1>5 DEF UpdateBegin, Takes
  <2>2. told' = told \/ told' = [told EXCEPT ![n] = Unknown]
    BY <2>1 DEF Answers
  <2> QED
    BY <2>1, <2>2, SilentAnswers
<1>6. ASSUME NEW s \in SessionIds, NEW n \in Names, UnlockUser(s, n)
      PROVE  Answers'
  BY <1>6, SilentAnswers DEF UnlockUser, Takes, accounts
<1>7. ASSUME UpdateRefused
      PROVE  Answers'
  BY <1>7, SilentAnswers DEF UpdateRefused, Serves, process, accounts
<1>8. ASSUME UpdateField
      PROVE  Answers'
  <2> DEFINE n == update.name
             c == Head(update.todo)
             V == SetField(users, n, c)
             answer == IF Tail(update.todo) = <<>> THEN Promise(V, n) ELSE Unknown
  <2>1. c \in Changes /\ n \in Names /\ n \in DOMAIN users
    <3>1. update.todo \in Seq(Changes) /\ update.todo # <<>> /\ n \in Names
      BY <1>8 DEF OperatorsInv, Typed, Updates, UpdateField
    <3>2. n \in DOMAIN users
      BY <1>8 DEF UpdateField, Refused
    <3> QED
      BY <3>1, <3>2, HeadTailProperties
  <2>2. Saved({}, V, n, answer) \/ Unsaved({}, V, n)
    BY <1>8, Zenon DEF UpdateField, SetField
  <2> HIDE DEF n, c
  <2>3. Differs(users, V, n)
    BY <1>0, <2>1, Changed
  <2>4. answer \in {Promise(V, n), Unknown}
    OBVIOUS
  <2> HIDE DEF V, answer
  <2> QED
    BY <2>1, <2>2, <2>3, <2>4, SavedAnswers
<1>9. ASSUME NEW n \in Names, NEW p \in Passwords, SetUserPassword(n, p)
      PROVE  Answers'
  <2> DEFINE c == <<"password", p>>
             V == SetField(usersFile, n, c)
  <2>1. n \in DOMAIN usersFile /\ Edit([usersFile EXCEPT ![n].password = p], n)
    BY <1>9 DEF SetUserPassword
  <2>2. V = [usersFile EXCEPT ![n].password = p]
    BY DEF SetField
  <2>3. c \in Changes
    BY DEF Changes
  <2> HIDE DEF c
  <2>4. Differs(usersFile, V, n)
    BY <1>0, <2>1, <2>3, Changed
  <2>5. Edit(V, n)
    BY <2>1, <2>2
  <2> HIDE DEF V
  <2>6. ~up
    BY <2>5 DEF Edit, ServerAway
  <2> QED
    BY <2>4, <2>5, <2>6, EditedAnswers
<1>10. ASSUME NEW n \in Names, NEW p \in Passwords, NEW r \in Roles, AddUser(n, p, r)
       PROVE  Answers'
  <2> DEFINE x == [role |-> r, password |-> p, disabled |-> FALSE]
             V == With(usersFile, n, x)
  <2>1. n \notin DOMAIN usersFile /\ Edit(V, n)
    BY <1>10 DEF AddUser
  <2>2. x \in Account
    BY DEF Account
  <2> HIDE DEF x
  <2>3. Differs(usersFile, V, n)
    BY <1>0, <2>1, <2>2, Added
  <2> HIDE DEF V
  <2>4. ~up
    BY <2>1 DEF Edit, ServerAway
  <2> QED
    BY <2>1, <2>3, <2>4, EditedAnswers
<1> QED
  BY <1>1, <1>2, <1>3, <1>4, <1>5, <1>6, <1>7, <1>8, <1>9, <1>10 DEF OperatorsNext

LEMMA AnswersInitially == OperatorsInit => Answers
BY DEF OperatorsInit, Answers, AnswersHold

\* A start of the process takes the file's word.
LEMMA AnswersBoot == Answers /\ OperatorsBoot => Answers'
<1> SUFFICES ASSUME Answers, OperatorsBoot PROVE Answers'
  OBVIOUS
<1>1. users' = usersFile /\ UNCHANGED <<usersFile, told>>
  BY DEF OperatorsBoot
<1>2. \A m \in Names : Answered(m)'
  BY <1>1, AnswersIn DEF Answered
<1> QED
  BY <1>1, <1>2 DEF Answers, AnswersHold, Answered

-----------------------------------------------------------------------------
(* Who is a lead, unless its account has changed since time t.              *)

Trusted(n, t) == t <= now /\ (n \in EnabledLeads(users) \/ changed[n] >= t)

LEMMA TrustedSteps ==
    ASSUME OperatorsInv, OperatorsNext, NEW m \in Names, NEW t \in Nat, Trusted(m, t)
    PROVE  Trusted(m, t)'
<1>1. CASE UNCHANGED <<users, now, changed>>
  BY <1>1 DEF Trusted, EnabledLeads
<1>2. ASSUME NEW n \in Names, changed' = [changed EXCEPT ![n] = now], UNCHANGED now,
             users' = users \/ Differs(users, users', n)
      PROVE  Trusted(m, t)'
  <2>1. changed'[m] = IF m = n THEN now ELSE changed[m]
    BY <1>2 DEF OperatorsInv, Typed
  <2>2. CASE m = n
    BY <1>2, <2>1, <2>2 DEF Trusted
  <2>3. CASE m # n
    BY <1>2, <2>1, <2>3 DEF Trusted, EnabledLeads, Differs
  <2> QED
    BY <2>2, <2>3
<1>3. CASE Quiet \/ \E l \in Logins : LoginAccept(l)
  BY <1>1, <1>3 DEF Quiet, LoginAccept, Serves, process, accounts
<1>4. ASSUME NEW n \in Names, NEW V, Renewed(V, n) PROVE Trusted(m, t)'
  BY <1>2, <1>4 DEF Renewed
<1>5. ASSUME NEW n \in Names, NEW U, Edit(U, n) PROVE Trusted(m, t)'
  BY <1>2, <1>5 DEF Edit, Shell
<1> QED
  BY <1>3, <1>4, <1>5, OperatorsKinds DEF OneOfKind

\* The lead that a live session says its operator is.
LEMMA LeadTrusted ==
    ASSUME OperatorsInv, NEW s \in DOMAIN sessions, sessions[s].role = "lead"
    PROVE  sessions[s].user \in Names /\ Trusted(sessions[s].user, sessions[s].created)
<1>1. sessions[s].user \in Names
  BY DEF OperatorsInv, Typed, Sessions
<1>2. ASSUME NEW n, n = sessions[s].user, ~(n \notin DOMAIN users \/ users[n].disabled \/ users[n].role # "lead")
      PROVE  n \in EnabledLeads(users)
  BY <1>2 DEF EnabledLeads
<1>3. /\ sessions[s].created <= now
      /\ Mismatch(users, sessions[s].user, "lead") => changed[sessions[s].user] >= sessions[s].created
  BY DEF OperatorsInv, Dated, SessionsDated
<1> QED
  BY <1>1, <1>2, <1>3 DEF Trusted, Mismatch

-----------------------------------------------------------------------------
(* The lockout and the limiter.  An entry of the LoginTracker forgets more  *)
(* than its operator's failures have been: it counts those of one window,   *)
(* and it is dropped when the tracker is full.  What it says must still be  *)
(* covered by failures since the last reset.                                *)

Entries == [failed : Nat, since : Nat, until : Nat, touched : Nat]

\* The denials in d that are not before t, and those that can lock out at t.
From(d, t)  == {i \in DOMAIN d : d[i] >= t}
Cause(d, t) == {i \in DOMAIN d : d[i] \in t - LockWindow .. t}

\* Entry e at time t, of an operator with the denials d.
Covered(e, d, t) ==
    /\ e.failed > 0 => e.since <= t /\ Cardinality(From(d, e.since)) >= e.failed
    /\ e.until > 0 => Cardinality(Cause(d, e.until - LockFor)) >= Threshold

LockTyped ==
    /\ DOMAIN tracked \subseteq Names /\ tracked \in [DOMAIN tracked -> Entries]
    /\ IsFiniteSet(DOMAIN tracked) /\ Cardinality(DOMAIN tracked) <= MaxTracked
    /\ throttle \in [DOMAIN throttle -> [count : Nat, first : Nat]]
    /\ denials \in [Names -> Seq(Nat)]

Denied  == \A n \in Names : \A i \in DOMAIN denials[n] : denials[n][i] <= now
Locking == \A n \in DOMAIN tracked : Covered(tracked[n], denials[n], now)

LockInv == LockTyped /\ Denied /\ Locking

LEMMA Sets ==
    ASSUME NEW d \in Seq(Nat), NEW t \in Int
    PROVE  /\ IsFiniteSet(From(d, t)) /\ Cardinality(From(d, t)) \in Nat
           /\ IsFiniteSet(Cause(d, t)) /\ Cardinality(Cause(d, t)) \in Nat
<1>1. DOMAIN d = 1..Len(d) /\ Len(d) \in Nat
  OBVIOUS
<1>2. IsFiniteSet(1..Len(d))
  BY <1>1, FS_Interval
<1>3. From(d, t) \subseteq 1..Len(d) /\ Cause(d, t) \subseteq 1..Len(d)
  BY <1>1 DEF From, Cause
<1> QED
  BY <1>2, <1>3, FS_Subset, FS_CardinalityType

LEMMA OneMoreDenial ==
    ASSUME NEW d \in Seq(Nat), NEW t \in Nat
    PROVE  /\ Append(d, t) \in Seq(Nat)
           /\ \A i \in DOMAIN Append(d, t) :
                 Append(d, t)[i] = t \/ (i \in DOMAIN d /\ Append(d, t)[i] = d[i])
           /\ \A s \in Int : Cardinality(Cause(d, s)) <= Cardinality(Cause(Append(d, t), s))
           /\ \A s \in Int : s <= t =>
                 Cardinality(From(Append(d, t), s)) = Cardinality(From(d, s)) + 1
<1> DEFINE D == Append(d, t)
<1>1. /\ D \in Seq(Nat) /\ Len(d) \in Nat /\ DOMAIN d = 1..Len(d) /\ DOMAIN D = 1..Len(d) + 1
      /\ D[Len(d) + 1] = t /\ \A i \in 1..Len(d) : D[i] = d[i]
  OBVIOUS
<1> HIDE DEF D
<1>2. ASSUME NEW s \in Int PROVE Cardinality(Cause(d, s)) <= Cardinality(Cause(D, s))
  <2>1. Cause(d, s) \subseteq Cause(D, s)
    BY <1>1 DEF Cause
  <2>2. IsFiniteSet(Cause(D, s))
    BY <1>1, Sets, Zenon
  <2> QED
    BY <2>1, <2>2, FS_Subset
<1>3. ASSUME NEW s \in Int, s <= t PROVE Cardinality(From(D, s)) = Cardinality(From(d, s)) + 1
  <2>1. From(D, s) = From(d, s) \cup {Len(d) + 1} /\ Len(d) + 1 \notin From(d, s)
    BY <1>1, <1>3 DEF From
  <2>2. IsFiniteSet(From(d, s))
    BY Sets, Zenon
  <2> QED
    BY <2>1, <2>2, FS_AddElement
<1>4. \A i \in DOMAIN D : D[i] = t \/ (i \in DOMAIN d /\ D[i] = d[i])
  BY <1>1
<1>5. /\ \A s \in Int : Cardinality(Cause(d, s)) <= Cardinality(Cause(D, s))
      /\ \A s \in Int : s <= t => Cardinality(From(D, s)) = Cardinality(From(d, s)) + 1
  BY <1>2, <1>3
<1> QED
  BY <1>1, <1>4, <1>5, Zenon DEF D

LEMMA FreshCovered ==
    ASSUME NEW e, e.failed = 0, e.until = 0, NEW d, NEW t
    PROVE  Covered(e, d, t)
BY DEF Covered

LEMMA LaterCovered ==
    ASSUME NEW e \in Entries, NEW d, NEW t \in Nat, NEW u \in Nat, t <= u, Covered(e, d, t)
    PROVE  Covered(e, d, u)
BY DEF Covered, Entries

\* k failures from s on, and one more at t.
LEMMA OneMoreCovers ==
    ASSUME NEW d \in Seq(Nat), NEW t \in Nat, \A i \in DOMAIN d : d[i] <= t,
           NEW s \in Nat, s <= t, t - s <= LockWindow,
           NEW k \in Nat, k = 0 \/ Cardinality(From(d, s)) >= k
    PROVE  /\ Cardinality(From(Append(d, t), s)) >= k + 1
           /\ Cardinality(Cause(Append(d, t), t)) >= k + 1
           /\ \A a \in Int : /\ Cardinality(Cause(Append(d, t), a)) >= Cardinality(Cause(d, a))
                             /\ Cardinality(Cause(Append(d, t), a)) \in Nat
                             /\ Cardinality(Cause(d, a)) \in Nat
<1> DEFINE D == Append(d, t)
<1>0. LockWindow \in Nat /\ s \in Int /\ t \in Int
  BY OperatorsAssumption
<1>1. /\ D \in Seq(Nat)
      /\ \A i \in DOMAIN D : D[i] = t \/ (i \in DOMAIN d /\ D[i] = d[i])
      /\ \A a \in Int : Cardinality(Cause(d, a)) <= Cardinality(Cause(D, a))
      /\ \A a \in Int : a <= t => Cardinality(From(D, a)) = Cardinality(From(d, a)) + 1
  BY OneMoreDenial, Zenon
<1> HIDE DEF D
<1>2. Cardinality(From(d, s)) \in Nat /\ Cardinality(From(D, s)) \in Nat
  BY <1>0, <1>1, Sets, Zenon
<1>3. \A a \in Int : /\ Cardinality(Cause(D, a)) \in Nat /\ Cardinality(Cause(d, a)) \in Nat
                     /\ IsFiniteSet(Cause(D, a))
  BY <1>1, Sets, Zenon
<1>4. Cardinality(From(D, s)) >= k + 1
  BY <1>1, <1>2
<1>5. Cardinality(Cause(D, t)) >= k + 1
  <2>1. From(D, s) \subseteq Cause(D, t)
    <3>1. \A i \in DOMAIN D : D[i] \in Nat /\ D[i] <= t
      BY <1>1
    <3> QED
      BY <1>0, <3>1 DEF From, Cause
  <2>2. IsFiniteSet(Cause(D, t)) /\ Cardinality(Cause(D, t)) \in Nat
    BY <1>0, <1>3
  <2>3. Cardinality(From(D, s)) <= Cardinality(Cause(D, t))
    BY <2>1, <2>2, FS_Subset
  <2> QED
    BY <1>2, <1>4, <2>2, <2>3
<1>6. \A a \in Int : Cardinality(Cause(D, a)) >= Cardinality(Cause(d, a))
  BY <1>1, <1>3
<1> QED
  BY <1>3, <1>4, <1>5, <1>6 DEF D

LEMMA OneMoreCovered ==
    ASSUME NEW t \in Nat, NEW e \in Entries, NEW d \in Seq(Nat), Covered(e, d, t),
           \A i \in DOMAIN d : d[i] <= t,
           NEW k \in Nat, k \in {0, e.failed}, k > 0 => t - e.since <= LockWindow,
           NEW f \in Entries, f.failed = k + 1, f.since = IF k = 0 THEN t ELSE e.since,
           f.until = IF k + 1 >= Threshold THEN t + LockFor ELSE e.until
    PROVE  Covered(f, Append(d, t), t)
<1> DEFINE s == f.since
           u == f.until
           D == Append(d, t)
<1>0. /\ e.failed \in Nat /\ e.since \in Nat /\ e.until \in Nat
      /\ s \in Nat /\ u \in Nat /\ s = (IF k = 0 THEN t ELSE e.since)
      /\ u = (IF k + 1 >= Threshold THEN t + LockFor ELSE e.until)
      /\ Threshold \in Nat \ {0} /\ LockFor \in Nat \ {0} /\ LockWindow \in Nat
  BY OperatorsAssumption DEF Entries
<1>1. f.failed = k + 1 /\ f.since = s /\ f.until = u
  OBVIOUS
<1> HIDE DEF s, u, D
<1>2. s <= t /\ t - s <= LockWindow
  BY <1>0 DEF Covered
<1>3. k = 0 \/ Cardinality(From(d, s)) >= k
  BY <1>0 DEF Covered
<1>4. /\ Cardinality(From(D, s)) >= k + 1
      /\ Cardinality(Cause(D, t)) >= k + 1
      /\ \A a \in Int : /\ Cardinality(Cause(D, a)) >= Cardinality(Cause(d, a))
                        /\ Cardinality(Cause(D, a)) \in Nat
                        /\ Cardinality(Cause(d, a)) \in Nat
  BY <1>0, <1>2, <1>3, OneMoreCovers, Zenon DEF D
<1>5. e.until > 0 => Cardinality(Cause(d, e.until - LockFor)) >= Threshold
  BY DEF Covered
<1>6. u > 0 => Cardinality(Cause(D, u - LockFor)) >= Threshold
  <2>1. CASE k + 1 >= Threshold
    <3>1. u - LockFor = t /\ t \in Int
      BY <1>0, <2>1
    <3>2. Cardinality(Cause(D, u - LockFor)) >= k + 1 /\ Cardinality(Cause(D, u - LockFor)) \in Nat
      BY <1>4, <3>1
    <3> HIDE DEF Cause
    <3> QED
      BY <1>0, <2>1, <3>2
  <2>2. CASE ~(k + 1 >= Threshold)
    <3>1. u = e.until /\ u - LockFor \in Int
      BY <1>0, <2>2
    <3>2. /\ Cardinality(Cause(D, u - LockFor)) >= Cardinality(Cause(d, u - LockFor))
          /\ Cardinality(Cause(D, u - LockFor)) \in Nat /\ Cardinality(Cause(d, u - LockFor)) \in Nat
      BY <1>4, <3>1
    <3>3. u > 0 => Cardinality(Cause(d, u - LockFor)) >= Threshold
      BY <1>5, <3>1
    <3> QED
      BY <1>0, <3>2, <3>3
  <2> QED
    BY <2>1, <2>2
<1>7. s <= t /\ Cardinality(From(D, s)) >= k + 1
  BY <1>2, <1>4
<1> QED
  BY <1>1, <1>6, <1>7 DEF Covered, D

-----------------------------------------------------------------------------
(* The tracker with a new entry for n.                                     *)

LEMMA Tracking ==
    ASSUME LockTyped, NEW n \in Names, NEW e \in Entries, Track(n, e)
    PROVE  /\ DOMAIN tracked' \subseteq Names /\ tracked' \in [DOMAIN tracked' -> Entries]
           /\ IsFiniteSet(DOMAIN tracked') /\ Cardinality(DOMAIN tracked') <= MaxTracked
           /\ n \in DOMAIN tracked' /\ tracked'[n] = e
           /\ \A m \in DOMAIN tracked' : m # n => m \in DOMAIN tracked /\ tracked'[m] = tracked[m]
<1>0. MaxTracked \in Nat \ {0}
  BY OperatorsAssumption
<1>1. PICK room \in Rooms(n) : tracked' = With(room, n, e)
  BY DEF Track
<1> DEFINE Part(r) ==
               /\ DOMAIN r \subseteq DOMAIN tracked /\ \A m \in DOMAIN r : r[m] = tracked[m]
               /\ n \in DOMAIN r \/ Cardinality(DOMAIN r) < MaxTracked
               /\ Cardinality(DOMAIN r) <= MaxTracked
<1>2. Part(room)
  <2>1. CASE room = tracked /\ (n \in DOMAIN tracked \/ Cardinality(DOMAIN tracked) < MaxTracked)
    BY <2>1 DEF LockTyped
  <2>2. ASSUME NEW m \in DOMAIN tracked, room = Without(tracked, m) PROVE Part(room)
    <3>1. DOMAIN room = DOMAIN tracked \ {m} /\ \A x \in DOMAIN room : room[x] = tracked[x]
      BY <2>2 DEF Without, Restrict
    <3>2. Cardinality(DOMAIN room) = Cardinality(DOMAIN tracked) - 1 /\ Cardinality(DOMAIN tracked) \in Nat
      BY <3>1, FS_RemoveElement, FS_CardinalityType DEF LockTyped
    <3> QED
      BY <1>0, <3>1, <3>2 DEF LockTyped
  <2> QED
    BY <1>1, <2>1, <2>2 DEF Rooms
<1>3. /\ DOMAIN tracked' = DOMAIN room \cup {n}
      /\ \A m \in DOMAIN tracked' : tracked'[m] = IF m = n THEN e ELSE room[m]
      /\ tracked' = [m \in DOMAIN tracked' |-> IF m = n THEN e ELSE room[m]]
  BY <1>1 DEF With
<1>4. IsFiniteSet(DOMAIN room) /\ Cardinality(DOMAIN room) \in Nat
  BY <1>2, FS_Subset, FS_CardinalityType DEF LockTyped
<1>5. IsFiniteSet(DOMAIN tracked') /\ Cardinality(DOMAIN tracked') <= MaxTracked
  <2>1. /\ IsFiniteSet(DOMAIN room \cup {n})
        /\ Cardinality(DOMAIN room \cup {n})
              = IF n \in DOMAIN room THEN Cardinality(DOMAIN room) ELSE Cardinality(DOMAIN room) + 1
    BY <1>4, FS_AddElement, Zenon
  <2> QED
    BY <1>0, <1>2, <1>3, <1>4, <2>1
<1>6. DOMAIN tracked' \subseteq Names /\ \A m \in DOMAIN tracked' : tracked'[m] \in Entries
  BY <1>2, <1>3 DEF LockTyped
<1> QED
  BY <1>2, <1>3, <1>5, <1>6

\* A request that ends as a failure of n, and the failure counts.
LEMMA RefusedCovered ==
    ASSUME LockInv, now \in Nat, NEW n \in Names, RecordFailure(n), UNCHANGED now,
           denials' = [denials EXCEPT ![n] = Append(@, now)],
           throttle' \in [DOMAIN throttle' -> [count : Nat, first : Nat]]
    PROVE  LockInv'
<1> DEFINE k == IF Entry(n).failed > 0 /\ now - Entry(n).since > LockWindow THEN 0 ELSE Entry(n).failed
           f == OneMore(n, k)
<1>1. Entry(n) \in Entries /\ Covered(Entry(n), denials[n], now)
  <2>1. Fresh \in Entries /\ Fresh.failed = 0 /\ Fresh.until = 0
    BY DEF Fresh, Entries
  <2> QED
    BY <2>1, FreshCovered DEF Entry, LockInv, LockTyped, Locking
<1>2. k \in Nat /\ k \in {0, Entry(n).failed} /\ (k > 0 => now - Entry(n).since <= LockWindow)
  BY <1>1, OperatorsAssumption DEF Entries
<1>3. Track(n, f)
  BY DEF RecordFailure
<1> HIDE DEF k
<1>4. /\ f \in Entries /\ f.failed = k + 1
      /\ f.since = (IF k = 0 THEN now ELSE Entry(n).since)
      /\ f.until = (IF k + 1 >= Threshold THEN now + LockFor ELSE Entry(n).until)
  BY <1>1, <1>2, OperatorsAssumption DEF OneMore, Entries
<1> HIDE DEF f
<1>5. denials[n] \in Seq(Nat) /\ \A i \in DOMAIN denials[n] : denials[n][i] <= now
  BY DEF LockInv, LockTyped, Denied
<1>6. Covered(f, Append(denials[n], now), now)
  BY <1>1, <1>2, <1>4, <1>5, OneMoreCovered, Zenon
<1>7. /\ DOMAIN tracked' \subseteq Names /\ tracked' \in [DOMAIN tracked' -> Entries]
      /\ IsFiniteSet(DOMAIN tracked') /\ Cardinality(DOMAIN tracked') <= MaxTracked
      /\ n \in DOMAIN tracked' /\ tracked'[n] = f
      /\ \A m \in DOMAIN tracked' : m # n => m \in DOMAIN tracked /\ tracked'[m] = tracked[m]
  BY <1>3, <1>4, Tracking DEF LockInv
<1>8. /\ denials' = [m \in Names |-> IF m = n THEN Append(denials[n], now) ELSE denials[m]]
      /\ \A m \in Names : denials'[m] = IF m = n THEN Append(denials[n], now) ELSE denials[m]
  BY DEF LockInv, LockTyped
<1>9. /\ Append(denials[n], now) \in Seq(Nat)
      /\ \A i \in DOMAIN Append(denials[n], now) : Append(denials[n], now)[i] <= now
  <2>1. /\ Append(denials[n], now) \in Seq(Nat)
        /\ \A i \in DOMAIN Append(denials[n], now) :
              \/ Append(denials[n], now)[i] = now
              \/ i \in DOMAIN denials[n] /\ Append(denials[n], now)[i] = denials[n][i]
    BY <1>5, OneMoreDenial, Zenon
  <2> QED
    BY <1>5, <2>1
<1>10. denials' \in [Names -> Seq(Nat)] /\ Denied'
  BY <1>8, <1>9 DEF LockInv, LockTyped, Denied
<1>11. Locking'
  <2> SUFFICES ASSUME NEW m \in DOMAIN tracked' PROVE Covered(tracked'[m], denials'[m], now)
    BY DEF Locking, Covered, From, Cause
  <2>1. m \in Names
    BY <1>7
  <2>2. CASE m = n
    BY <1>6, <1>7, <1>8, <2>2
  <2>3. CASE m # n
    BY <1>7, <1>8, <2>1, <2>3 DEF LockInv, Locking
  <2> QED
    BY <2>2, <2>3
<1> QED
  BY <1>7, <1>10, <1>11 DEF LockInv, LockTyped

\* A login that succeeds, or an unlock by a lead: nothing is held against n.
LEMMA Forgiven ==
    ASSUME LockInv, UNCHANGED now, NEW n \in Names, NEW e \in Entries, e.failed = 0, e.until = 0,
           DOMAIN tracked' \subseteq Names, tracked' \in [DOMAIN tracked' -> Entries],
           IsFiniteSet(DOMAIN tracked'), Cardinality(DOMAIN tracked') <= MaxTracked,
           n \in DOMAIN tracked' => tracked'[n] = e,
           \A m \in DOMAIN tracked' : m # n => m \in DOMAIN tracked /\ tracked'[m] = tracked[m],
           denials' = [denials EXCEPT ![n] = <<>>],
           throttle' \in [DOMAIN throttle' -> [count : Nat, first : Nat]]
    PROVE  LockInv'
<1>1. /\ denials' \in [Names -> Seq(Nat)]
      /\ \A m \in Names : denials'[m] = IF m = n THEN <<>> ELSE denials[m]
  BY DEF LockInv, LockTyped
<1>2. Denied'
  BY <1>1 DEF LockInv, Denied
<1>3. Locking'
  <2> SUFFICES ASSUME NEW m \in DOMAIN tracked' PROVE Covered(tracked'[m], denials'[m], now)
    BY DEF Locking, Covered, From, Cause
  <2>1. CASE m = n
    BY <2>1, FreshCovered
  <2>2. CASE m # n
    BY <1>1, <2>2 DEF LockInv, Locking
  <2> QED
    BY <2>1, <2>2
<1> QED
  BY <1>1, <1>2, <1>3 DEF LockInv, LockTyped

LEMMA LockStays ==
    ASSUME LockInv, UNCHANGED <<now, tracked, denials>>,
           throttle' \in [DOMAIN throttle' -> [count : Nat, first : Nat]]
    PROVE  LockInv'
BY DEF LockInv, LockTyped, Denied, Locking, Covered, From, Cause

\* The limiter's entries without, or with one more failure.
Counts(f) == f \in [DOMAIN f -> [count : Nat, first : Nat]]

LEMMA Counting ==
    ASSUME NEW f, Counts(f), NEW a, now \in Nat
    PROVE  Counts(Without(f, a)) /\ Counts(Asked(f, a)) /\ Counts(Failed(f, a))
<1>1. Counts(Without(f, a))
  <2>1. Without(f, a) = [x \in DOMAIN f \ {a} |-> f[x]]
    BY DEF Without, Restrict
  <2> QED
    BY <2>1 DEF Counts
<1>2. Counts(Asked(f, a))
  BY <1>1 DEF Asked
<1>3. ASSUME a \in DOMAIN f PROVE Counts([f EXCEPT ![a].count = @ + 1])
  <2> DEFINE r == [f[a] EXCEPT !.count = @ + 1]
  <2>1. r \in [count : Nat, first : Nat]
    <3>1. f[a] \in [count : Nat, first : Nat]
      BY <1>3 DEF Counts
    <3> QED
      BY <3>1
  <2>2. [f EXCEPT ![a].count = @ + 1] = [x \in DOMAIN f |-> IF x = a THEN r ELSE f[x]]
    BY DEF Counts
  <2> QED
    BY <2>1, <2>2 DEF Counts
<1>4. ASSUME NEW g, Counts(g), NEW r \in [count : Nat, first : Nat] PROVE Counts(With(g, a, r))
  <2>1. With(g, a, r) = [x \in DOMAIN g \cup {a} |-> IF x = a THEN r ELSE g[x]]
    BY DEF With
  <2> QED
    BY <1>4, <2>1 DEF Counts
<1>5. [count |-> 1, first |-> now] \in [count : Nat, first : Nat]
  OBVIOUS
<1>6. Counts(Failed(f, a))
  <2>1. CASE a \in DOMAIN Asked(f, a)
    <3>1. a \in DOMAIN f
      BY <2>1 DEF Asked, Without, Restrict
    <3> QED
      BY <1>3, <2>1, <3>1 DEF Failed
  <2>2. CASE a \notin DOMAIN Asked(f, a)
    BY <1>4, <1>5, <2>2 DEF Failed, Counts
  <2> QED
    BY <2>1, <2>2
<1> QED
  BY <1>1, <1>2, <1>6

LEMMA LockSteps == ASSUME OperatorsInv, LockInv, OperatorsNext PROVE LockInv'
<1>0. now \in Nat /\ login \in [Logins -> LoginStates] /\ Counts(throttle)
  BY DEF OperatorsInv, Typed, LockInv, LockTyped, Counts
<1>1. CASE UNCHANGED <<now, lockouts>>
  BY <1>1, LockStays DEF LockInv, LockTyped, lockouts
<1>2. ASSUME NEW l \in Logins, NEW n \in Names, NEW a \in Sources, LoginBegin(l, n, a) PROVE LockInv'
  <2>1. UNCHANGED <<now, tracked, denials>> /\ throttle' = Asked(throttle, a)
    BY <1>2 DEF LoginBegin, Takes
  <2>2. throttle' \in [DOMAIN throttle' -> [count : Nat, first : Nat]]
    BY <1>0, <2>1, Counting DEF Counts
  <2> QED
    BY <2>1, <2>2, LockStays
<1>3. ASSUME NEW l \in Logins, LoginRefuse(l) PROVE LockInv'
  <2> DEFINE n == login[l].name
  <2>1. n \in Names
    <3>1. login[l] \in LoginStates /\ login[l].at = "refused"
      BY <1>0, <1>3 DEF LoginRefuse
    <3> QED
      BY <3>1 DEF LoginStates, NoLogin
  <2>2. /\ UNCHANGED now /\ RecordFailure(n) /\ denials' = [denials EXCEPT ![n] = Append(@, now)]
        /\ throttle' = Failed(throttle, login[l].source)
    BY <1>3 DEF LoginRefuse, Serves, process
  <2>3. throttle' \in [DOMAIN throttle' -> [count : Nat, first : Nat]]
    BY <1>0, <2>2, Counting DEF Counts
  <2> HIDE DEF n
  <2> QED
    BY <1>0, <2>1, <2>2, <2>3, RefusedCovered
<1>4. ASSUME NEW l \in Logins, LoginAccept(l) PROVE LockInv'
  <2> DEFINE n == login[l].name
             e == [Fresh EXCEPT !.touched = now]
  <2>1. n \in Names
    <3>1. login[l] \in LoginStates /\ login[l].at = "accepted"
      BY <1>0, <1>4 DEF LoginAccept
    <3> QED
      BY <3>1 DEF LoginStates, NoLogin
  <2>2. /\ UNCHANGED now /\ Track(n, e) /\ denials' = [denials EXCEPT ![n] = <<>>]
        /\ throttle' = Without(throttle, login[l].source)
    BY <1>4 DEF LoginAccept, Serves, process, RecordSuccess
  <2>3. e \in Entries /\ e.failed = 0 /\ e.until = 0
    BY <1>0 DEF Entries, Fresh
  <2>4. throttle' \in [DOMAIN throttle' -> [count : Nat, first : Nat]]
    BY <1>0, <2>2, Counting DEF Counts
  <2> HIDE DEF n, e
  <2>5. /\ DOMAIN tracked' \subseteq Names /\ tracked' \in [DOMAIN tracked' -> Entries]
        /\ IsFiniteSet(DOMAIN tracked') /\ Cardinality(DOMAIN tracked') <= MaxTracked
        /\ n \in DOMAIN tracked' /\ tracked'[n] = e
        /\ \A m \in DOMAIN tracked' : m # n => m \in DOMAIN tracked /\ tracked'[m] = tracked[m]
    BY <2>1, <2>2, <2>3, Tracking DEF LockInv
  <2> QED
    BY <2>1, <2>2, <2>3, <2>4, <2>5, Forgiven
<1>5. ASSUME NEW s \in SessionIds, NEW n \in Names, UnlockUser(s, n) PROVE LockInv'
  <2> DEFINE e == [Fresh EXCEPT !.touched = tracked[n].touched]
  <2>1. /\ UNCHANGED <<now, throttle>> /\ n \in DOMAIN tracked /\ tracked' = [tracked EXCEPT ![n] = e]
        /\ denials' = [denials EXCEPT ![n] = <<>>]
    BY <1>5 DEF UnlockUser, Takes
  <2>2. e \in Entries /\ e.failed = 0 /\ e.until = 0
    <3>1. tracked[n] \in Entries
      BY <2>1 DEF LockInv, LockTyped
    <3> QED
      BY <3>1 DEF Entries, Fresh
  <2> HIDE DEF e
  <2>3. /\ DOMAIN tracked' = DOMAIN tracked /\ tracked' \in [DOMAIN tracked -> Entries]
        /\ \A m \in DOMAIN tracked : tracked'[m] = IF m = n THEN e ELSE tracked[m]
    BY <2>1, <2>2 DEF LockInv, LockTyped
  <2>4. /\ DOMAIN tracked' \subseteq Names /\ tracked' \in [DOMAIN tracked' -> Entries]
        /\ IsFiniteSet(DOMAIN tracked') /\ Cardinality(DOMAIN tracked') <= MaxTracked
        /\ n \in DOMAIN tracked' => tracked'[n] = e
        /\ \A m \in DOMAIN tracked' : m # n => m \in DOMAIN tracked /\ tracked'[m] = tracked[m]
    BY <2>3 DEF LockInv, LockTyped
  <2>5. throttle' \in [DOMAIN throttle' -> [count : Nat, first : Nat]]
    BY <2>1 DEF LockInv, LockTyped
  <2> QED
    BY <2>1, <2>2, <2>4, <2>5, Forgiven
<1>6. ASSUME NEW s \in SessionIds, Expire(s) \/ Visit(s) \/ Logout(s) PROVE UNCHANGED <<now, lockouts>>
  BY <1>6 DEF Expire, Visit, Logout, Serves, Takes, process
<1>7. ASSUME NEW l \in Logins, NEW p \in Passwords, LoginAuthenticate(l, p)
      PROVE  UNCHANGED <<now, lockouts>>
  BY <1>7 DEF LoginAuthenticate, Serves, process
<1>8. \A kinds, U, n : Store(kinds, U, n) => UNCHANGED now
  BY DEF Store, Saved, Unsaved, Takes
<1>9. ASSUME NEW s \in SessionIds, NEW n \in Names,
             \/ \E p \in Passwords, r \in Roles : CreateUser(s, n, p, r)
             \/ DeleteUser(s, n)
             \/ \E body \in Bodies : UpdateBegin(s, n, body)
      PROVE  UNCHANGED <<now, lockouts>>
  BY <1>8, <1>9 DEF CreateUser, DeleteUser, UpdateBegin, Takes
<1>10. UpdateRefused \/ UpdateField => UNCHANGED <<now, lockouts>>
  BY DEF UpdateRefused, UpdateField, Saved, Unsaved, Serves, Takes, process
<1>11. ASSUME NEW n \in Names, NEW p \in Passwords,
              SetUserPassword(n, p) \/ \E r \in Roles : AddUser(n, p, r)
       PROVE  UNCHANGED <<now, lockouts>>
  BY <1>11 DEF SetUserPassword, AddUser, Edit, Shell
<1> QED
  BY <1>1, <1>2, <1>3, <1>4, <1>5, <1>6, <1>7, <1>9, <1>10, <1>11 DEF OperatorsNext

LEMMA LockInitially == ProcessInit /\ OperatorsInit => LockInv
<1> SUFFICES ASSUME ProcessInit, OperatorsInit PROVE LockInv
  OBVIOUS
<1>1. tracked = <<>> /\ throttle = <<>> /\ denials = [n \in Names |-> <<>>]
  BY DEF OperatorsInit, Nothing
<1>2. DOMAIN tracked = {} /\ DOMAIN throttle = {} /\ tracked \in [{} -> Entries]
      /\ throttle \in [{} -> [count : Nat, first : Nat]] /\ denials \in [Names -> Seq(Nat)]
  BY <1>1
<1>3. LockTyped
  BY <1>2, FS_EmptySet, OperatorsAssumption DEF LockTyped
<1>4. Denied /\ Locking
  BY <1>1, <1>2 DEF Denied, Locking
<1> QED
  BY <1>3, <1>4 DEF LockInv

\* The clock, a stop and a start of the process.
LEMMA LockProcess ==
    ASSUME LockInv, now \in Nat
    PROVE  /\ Pass /\ OperatorsPass => LockInv'
           /\ Boot /\ OperatorsBoot => LockInv'
<1>1. ASSUME Pass, OperatorsPass PROVE LockInv'
  <2>1. now' = now + 1 /\ now' \in Nat /\ UNCHANGED <<tracked, throttle, denials>>
    BY <1>1 DEF Pass, OperatorsPass, operators, lockouts
  <2>2. LockTyped'
    BY <2>1 DEF LockInv, LockTyped
  <2>3. Denied'
    <3>1. \A n \in Names : \A i \in DOMAIN denials[n] : denials[n][i] \in Nat
      BY DEF LockInv, LockTyped
    <3> QED
      BY <2>1, <3>1 DEF LockInv, Denied
  <2>4. Locking'
    <3>1. \A n \in DOMAIN tracked : Covered(tracked[n], denials[n], now')
      BY <2>1, LaterCovered DEF LockInv, LockTyped, Locking
    <3> QED
      BY <2>1, <3>1 DEF Locking
  <2> QED
    BY <2>2, <2>3, <2>4 DEF LockInv
<1>2. ASSUME Boot, OperatorsBoot PROVE LockInv'
  <2>1. PICK seeded \in SUBSET Names : IsFiniteSet(seeded) /\ Cardinality(seeded) <= MaxTracked
                                       /\ tracked' = [n \in seeded |-> Fresh]
    BY <1>2 DEF OperatorsBoot
  <2>2. throttle' = <<>> /\ denials' = [n \in Names |-> <<>>]
    BY <1>2 DEF OperatorsBoot, Nothing
  <2>3. Fresh \in Entries /\ Fresh.failed = 0 /\ Fresh.until = 0
    BY DEF Fresh, Entries
  <2>4. DOMAIN throttle' = {} /\ throttle' \in [{} -> [count : Nat, first : Nat]]
    BY <2>2
  <2>5. LockTyped'
    BY <2>1, <2>2, <2>3, <2>4 DEF LockTyped
  <2>6. Denied'
    BY <2>2 DEF Denied
  <2>7. Locking'
    BY <2>1, <2>3, FreshCovered DEF Locking
  <2> QED
    BY <2>5, <2>6, <2>7 DEF LockInv
<1> QED
  BY <1>1, <1>2

LEMMA LockedForCause == LockInv /\ now \in Nat => LockoutHasCause
<1> SUFFICES ASSUME LockInv, now \in Nat, NEW n \in Names, Locked(n)
             PROVE  Cardinality(Cause(denials[n], tracked[n].until - LockFor)) >= Threshold
  BY DEF LockoutHasCause, Cause
<1>1. n \in DOMAIN tracked /\ tracked[n].until > 0
  BY DEF Locked, LockInv, LockTyped, Entries
<1> QED
  BY <1>1 DEF LockInv, Locking, Covered

-----------------------------------------------------------------------------
(* What answers have promised.                                             *)

ToldTyped == told \in [Names -> [sure : BOOLEAN, is : SUBSET Account]]

LEMMA Promising ==
    /\ \A U, n : Book(U) => Promise(U, n) \in [sure : BOOLEAN, is : SUBSET Account]
    /\ Unknown \in [sure : BOOLEAN, is : SUBSET Account]
<1>1. ASSUME NEW U, NEW n, Book(U) PROVE Promise(U, n) \in [sure : BOOLEAN, is : SUBSET Account]
  <2>1. {U[m] : m \in DOMAIN U \cap {n}} \in SUBSET Account
    BY <1>1 DEF Book
  <2> QED
    BY <2>1 DEF Promise
<1> QED
  BY <1>1 DEF Unknown

LEMMA ToldOne ==
    ASSUME ToldTyped, NEW n, NEW U, Book(U),
           \/ told' = told
           \/ \E answer \in {Promise(U, n), Unknown} : told' = [told EXCEPT ![n] = answer]
    PROVE  ToldTyped'
BY Promising DEF ToldTyped

LEMMA ToldSteps == ASSUME OperatorsInv, ToldTyped, OperatorsNext PROVE ToldTyped'
<1>0. Book(users) /\ Book(usersFile) /\ Book(users') /\ Book(usersFile')
  BY OperatorsSteps DEF OperatorsInv, Typed
<1>1. ASSUME NEW kinds, NEW U, NEW n, NEW answer \in {Promise(U, n), Unknown},
             Saved(kinds, U, n, answer) \/ Unsaved(kinds, U, n)
      PROVE  ToldTyped'
  <2>1. U = users' /\ (told' = [told EXCEPT ![n] = answer] \/ told' = [told EXCEPT ![n] = Unknown])
    BY <1>1 DEF Saved, Unsaved
  <2> QED
    BY <1>0, <2>1, ToldOne
<1>2. ASSUME NEW kinds, NEW U, NEW n, Store(kinds, U, n) PROVE ToldTyped'
  BY <1>1, <1>2 DEF Store
<1>3. ASSUME NEW U, NEW n, Edit(U, n) PROVE ToldTyped'
  <2>1. U = usersFile' /\ told' = [told EXCEPT ![n] = Promise(U, n)]
    BY <1>3 DEF Edit
  <2> QED
    BY <1>0, <2>1, ToldOne
<1>4. ASSUME NEW s \in SessionIds, Expire(s) \/ Visit(s) \/ Logout(s)
      PROVE  UNCHANGED told
  BY <1>4 DEF Expire, Visit, Logout, accounts
<1>5. ASSUME NEW l \in Logins,
             \/ \E n \in Names, a \in Sources : LoginBegin(l, n, a)
             \/ \E p \in Passwords : LoginAuthenticate(l, p)
             \/ LoginRefuse(l)
             \/ LoginAccept(l)
      PROVE  UNCHANGED told
  BY <1>5 DEF LoginBegin, LoginAuthenticate, LoginRefuse, LoginAccept, accounts
<1>6. ASSUME NEW s \in SessionIds, NEW n \in Names,
             (\E p \in Passwords, r \in Roles : CreateUser(s, n, p, r)) \/ DeleteUser(s, n)
      PROVE  ToldTyped'
  BY <1>2, <1>6 DEF CreateUser, DeleteUser
<1>7. ASSUME NEW s \in SessionIds, NEW n \in Names, NEW body \in Bodies, UpdateBegin(s, n, body)
      PROVE  ToldTyped'
  <2>1. told' = [told EXCEPT ![n] = IF n \in DOMAIN users THEN Unknown ELSE told[n]]
    BY <1>7 DEF UpdateBegin
  <2>2. told' = told \/ told' = [told EXCEPT ![n] = Unknown]
    BY <2>1 DEF ToldTyped
  <2> QED
    BY <1>0, <2>2, ToldOne
<1>8. ASSUME NEW s \in SessionIds, NEW n \in Names, UnlockUser(s, n) PROVE UNCHANGED told
  BY <1>8 DEF UnlockUser, accounts
<1>9. UpdateRefused => UNCHANGED told
  BY DEF UpdateRefused, accounts
<1>10. ASSUME UpdateField PROVE ToldTyped'
  <2> DEFINE n == update.name
             c == Head(update.todo)
             V == SetField(users, n, c)
             answer == IF Tail(update.todo) = <<>> THEN Promise(V, n) ELSE Unknown
  <2>1. Saved({}, V, n, answer) \/ Unsaved({}, V, n)
    BY <1>10, Zenon DEF UpdateField, SetField
  <2>2. answer \in {Promise(V, n), Unknown}
    OBVIOUS
  <2> HIDE DEF V, answer
  <2> QED
    BY <1>1, <2>1, <2>2
<1>11. ASSUME NEW n \in Names, NEW p \in Passwords, SetUserPassword(n, p) \/ \E r \in Roles : AddUser(n, p, r)
       PROVE  ToldTyped'
  BY <1>3, <1>11 DEF SetUserPassword, AddUser
<1>12. UNCHANGED told => ToldTyped'
  BY DEF ToldTyped
<1> QED
  BY <1>4, <1>5, <1>6, <1>7, <1>8, <1>9, <1>10, <1>11, <1>12 DEF OperatorsNext

LEMMA ToldInitially == OperatorsInit => ToldTyped
<1>1. Book(FirstUsers)
  BY OperatorsAssumption DEF Book, FirstUsers, Account, Roles
<1> QED
  BY <1>1, Promising DEF OperatorsInit, ToldTyped

=============================================================================
