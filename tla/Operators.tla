----------------------------- MODULE Operators -----------------------------
(***************************************************************************)
(* Who may use the service (internal/auth with the login and operator      *)
(* handlers of internal/httpapi and `patd user`): the operators in memory  *)
(* and in their file, the sessions, the per-address limiter, the           *)
(* per-operator lockout, and a login or an update of an operator as the    *)
(* several steps it takes.                                                 *)
(*                                                                         *)
(* A password is a member of a small set: what Argon2 verifies is that it  *)
(* is the one that was set.  Every write of the operators' file is         *)
(* WriteFileAtomic: the new content, or an error and the old one.          *)
(***************************************************************************)
EXTENDS Process, FiniteSets, Sequences, Functions

CONSTANTS
    Names,          \* usernames
    Founders,       \* the leads that `patd user add` created to begin with
    Passwords,
    Secret,         \* the founders' password
    Sources,        \* client addresses
    SessionIds,     \* bound: sessions ever alive together
    Logins,         \* login requests handled at the same time
    Threshold,      \* LoginTracker.threshold
    LockWindow,     \* LoginTracker.window, in ticks
    LockFor,        \* LoginTracker.lockFor
    MaxTracked,     \* maxTrackedUsers
    MaxFailures,    \* Limiter.maxFailures
    LimitWindow,    \* Limiter.window
    IdleTTL,        \* SessionStore.idleTTL
    AbsoluteTTL,    \* SessionStore.absoluteTTL
    Unguarded       \* unexcluded interleavings this instance lets happen

\* "force": `patd user ... --force` while the server runs.  "token_shell":
\* `patd token` while it runs.  "two_editors": two leads save one setting at
\* the same time.
Races == {"force", "token_shell", "two_editors"}

ASSUME OperatorsAssumption ==
    /\ Founders \subseteq Names /\ Founders # {} /\ Secret \in Passwords
    /\ {Threshold, LockFor, MaxTracked, MaxFailures, AbsoluteTTL, IdleTTL} \subseteq Nat \ {0}
    /\ LockWindow \in Nat /\ LimitWindow \in Nat
    /\ Unguarded \subseteq Races

Roles == {"analyst", "lead"}

VARIABLES
    users,      \* UserStore.users
    usersFile,  \* the operators' file
    sessions,   \* SessionStore.sessions
    tracked,    \* LoginTracker.users
    throttle,   \* Limiter.attempts
    login,      \* login[l]: the login request being served
    update,     \* the handleUpdateUser being served
    told,       \* ghost: what the last answer about an operator promised
    changed,    \* ghost: when an operator's account last changed
    denials     \* ghost: times of the failed logins since the last reset

accounts  == <<users, usersFile, told, changed>>
lockouts  == <<tracked, throttle, denials>>
operators == <<accounts, lockouts, sessions, login, update>>

Account   == [role : Roles, password : Passwords, disabled : BOOLEAN]
Unknown   == [sure |-> FALSE, is |-> {}]    \* told[n] after an error
NoLogin   == [at |-> "none"]
NoUpdate  == [name |-> CHOOSE n \in Names : TRUE, todo |-> <<>>]
Fresh     == [failed |-> 0, since |-> 0, until |-> 0, touched |-> 0]
Without(f, x) == Restrict(f, DOMAIN f \ {x})
With(f, x, v) == [y \in DOMAIN f \cup {x} |-> IF y = x THEN v ELSE f[y]]

FirstUsers == [n \in Founders |-> [role |-> "lead", password |-> Secret, disabled |-> FALSE]]
\* What an answer "ok" about n promises: its account, or that it has none.
Promise(U, n) == [sure |-> TRUE, is |-> {U[m] : m \in DOMAIN U \cap {n}}]

Nothing == <<>>     \* the function with no argument

OperatorsInit ==
    /\ users = FirstUsers /\ usersFile = FirstUsers
    /\ sessions = Nothing /\ tracked = Nothing /\ throttle = Nothing
    /\ login = [l \in Logins |-> NoLogin]
    /\ update = NoUpdate
    /\ told = [n \in Names |-> Promise(FirstUsers, n)]
    /\ changed = [n \in Names |-> 0]
    /\ denials = [n \in Names |-> <<>>]

-----------------------------------------------------------------------------
(* Sessions.                                                               *)

\* Mutant: the absolute lifetime is not looked at.
LiveIdle(s) == s \in DOMAIN sessions /\ now - sessions[s].seen < IdleTTL

\* What SessionStore.Get accepts.
Live(s) ==
    /\ s \in DOMAIN sessions
    /\ now - sessions[s].created < AbsoluteTTL
    /\ now - sessions[s].seen < IdleTTL

\* requireAuth, requireCSRF: the request's session, seen again.
Authenticated(s) ==
    /\ Live(s)
    /\ sessions' = [sessions EXCEPT ![s].seen = now]

LeadSession(s) == Authenticated(s) /\ sessions[s].role = "lead"

\* SessionStore.Get drops a session past either limit.
Expire(s) ==
    /\ Serves
    /\ s \in DOMAIN sessions /\ ~Live(s)
    /\ sessions' = Without(sessions, s)
    /\ UNCHANGED <<accounts, lockouts, login, update>>

\* handleMe, and any other request that only reads.
Visit(s) ==
    /\ Takes({"request"})
    /\ Authenticated(s)
    /\ UNCHANGED <<accounts, lockouts, login, update>>

Logout(s) ==
    /\ Takes({"request"})
    /\ Live(s)
    /\ sessions' = Without(sessions, s)
    /\ UNCHANGED <<accounts, lockouts, login, update>>

-----------------------------------------------------------------------------
(* LoginTracker and Limiter.                                               *)

Locked(n) == n \in DOMAIN tracked /\ tracked[n].until > now

\* Mutant: nobody makes room.
RoomsUnbounded(n) == {tracked}

\* userForLocked: at the cap the least recently touched entry makes room.
Rooms(n) ==
    IF n \in DOMAIN tracked \/ Cardinality(DOMAIN tracked) < MaxTracked
    THEN {tracked}
    ELSE {Without(tracked, m) : m \in {x \in DOMAIN tracked :
            \A y \in DOMAIN tracked : tracked[x].touched <= tracked[y].touched}}

Track(n, entry) == \E room \in Rooms(n) : tracked' = With(room, n, entry)

Entry(n) == IF n \in DOMAIN tracked THEN tracked[n] ELSE Fresh

\* The entry after one more failure, `failed` so far in its window.
OneMore(n, failed) ==
    [failed  |-> failed + 1,
     since   |-> IF failed = 0 THEN now ELSE Entry(n).since,
     until   |-> IF failed + 1 >= Threshold THEN now + LockFor ELSE Entry(n).until,
     touched |-> now]

\* Mutant: failures of a window that has lapsed still count.
RecordFailureForever(n) == Track(n, OneMore(n, Entry(n).failed))

RecordFailure(n) ==
    LET lapsed == Entry(n).failed > 0 /\ now - Entry(n).since > LockWindow
    IN  Track(n, OneMore(n, IF lapsed THEN 0 ELSE Entry(n).failed))

RecordSuccess(n) == Track(n, [Fresh EXCEPT !.touched = now])

\* Limiter.Allowed, which forgets a lapsed entry, and Limiter.RecordFailure,
\* for a limiter with the entries f.
Lapsed(f, a)  == a \in DOMAIN f /\ now - f[a].first >= LimitWindow
Blocked(f, a) == a \in DOMAIN f /\ ~Lapsed(f, a) /\ f[a].count >= MaxFailures
Asked(f, a)   == IF Lapsed(f, a) THEN Without(f, a) ELSE f
Failed(f, a)  == IF a \in DOMAIN Asked(f, a) THEN [f EXCEPT ![a].count = @ + 1]
                 ELSE With(f, a, [count |-> 1, first |-> now])

-----------------------------------------------------------------------------
(* handleLogin.  One that is throttled or locked out changes nothing.      *)

LoginBegin(l, n, a) ==
    /\ login[l] = NoLogin
    /\ Takes({"login"})
    /\ ~Blocked(throttle, a)
    /\ throttle' = Asked(throttle, a)
    /\ ~Locked(n)
    /\ login' = [login EXCEPT ![l] = [at |-> "checked", name |-> n, source |-> a]]
    /\ UNCHANGED <<accounts, sessions, tracked, denials, update>>

\* UserStore.Authenticate; what it returns is a copy of the account.
LoginAuthenticate(l, p) ==
    /\ Serves
    /\ login[l].at = "checked"
    /\ LET n  == login[l].name
           ok == n \in DOMAIN users /\ ~users[n].disabled /\ users[n].password = p
       IN  login' = [login EXCEPT ![l] =
               IF ok THEN [at |-> "accepted", name |-> n, source |-> @.source, role |-> users[n].role]
               ELSE [@ EXCEPT !.at = "refused"]]
    /\ UNCHANGED <<accounts, lockouts, sessions, update>>

LoginRefuse(l) ==
    /\ Serves
    /\ login[l].at = "refused"
    /\ LET n == login[l].name
       IN  /\ throttle' = Failed(throttle, login[l].source)
           /\ RecordFailure(n)
           /\ denials' = [denials EXCEPT ![n] = Append(@, now)]
    /\ login' = [login EXCEPT ![l] = NoLogin]
    /\ UNCHANGED <<accounts, sessions, update>>

LoginAccept(l) ==
    /\ Serves
    /\ login[l].at = "accepted"
    /\ LET n == login[l].name
       IN  /\ throttle' = Without(throttle, login[l].source)
           /\ RecordSuccess(n)
           /\ denials' = [denials EXCEPT ![n] = <<>>]
           /\ \E s \in SessionIds \ DOMAIN sessions :
                sessions' = With(sessions, s, [user |-> n, role |-> login[l].role,
                                               created |-> now, seen |-> now])
    /\ login' = [login EXCEPT ![l] = NoLogin]
    /\ UNCHANGED <<accounts, update>>

-----------------------------------------------------------------------------
(* The operators' administration, by a lead's session.                     *)

EnabledLeads(U) == {n \in DOMAIN U : U[n].role = "lead" /\ ~U[n].disabled}

\* isOnlyEnabledLeadLocked.
OnlyLead(n) == EnabledLeads(users) = {n}

\* The new operators in memory, n's account changed, and persistLocked: the
\* file is written, or it is not and the caller is told so.
Saved(kinds, U, n, answer) ==
    /\ Takes(kinds)
    /\ users' = U /\ usersFile' = U
    /\ changed' = [changed EXCEPT ![n] = now]
    /\ told' = [told EXCEPT ![n] = answer]

\* Mutant: the caller is not told.
UnsavedSilently(kinds, U, n) ==
    /\ Takes(kinds \cup {"fault"})
    /\ users' = U
    /\ changed' = [changed EXCEPT ![n] = now]
    /\ told' = [told EXCEPT ![n] = Promise(U, n)]
    /\ UNCHANGED usersFile

Unsaved(kinds, U, n) ==
    /\ Takes(kinds \cup {"fault"})
    /\ users' = U
    /\ changed' = [changed EXCEPT ![n] = now]
    /\ told' = [told EXCEPT ![n] = Unknown]
    /\ UNCHANGED usersFile

Store(kinds, U, n) == Saved(kinds, U, n, Promise(U, n)) \/ Unsaved(kinds, U, n)

CreateUser(s, n, p, r) ==
    /\ LeadSession(s)
    /\ n \notin DOMAIN users
    /\ Store({"admin"}, With(users, n, [role |-> r, password |-> p, disabled |-> FALSE]), n)
    /\ UNCHANGED <<lockouts, login, update>>

DeleteUser(s, n) ==
    /\ LeadSession(s)
    /\ n \in DOMAIN users /\ n # sessions[s].user
    /\ ~OnlyLead(n)
    /\ Store({"admin"}, Without(users, n), n)
    /\ UNCHANGED <<lockouts, login, update>>

\* What an update may say of a field: nothing, or a value.
Field(f, V) == {<<>>} \cup {<< <<f, v>> >> : v \in V}

\* The fields an update sets and their values, in the order the handler sets them.
Fields == Field("role", Roles) \X Field("password", Passwords) \X Field("disabled", BOOLEAN)
Bodies == {x[1] \o x[2] \o x[3] : x \in Fields} \ {<<>>}

\* handleUpdateUser, until it reaches the store.
UpdateBegin(s, n, body) ==
    /\ update.todo = <<>>
    /\ Takes({"admin"})
    /\ LeadSession(s)
    /\ n = sessions[s].user =>
          \A i \in DOMAIN body : body[i] # <<"disabled", TRUE>>
    /\ update' = [name |-> n, todo |-> body]
    /\ told' = [told EXCEPT ![n] = IF n \in DOMAIN users THEN Unknown ELSE @]
    /\ UNCHANGED <<users, usersFile, changed, lockouts, login>>

\* Mutant: a change is refused only for want of the operator.
RefusedUnknown(n, change) == n \notin DOMAIN users

\* SetRole, SetPassword or SetDisabled refuses: no such operator, last lead.
Refused(n, change) ==
    \/ n \notin DOMAIN users
    \/ change \in {<<"role", "analyst">>, <<"disabled", TRUE>>} /\ OnlyLead(n)

UpdateRefused ==
    /\ Serves
    /\ update.todo # <<>>
    /\ Refused(update.name, Head(update.todo))
    /\ update' = NoUpdate
    /\ UNCHANGED <<accounts, lockouts, sessions, login>>

\* One field is set and saved; an error ends the update where it is.
UpdateField ==
    /\ update.todo # <<>>
    /\ LET n == update.name
           c == Head(update.todo)
           U == [users EXCEPT ![n][c[1]] = c[2]]
           rest == Tail(update.todo)
       IN  /\ ~Refused(n, c)
           /\ \/ /\ Saved({}, U, n, IF rest = <<>> THEN Promise(U, n) ELSE Unknown)
                 /\ update' = IF rest = <<>> THEN NoUpdate ELSE [update EXCEPT !.todo = rest]
              \/ /\ Unsaved({}, U, n)
                 /\ update' = NoUpdate
    /\ UNCHANGED <<lockouts, sessions, login>>

UnlockUser(s, n) ==
    /\ Takes({"admin"})
    /\ LeadSession(s)
    /\ n \in DOMAIN tracked
    /\ tracked' = [tracked EXCEPT ![n] = [Fresh EXCEPT !.touched = tracked[n].touched]]
    /\ denials' = [denials EXCEPT ![n] = <<>>]
    /\ UNCHANGED <<accounts, throttle, login, update>>

-----------------------------------------------------------------------------
(* `patd user`, which edits the file, and the start of the server.         *)

ServerAway == ~up \/ "force" \in Unguarded

Edit(U, n) ==
    /\ Shell({"cli"})
    /\ ServerAway
    /\ usersFile' = U
    /\ told' = [told EXCEPT ![n] = Promise(U, n)]
    /\ changed' = [changed EXCEPT ![n] = now]
    /\ UNCHANGED <<users, lockouts, sessions, login, update>>

AddUser(n, p, r) ==
    /\ n \notin DOMAIN usersFile
    /\ Edit(With(usersFile, n, [role |-> r, password |-> p, disabled |-> FALSE]), n)

SetUserPassword(n, p) ==
    /\ n \in DOMAIN usersFile
    /\ Edit([usersFile EXCEPT ![n].password = p], n)

\* OpenUserStore, NewSessionStore, NewLimiter and NewLoginTracker; SeedFromAudit
\* tracks some operators again, without their failures.
OperatorsBoot ==
    /\ users' = usersFile
    /\ sessions' = Nothing /\ throttle' = Nothing
    /\ \E seeded \in SUBSET Names :
        /\ IsFiniteSet(seeded) /\ Cardinality(seeded) <= MaxTracked
        /\ tracked' = [n \in seeded |-> Fresh]
    /\ denials' = [n \in Names |-> <<>>]
    /\ login' = [l \in Logins |-> NoLogin]
    /\ update' = NoUpdate
    /\ UNCHANGED <<usersFile, told, changed>>

\* The clock does not pass between authentication and the session it opens.
OperatorsPass == (\A l \in Logins : login[l].at # "accepted") /\ UNCHANGED operators

OperatorsNext ==
    \/ \E s \in SessionIds : Expire(s) \/ Visit(s) \/ Logout(s)
    \/ \E l \in Logins :
        \/ \E n \in Names, a \in Sources : LoginBegin(l, n, a)
        \/ \E p \in Passwords : LoginAuthenticate(l, p)
        \/ LoginRefuse(l)
        \/ LoginAccept(l)
    \/ \E s \in SessionIds, n \in Names :
        \/ \E p \in Passwords, r \in Roles : CreateUser(s, n, p, r)
        \/ DeleteUser(s, n)
        \/ \E body \in Bodies : UpdateBegin(s, n, body)
        \/ UnlockUser(s, n)
    \/ UpdateRefused
    \/ UpdateField
    \/ \E n \in Names, p \in Passwords :
        \/ SetUserPassword(n, p)
        \/ \E r \in Roles : AddUser(n, p, r)

-----------------------------------------------------------------------------
(* Properties.                                                             *)

OperatorsTypeOK ==
    /\ DOMAIN users \subseteq Names /\ users \in [DOMAIN users -> Account]
    /\ DOMAIN usersFile \subseteq Names /\ usersFile \in [DOMAIN usersFile -> Account]
    /\ sessions \in [DOMAIN sessions -> [user : Names, role : Roles, created : Nat, seen : Nat]]
    /\ tracked \in [DOMAIN tracked -> [failed : Nat, since : Nat, until : Nat, touched : Nat]]
    /\ Cardinality(DOMAIN tracked) <= MaxTracked
    /\ throttle \in [DOMAIN throttle -> [count : Nat, first : Nat]]
    /\ update.name \in Names
    /\ told \in [Names -> [sure : BOOLEAN, is : SUBSET Account]]

\* However two leads, an update that stops half way, failing writes, the command
\* line and restarts follow on each other, somebody can still administer the
\* service: an enabled lead is left in memory and in the file a restart reads.
LeadRemains == EnabledLeads(users) # {} /\ EnabledLeads(usersFile) # {}

\* What the last answer about an operator promised is what a restart will find,
\* and what the running server goes by, whatever failed for other operators.
AnswersHold ==
    \A n \in Names : told[n].sure =>
        Promise(usersFile, n) = told[n] /\ (up => Promise(users, n) = told[n])

\* What the operators' page and the help promise (Operators.tsx:151, ChapterSecurity.tsx:96):
\* once a change of an operator has been answered, no session is worth more than the
\* operator is.  The code breaks it, as a session keeps the role of its login.
CapabilityFollowsRole ==
    \A s \in DOMAIN sessions :
        up /\ Live(s) /\ sessions[s].role = "lead" /\ told[sessions[s].user].sure
            => sessions[s].user \in EnabledLeads(users)

\* How far the code may break it: a session keeps the role of its login, whatever
\* becomes of the operator, for less than the absolute lifetime after the change.
StaleRoleBounded ==
    \A s \in DOMAIN sessions :
        LET n == sessions[s].user
        IN  up /\ Live(s) /\ (n \notin DOMAIN users \/ users[n].disabled
                              \/ users[n].role # sessions[s].role)
            => now - changed[n] < AbsoluteTTL

\* An operator is locked out only after enough failures in one window, none of
\* them from before a success, an unlock or a restart.
LockoutHasCause ==
    \A n \in Names : up /\ Locked(n) =>
        LET at == tracked[n].until - LockFor
            d  == denials[n]
        IN  Cardinality({i \in DOMAIN d : d[i] \in at - LockWindow .. at}) >= Threshold

=============================================================================
