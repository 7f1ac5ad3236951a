------------------------------ MODULE Requests ------------------------------
(***************************************************************************)
(* What operators and API tokens are given (internal/httpapi): the gates a *)
(* request passes, the audit it is about, the record in the audit log and  *)
(* the answer, interleaved with locking, deletions, a failing log and      *)
(* whatever happens to operators, sessions and tokens meanwhile.           *)
(*                                                                         *)
(* An endpoint is what its handler asks for; what the answer says is left  *)
(* out but for whether it holds cleartext.  Records that no answer depends *)
(* on are left out as well.                                                *)
(***************************************************************************)
EXTENDS Tokens

CONSTANTS
    Audits,     \* bound: audits ever created
    Requests,   \* requests handled at the same time
    NoAudit     \* no audit selected

ASSUME RequestsAssumption == IsFiniteSet(Requests)

VARIABLES
    unlocked,       \* Store.Unlocked
    audit,          \* audit[a]: "unborn", "present" or "deleted"
    active,         \* active[s]: Session.ActiveAudit
    unlockThrottle, \* UnlockLimiter.attempts
    req,            \* req[q]: the request being served (opened is a ghost: when
                    \* the session it came with was opened)
    recorded,       \* recorded[x]: "ok" records of the audit log, by actor and action
    given           \* ghost: given[x]: answers with cleartext, by actor and action

requestVars == <<unlocked, audit, active, unlockThrottle, req, recorded, given>>

NoRequest == [at |-> "none"]

\* report: what the answer is, where several are logged as one action.  lead: for
\* leads only.  records: whether the handler writes a record of its answer,
\* "first" when it does so before it reads the accounts, and "closed" when without
\* the record there is no answer.  finds: it looks for one account or domain.
Endpoint(action, report, lead, records, finds) ==
    [action |-> action, report |-> report, lead |-> lead, records |-> records, finds |-> finds]

\* Redacted answers about the active audit.
Views         == {Endpoint("view", t, FALSE, "no", FALSE) :
                    t \in {"accounts", "summary", "report", "metrics"}}
AuditAccounts == Endpoint("view", "any audit", FALSE, "no", FALSE)
Relationships == Endpoint("view", "relationships", FALSE, "no", TRUE)
Ingests       == Endpoint("view", "ingests", TRUE, "no", FALSE)
Probe         == Endpoint("password_probe", "probe", FALSE, "open", FALSE)
Exports       == {Endpoint("export", t, FALSE, "open", TRUE) : t \in {"CSV", "HTML"}}
Filtered      == {Endpoint("export", t, FALSE, "first", FALSE) :
                    t \in {"cracked", "HIBP", "weak", "reuse", "sanitized"}}
ExportBundle  == Endpoint("export", "bundle", FALSE, "open", TRUE)
ExportAllZip  == Endpoint("export", "all", FALSE, "no", FALSE)

\* Answers with passwords.  A lead may also read the forbidden words, fragments of
\* cleartext, of which handleGetForbiddenWords writes no record unless it refuses:
\* that is a Visit, and not among the answers that CleartextLogged counts.
Terms           == Endpoint("reveal_violation_terms", "terms", TRUE, "closed", FALSE)
Reveal          == Endpoint("reveal_secret", "secret", TRUE, "closed", TRUE)
CleartextCSV    == Endpoint("export_cleartext", "CSV", TRUE, "closed", TRUE)
CleartextHTML   == Endpoint("export_cleartext", "HTML", TRUE, "closed", TRUE)
CleartextBundle == Endpoint("export_cleartext", "bundle", TRUE, "closed", TRUE)
CleartextAllZip == Endpoint("export_cleartext", "all", TRUE, "closed", FALSE)

\* MCP tools.
Tool       == Endpoint("mcp_tool", "tool", FALSE, "open", FALSE)
ToolReveal == Endpoint("mcp_tool:reveal_password", "secret", TRUE, "closed", TRUE)

Redacted  == Views \cup Exports \cup Filtered
             \cup {AuditAccounts, Relationships, Ingests, Probe, ExportBundle, ExportAllZip}
Cleartext == {Terms, Reveal, CleartextCSV, CleartextHTML, CleartextBundle, CleartextAllZip}
Tools     == {Tool, ToolReveal}

Actors == Names \cup {"mcp"}
Told   == Actors \X {e.action : e \in Cleartext \cup Tools}

RequestsInit ==
    /\ unlocked = FALSE
    /\ audit = [a \in Audits |-> "unborn"]
    /\ active = [s \in SessionIds |-> NoAudit]
    /\ unlockThrottle = Nothing
    /\ req = [q \in Requests |-> NoRequest]
    /\ recorded = [x \in Told |-> 0]
    /\ given = [x \in Told |-> 0]

Present(a) == a \in Audits /\ audit[a] = "present"
Outside == UNCHANGED <<accounts, lockouts, login, update, tokenVars>>

-----------------------------------------------------------------------------
(* The store's lock and the audits, as the handlers use them.              *)

UnlockStore(s, a, right) ==
    /\ Takes({"store"})
    /\ LeadSession(s)
    /\ ~Blocked(unlockThrottle, a)
    /\ ~unlocked
    /\ unlocked' = right
    /\ unlockThrottle' = IF right THEN Without(unlockThrottle, a) ELSE Failed(unlockThrottle, a)
    /\ Outside /\ UNCHANGED <<audit, active, req, recorded, given>>

LockStore(s) ==
    /\ Takes({"store"})
    /\ LeadSession(s)
    /\ unlocked' = FALSE
    /\ Outside /\ UNCHANGED <<audit, active, unlockThrottle, req, recorded, given>>

\* requireAuth, requireCSRF and requireUnlocked.
Gate(s) == Authenticated(s) /\ unlocked

CreateAudit(s, a) ==
    /\ Takes({"store"})
    /\ Gate(s) /\ sessions[s].role = "lead"
    /\ audit[a] = "unborn"
    /\ audit' = [audit EXCEPT ![a] = "present"]
    /\ active' = [active EXCEPT ![s] = a]
    /\ Outside /\ UNCHANGED <<unlocked, unlockThrottle, req, recorded, given>>

DeleteAudit(s, a) ==
    /\ Takes({"store"})
    /\ Gate(s) /\ sessions[s].role = "lead"
    /\ Present(a)
    /\ audit' = [audit EXCEPT ![a] = "deleted"]
    /\ Outside /\ UNCHANGED <<unlocked, active, unlockThrottle, req, recorded, given>>

OpenAudit(s, a) ==
    /\ Takes({"store"})
    /\ Gate(s)
    /\ Present(a)
    /\ active' = [active EXCEPT ![s] = a]
    /\ Outside /\ UNCHANGED <<unlocked, audit, unlockThrottle, req, recorded, given>>

\* What becomes of a session that a login opens or a logout ends.
ForgetActive == active' = [s \in SessionIds |->
                    IF s \in DOMAIN sessions' THEN active[s] ELSE NoAudit]

-----------------------------------------------------------------------------
(* One request.                                                            *)

Goto(q, at) == req' = [req EXCEPT ![q].at = at]
Done(q) == req' = [req EXCEPT ![q] = NoRequest]
Apart == UNCHANGED <<unlocked, audit, active, unlockThrottle>>
Elsewhere == Apart /\ UNCHANGED <<operators, tokenVars>>

\* The session is copied as it is now.
Ask(q, s, e, a) ==
    /\ req[q] = NoRequest
    /\ Takes({"request"})
    /\ Gate(s)
    /\ a = (IF e = AuditAccounts THEN a ELSE active[s])
    /\ req' = [req EXCEPT ![q] = [at |-> "asked", end |-> e, audit |-> a, late |-> FALSE,
                                  by |-> sessions[s].user, role |-> sessions[s].role,
                                  opened |-> sessions[s].created]]
    /\ Outside /\ Apart /\ UNCHANGED <<recorded, given>>

\* tools/call: unlike a session's request it is not counted as activity, and it
\* does not see a rekey.
AskTool(q, c, e, a) ==
    /\ req[q] = NoRequest
    /\ Serves
    /\ call[c].at = "granted"
    /\ unlocked
    /\ req' = [req EXCEPT ![q] = [at |-> "asked", end |-> e, audit |-> a, late |-> call[c].late,
                                  by |-> "mcp", role |-> call[c].role, opened |-> now]]
    /\ call' = [call EXCEPT ![c] = NoCall]
    /\ Apart /\ UNCHANGED <<recorded, given, operators, tokenStore, mcpThrottle, tokenGhost>>

\* Mutant: no role is too low.
EntitledAll(r) == r.role # "none"

\* The role checks of the handlers, and roleAtLeast.
Entitled(r) == r.role = "lead" \/ (~r.end.lead /\ r.role # "none")

Deny(q) ==
    /\ Serves
    /\ req[q].at = "asked"
    /\ ~Entitled(req[q])
    /\ Done(q)
    /\ Elsewhere /\ UNCHANGED <<recorded, given>>

First(q) == req[q].end.records = "first"
Finds(q) == unlocked /\ Present(req[q].audit)

\* The accounts are read; without an audit to read there is an empty answer, an
\* error, or (none of them with cleartext) "no audit selected".
Load(q) ==
    /\ Serves
    /\ req[q].at = "noted" \/ (req[q].at = "asked" /\ ~First(q))
    /\ Entitled(req[q])
    /\ IF Finds(q) THEN Goto(q, IF First(q) THEN "recorded" ELSE "loaded") ELSE Done(q)
    /\ Elsewhere /\ UNCHANGED <<recorded, given>>

\* exportResolve, exportResolveRead: the record comes before the accounts, and
\* only if there is an audit.
Resolve(q) ==
    /\ Serves
    /\ req[q].at = "asked"
    /\ First(q)
    /\ IF Finds(q) THEN Goto(q, "noted") ELSE Done(q)
    /\ Elsewhere /\ UNCHANGED <<recorded, given>>

\* No such account, no such domain, nothing acknowledged.
NotFound(q) ==
    /\ Serves
    /\ req[q].at = "loaded"
    /\ req[q].end.finds
    /\ Done(q)
    /\ Elsewhere /\ UNCHANGED <<recorded, given>>

\* Audit.Log, or no record where the handler writes none.
Record(q) ==
    /\ Takes({})
    /\ req[q].at = "loaded"
    /\ LET r == req[q]
           x == <<r.by, r.end.action>>
       IN  recorded' = IF r.end.records = "no" \/ x \notin Told THEN recorded
                       ELSE [recorded EXCEPT ![x] = @ + 1]
    /\ Goto(q, "recorded")
    /\ Elsewhere /\ UNCHANGED given

\* Mutant: a record that cannot be written is only missed.
RecordOpen(q) ==
    /\ Takes({"fault"})
    /\ req[q].at = "loaded"
    /\ req[q].end.records # "no"
    /\ Goto(q, "recorded")
    /\ Elsewhere /\ UNCHANGED <<recorded, given>>

\* The log cannot be written: auditOrFail.
RecordFails(q) ==
    /\ Takes({"fault"})
    /\ req[q].at = "loaded"
    /\ req[q].end.records # "no"
    /\ IF req[q].end.records = "closed" THEN Done(q) ELSE Goto(q, "recorded")
    /\ Elsewhere /\ UNCHANGED <<recorded, given>>

Answer(q) ==
    /\ Serves
    /\ req[q].at = "recorded"
    /\ given' = IF req[q].end \notin Cleartext \cup {ToolReveal} THEN given
                ELSE [given EXCEPT ![<<req[q].by, req[q].end.action>>] = @ + 1]
    /\ Done(q)
    /\ Elsewhere /\ UNCHANGED recorded

\* The server starts with the store locked; the log is appended to.
RequestsBoot ==
    /\ unlocked' = FALSE
    /\ active' = [s \in SessionIds |-> NoAudit]
    /\ unlockThrottle' = Nothing
    /\ req' = [q \in Requests |-> NoRequest]
    /\ UNCHANGED <<audit, recorded, given>>

RequestsNext ==
    \/ \E s \in SessionIds :
        \/ \E a \in Sources, right \in BOOLEAN : UnlockStore(s, a, right)
        \/ LockStore(s)
        \/ \E a \in Audits : CreateAudit(s, a) \/ DeleteAudit(s, a) \/ OpenAudit(s, a)
    \/ \E q \in Requests :
        \/ \E s \in SessionIds, e \in Redacted \cup Cleartext, a \in Audits \cup {NoAudit} :
            Ask(q, s, e, a)
        \/ \E c \in Calls, e \in Tools, a \in Audits : AskTool(q, c, e, a)
        \/ Deny(q) \/ Load(q) \/ Resolve(q) \/ NotFound(q) \/ Record(q) \/ RecordFails(q) \/ Answer(q)

-----------------------------------------------------------------------------
(* Properties.                                                             *)

RequestsTypeOK ==
    /\ unlocked \in BOOLEAN
    /\ audit \in [Audits -> {"unborn", "present", "deleted"}]
    /\ active \in [SessionIds -> Audits \cup {NoAudit}]
    /\ \A s \in SessionIds \ DOMAIN sessions : active[s] = NoAudit
    /\ recorded \in [Told -> Nat] /\ given \in [Told -> Nat]

\* Every cleartext answer has its own record in the audit log before it: among
\* concurrent requests of one operator, one of which could not be recorded, and
\* across restarts, there are never more answers than records.
CleartextLogged == \A x \in Told : given[x] <= recorded[x]

\* Cleartext goes to a lead's token that was not revoked before the request, or to an
\* operator who is a lead at the moment of the answer, whatever has happened since
\* the request was let in.  The one exception is an operator whose account was changed
\* since the session was opened: the session keeps its role (CapabilityFollowsRole).
CleartextToLeads ==
    \A q \in Requests :
        req[q].at = "recorded" /\ req[q].end.lead =>
            /\ req[q].role = "lead"
            /\ IF req[q].by = "mcp" THEN ~req[q].late
               ELSE changed[req[q].by] < req[q].opened => req[q].by \in EnabledLeads(users)

=============================================================================
