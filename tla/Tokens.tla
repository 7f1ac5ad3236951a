------------------------------- MODULE Tokens -------------------------------
(***************************************************************************)
(* The API tokens of the MCP endpoint (auth.TokenStore, requireMCPToken,   *)
(* the token handlers and `patd token`).  A token is its id: the secret    *)
(* that goes with it is never guessed.  Verify looks a token up under one  *)
(* lock and touches it under another, so a revocation may come between.    *)
(***************************************************************************)
EXTENDS Operators

CONSTANTS
    TokenIds,   \* bound: tokens ever minted
    Calls,      \* MCP requests handled at the same time
    Expiries    \* bound: the expiry times a token may be given

Never == 1000   \* no expiry, later than any clock of an instance

ASSUME TokensAssumption == Expiries \subseteq 0..Never

VARIABLES
    tokens,         \* TokenStore.tokens
    tokensFile,     \* the tokens' file
    flushed,        \* TokenStore.lastFlush
    mcpThrottle,    \* MCPLimiter.attempts
    call,           \* call[c]: the MCP request being served
    minted,         \* ghost: every token ever issued, with its role
    promised,       \* ghost: those issued and not revoked
    revoked         \* ghost: those whose revocation this process answered, or saved

tokenStore == <<tokens, tokensFile, flushed>>
tokenGhost == <<minted, promised, revoked>>
tokenVars  == <<tokenStore, mcpThrottle, call, tokenGhost>>

NoCall == [at |-> "none"]

TokensInit ==
    /\ tokens = Nothing /\ tokensFile = Nothing /\ flushed = Nothing
    /\ mcpThrottle = Nothing
    /\ call = [c \in Calls |-> NoCall]
    /\ minted = Nothing /\ promised = {} /\ revoked = {}

-----------------------------------------------------------------------------
(* Issue and Revoke.                                                       *)

\* A token that cannot be saved is taken back before the lock is: as if it had not
\* been asked for.  Issue, a token's id being one never drawn before.
Issue(id, role, expires, T) == With(T, id, [role |-> role, expires |-> expires])

Mint(id, role) ==
    /\ id \notin DOMAIN minted
    /\ minted' = With(minted, id, role)
    /\ promised' = promised \cup {id}
    /\ UNCHANGED revoked

\* Mutant: the new token is only in memory.
CreateTokenUnsaved(s, id, role, expires) ==
    /\ LeadSession(s)
    /\ Takes({"token"})
    /\ Mint(id, role)
    /\ tokens' = Issue(id, role, expires, tokens)
    /\ UNCHANGED <<tokensFile, flushed, mcpThrottle, call, accounts, lockouts, login, update>>

CreateToken(s, id, role, expires) ==
    /\ LeadSession(s)
    /\ Takes({"token"})
    /\ Mint(id, role)
    /\ tokens' = Issue(id, role, expires, tokens)
    /\ tokensFile' = tokens'
    /\ UNCHANGED <<flushed, mcpThrottle, call, accounts, lockouts, login, update>>

\* Revoke, which does not ask whether the file was written.
RevokeToken(s, id) ==
    /\ LeadSession(s)
    /\ id \in DOMAIN tokens
    /\ tokens' = Without(tokens, id)
    /\ flushed' = Without(flushed, id)
    /\ \/ Takes({"token"}) /\ tokensFile' = tokens'
       \/ Takes({"token", "fault"}) /\ UNCHANGED tokensFile
    /\ revoked' = revoked \cup {id}
    /\ promised' = promised \ {id}
    /\ UNCHANGED <<minted, mcpThrottle, call, accounts, lockouts, login, update>>

\* `patd token` edits the file, and does not ask whether the server runs.
TokenShell == (~up \/ "token_shell" \in Unguarded) /\ Shell({"token"})

ShellCreate(id, role, expires) ==
    /\ TokenShell
    /\ Mint(id, role)
    /\ tokensFile' = Issue(id, role, expires, tokensFile)
    /\ UNCHANGED <<tokens, flushed, mcpThrottle, call, operators>>

ShellRevoke(id) ==
    /\ TokenShell
    /\ id \in DOMAIN tokensFile
    /\ tokensFile' = Without(tokensFile, id)
    /\ revoked' = revoked \cup {id}
    /\ promised' = promised \ {id}
    /\ UNCHANGED <<minted, tokens, flushed, mcpThrottle, call, operators>>

-----------------------------------------------------------------------------
(* requireMCPToken.  A throttled request changes nothing.                  *)

\* Verify, up to the end of its first lock.
CallBegin(c, id, a) ==
    /\ call[c] = NoCall
    /\ Takes({"call"})
    /\ ~Blocked(mcpThrottle, a)
    /\ LET ok == id \in DOMAIN tokens /\ tokens[id].expires >= now
       IN  /\ call' = [call EXCEPT ![c] =
                IF ok THEN [at |-> "found", id |-> id, source |-> a, role |-> "none", late |-> id \in revoked]
                ELSE NoCall]
           /\ mcpThrottle' = IF ok THEN Asked(mcpThrottle, a) ELSE Failed(mcpThrottle, a)
    /\ UNCHANGED <<tokenStore, tokenGhost, operators>>

\* A minute has passed since the token's last use was saved.
FlushDue(id) == id \notin DOMAIN flushed \/ flushed[id] < now

\* Mutant: the token is put back as it was looked up.
TouchBlindly(c) ==
    /\ Serves
    /\ call[c].at = "found"
    /\ LET id == call[c].id
       IN  /\ tokens' = Issue(id, minted[id], Never, tokens)
           /\ call' = [call EXCEPT ![c] = [@ EXCEPT !.at = "granted", !.role = minted[id]]]
           /\ tokensFile' = tokens'
    /\ mcpThrottle' = Without(mcpThrottle, call[c].source)
    /\ UNCHANGED <<flushed, tokenGhost, operators>>

\* touchLastUsed: a token revoked meanwhile yields a token without a role.  The
\* use is saved now and then, and best effort.
Touch(c) ==
    /\ Serves
    /\ call[c].at = "found"
    /\ LET id   == call[c].id
           role == IF id \in DOMAIN tokens THEN tokens[id].role ELSE "none"
       IN  /\ call' = [call EXCEPT ![c] = [@ EXCEPT !.at = "granted", !.role = role]]
           /\ IF id \in DOMAIN tokens /\ FlushDue(id)
              THEN /\ flushed' = With(flushed, id, now)
                   /\ tokensFile' \in {tokens, tokensFile}
              ELSE UNCHANGED <<flushed, tokensFile>>
    /\ mcpThrottle' = Without(mcpThrottle, call[c].source)
    /\ UNCHANGED <<tokens, tokenGhost, operators>>

\* handleMCPWhoami, and the MCP methods that call no tool.
CallEnd(c) ==
    /\ Serves
    /\ call[c].at = "granted"
    /\ call' = [call EXCEPT ![c] = NoCall]
    /\ UNCHANGED <<tokenStore, mcpThrottle, tokenGhost, operators>>

\* OpenTokenStore.  A revocation that was not saved is lost.
TokensBoot ==
    /\ tokens' = tokensFile
    /\ flushed' = Nothing /\ mcpThrottle' = Nothing
    /\ call' = [c \in Calls |-> NoCall]
    /\ revoked' = revoked \ DOMAIN tokensFile
    /\ UNCHANGED <<tokensFile, minted, promised>>

TokensNext ==
    \/ \E id \in TokenIds, role \in Roles, e \in Expiries :
        \/ \E s \in SessionIds : CreateToken(s, id, role, e)
        \/ ShellCreate(id, role, e)
    \/ \E id \in TokenIds :
        \/ \E s \in SessionIds : RevokeToken(s, id)
        \/ ShellRevoke(id)
        \/ \E c \in Calls, a \in Sources : CallBegin(c, id, a)
    \/ \E c \in Calls : Touch(c) \/ CallEnd(c)

-----------------------------------------------------------------------------
(* Properties.                                                             *)

TokensTypeOK ==
    /\ \A T \in {tokens, tokensFile} :
        DOMAIN T \subseteq TokenIds /\ T \in [DOMAIN T -> [role : Roles, expires : 0..Never]]
    /\ DOMAIN flushed \subseteq DOMAIN tokens
    /\ mcpThrottle \in [DOMAIN mcpThrottle -> [count : Nat, first : Nat]]
    /\ minted \in [DOMAIN minted -> Roles]
    /\ promised \subseteq DOMAIN minted /\ revoked \subseteq DOMAIN minted

\* A request that comes after its token was revoked gets no role, though uses of
\* the token are under way, its last use is saved late or not at all, or the
\* server restarts; and no token is worth more than it was minted for.
RevokedStaysOut ==
    \A c \in Calls : call[c].at = "granted" /\ call[c].role # "none" =>
        ~call[c].late /\ call[c].role = minted[call[c].id]

\* A token handed out is known to the server and to the file until it is revoked.
TokensSurvive == promised \subseteq DOMAIN tokensFile /\ (up => promised \subseteq DOMAIN tokens)

=============================================================================
