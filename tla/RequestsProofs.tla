--------------------------- MODULE RequestsProofs ---------------------------
(***************************************************************************)
(* Proofs about what API tokens and requests are given, for any number of  *)
(* tokens, calls, requests, operators and audits: what a token is good for *)
(* after it was revoked or the server was restarted, that no token handed  *)
(* out is lost, and that no cleartext answer goes without its record, nor  *)
(* to anyone but a lead.  The first two need `patd token` to be run while  *)
(* the server is away.                                                     *)
(***************************************************************************)
EXTENDS Requests, OperatorsProofs, FiniteSetTheorems

-----------------------------------------------------------------------------
(* Tokens.                                                                 *)

Token == [role : Roles, expires : 0..Never]
CallStates == {NoCall} \cup [at : {"found", "granted"}, id : TokenIds, source : Sources,
                             role : Roles \cup {"none"}, late : BOOLEAN]

\* Tokens that were minted, with the roles they were minted for.
Issued(T, M) ==
    /\ T \in [DOMAIN T -> Token]
    /\ DOMAIN T \subseteq DOMAIN M
    /\ \A id \in DOMAIN T : T[id].role = M[id]

Minting(M) == M \in [DOMAIN M -> Roles]

\* What a call that is being served may do.
Granted(c) ==
    /\ ~c.late
    /\ c.at = "granted" /\ c.role # "none" => c.id \in DOMAIN minted /\ c.role = minted[c.id]

TokensInv ==
    /\ Minting(minted)
    /\ Issued(tokens, minted) /\ Issued(tokensFile, minted)
    /\ up => revoked \cap DOMAIN tokens = {}
    /\ revoked \subseteq DOMAIN minted /\ promised \subseteq DOMAIN minted
    /\ TokensSurvive
    /\ call \in [Calls -> CallStates]
    /\ \A c \in Calls : call[c] # NoCall => Granted(call[c])

-----------------------------------------------------------------------------
(* Tables of tokens.                                                       *)

LEMMA MintedMore ==
    ASSUME NEW M, Minting(M), NEW id, id \notin DOMAIN M, NEW role \in Roles,
           NEW N, N = With(M, id, role)
    PROVE  /\ Minting(N) /\ DOMAIN N = DOMAIN M \cup {id} /\ N[id] = role
           /\ \A k \in DOMAIN M : N[k] = M[k]
           /\ \A T : Issued(T, M) => Issued(T, N)
<1>1. N = [k \in DOMAIN M \cup {id} |-> IF k = id THEN role ELSE M[k]]
  BY DEF With
<1> QED
  BY <1>1 DEF Issued, Minting

LEMMA IssuedMore ==
    ASSUME NEW M, NEW T, Issued(T, M), NEW id \in DOMAIN M, NEW e \in 0..Never, M[id] \in Roles,
           NEW U, U = Issue(id, M[id], e, T)
    PROVE  Issued(U, M) /\ DOMAIN U = DOMAIN T \cup {id}
<1> DEFINE x == [role |-> M[id], expires |-> e]
<1>1. U = [k \in DOMAIN T \cup {id} |-> IF k = id THEN x ELSE T[k]]
  BY DEF Issue, With
<1>2. x \in Token /\ x.role = M[id]
  BY DEF Token
<1> HIDE DEF x
<1> QED
  BY <1>1, <1>2 DEF Issued

LEMMA IssuedLess ==
    ASSUME NEW M, NEW T, Issued(T, M), NEW id, NEW U, U = Without(T, id)
    PROVE  Issued(U, M) /\ DOMAIN U = DOMAIN T \ {id}
BY DEF Issued, Without, Restrict

-----------------------------------------------------------------------------
(* Steps.                                                                  *)

LEMMA TokensCreated ==
    ASSUME TokensInv, NEW s, NEW id \in TokenIds, NEW role \in Roles, NEW e \in Expiries,
           CreateToken(s, id, role, e)
    PROVE  TokensInv'
<1>1. /\ id \notin DOMAIN minted /\ minted' = With(minted, id, role)
      /\ promised' = promised \cup {id} /\ UNCHANGED <<revoked, up, call>>
      /\ up /\ tokens' = Issue(id, role, e, tokens) /\ tokensFile' = tokens'
  BY DEF CreateToken, Mint, Takes
<1>2. /\ Minting(minted') /\ DOMAIN minted' = DOMAIN minted \cup {id}
      /\ minted'[id] = role
      /\ \A k \in DOMAIN minted : minted'[k] = minted[k]
      /\ Issued(tokens, minted')
  <2>1. Minting(minted) /\ Issued(tokens, minted)
    BY DEF TokensInv
  <2>2. id \notin DOMAIN minted /\ minted' = With(minted, id, role)
    BY <1>1
  <2>3. /\ Minting(minted') /\ DOMAIN minted' = DOMAIN minted \cup {id}
        /\ minted'[id] = role
        /\ \A k \in DOMAIN minted : minted'[k] = minted[k]
        /\ \A T : Issued(T, minted) => Issued(T, minted')
    BY <2>1, <2>2, MintedMore
  <2> QED
    BY <2>1, <2>3
<1>3. e \in 0..Never
  BY TokensAssumption
<1>4. Issued(tokens', minted') /\ DOMAIN tokens' = DOMAIN tokens \cup {id}
  BY <1>1, <1>2, <1>3, IssuedMore
<1>5. TokensSurvive'
  BY <1>1, <1>4 DEF TokensInv, TokensSurvive
<1>6. \A c \in Calls : call'[c] # NoCall => Granted(call[c])'
  BY <1>1, <1>2 DEF TokensInv, Granted
<1> QED
  BY <1>1, <1>2, <1>4, <1>5, <1>6 DEF TokensInv

LEMMA TokensRevoked ==
    ASSUME TokensInv, NEW s, NEW id \in TokenIds, RevokeToken(s, id)
    PROVE  TokensInv'
<1>1. /\ id \in DOMAIN tokens /\ tokens' = Without(tokens, id) /\ tokensFile' \in {tokens', tokensFile}
      /\ revoked' = revoked \cup {id} /\ promised' = promised \ {id}
      /\ UNCHANGED <<minted, call, up>> /\ up
  BY DEF RevokeToken, Takes
<1>2. Issued(tokens', minted) /\ DOMAIN tokens' = DOMAIN tokens \ {id}
  BY <1>1, IssuedLess DEF TokensInv
<1>3. Issued(tokensFile', minted)
  BY <1>1, <1>2 DEF TokensInv
<1>4. TokensSurvive'
  BY <1>1, <1>2 DEF TokensInv, TokensSurvive
<1>5. revoked' \subseteq DOMAIN minted
  BY <1>1 DEF TokensInv, Issued
<1> QED
  BY <1>1, <1>2, <1>3, <1>4, <1>5 DEF TokensInv, Granted

LEMMA TokensAtShell ==
    ASSUME "token_shell" \notin Unguarded, TokensInv, NEW id \in TokenIds,
           \/ ShellRevoke(id)
           \/ \E role \in Roles, e \in Expiries : ShellCreate(id, role, e)
    PROVE  TokensInv'
<1>0. ~up /\ ~up' /\ UNCHANGED <<tokens, call>>
  BY DEF ShellRevoke, ShellCreate, TokenShell, Shell
<1>1. CASE ShellRevoke(id)
  <2>1. /\ id \in DOMAIN tokensFile /\ tokensFile' = Without(tokensFile, id)
        /\ revoked' = revoked \cup {id} /\ promised' = promised \ {id} /\ UNCHANGED minted
    BY <1>1 DEF ShellRevoke
  <2>2. Issued(tokensFile', minted) /\ DOMAIN tokensFile' = DOMAIN tokensFile \ {id}
    BY <2>1, IssuedLess DEF TokensInv
  <2>3. TokensSurvive'
    BY <1>0, <2>1, <2>2 DEF TokensInv, TokensSurvive
  <2>4. revoked' \subseteq DOMAIN minted
    BY <2>1 DEF TokensInv, Issued
  <2> QED
    BY <1>0, <2>1, <2>2, <2>3, <2>4 DEF TokensInv, Granted
<1>2. ASSUME NEW role \in Roles, NEW e \in Expiries, ShellCreate(id, role, e)
      PROVE  TokensInv'
  <2>1. /\ id \notin DOMAIN minted /\ minted' = With(minted, id, role)
        /\ promised' = promised \cup {id} /\ UNCHANGED revoked
        /\ tokensFile' = Issue(id, role, e, tokensFile)
    BY <1>2 DEF ShellCreate, Mint
  <2>2. /\ Minting(minted') /\ DOMAIN minted' = DOMAIN minted \cup {id}
        /\ minted'[id] = role
        /\ \A k \in DOMAIN minted : minted'[k] = minted[k]
        /\ Issued(tokensFile, minted') /\ Issued(tokens, minted')
    <3>1. Minting(minted) /\ Issued(tokensFile, minted) /\ Issued(tokens, minted)
      BY DEF TokensInv
    <3> QED
      BY <2>1, <3>1, MintedMore
  <2>3. e \in 0..Never
    BY TokensAssumption
  <2>4. Issued(tokensFile', minted') /\ DOMAIN tokensFile' = DOMAIN tokensFile \cup {id}
    BY <2>1, <2>2, <2>3, IssuedMore
  <2>5. TokensSurvive'
    BY <1>0, <2>1, <2>4 DEF TokensInv, TokensSurvive
  <2>6. \A c \in Calls : call'[c] # NoCall => Granted(call[c])'
    BY <1>0, <2>2 DEF TokensInv, Granted
  <2> QED
    BY <1>0, <2>1, <2>2, <2>4, <2>5, <2>6 DEF TokensInv
<1> QED
  BY <1>1, <1>2

\* A call whose token has been touched.
Touched(x, role) == [x EXCEPT !.at = "granted", !.role = role]

LEMMA TouchedIn ==
    ASSUME NEW x \in CallStates \ {NoCall}, NEW role \in Roles \cup {"none"}, NEW y, y = Touched(x, role)
    PROVE  y \in CallStates /\ y.late = x.late /\ y.id = x.id /\ y.at = "granted" /\ y.role = role
<1>1. x \in [at : {"found", "granted"}, id : TokenIds, source : Sources,
            role : Roles \cup {"none"}, late : BOOLEAN]
  BY DEF CallStates
<1> QED
  BY <1>1 DEF CallStates, Touched

\* A token that is found has not been revoked, nor is one that is revoked later found.
LEMMA CallSteps ==
    ASSUME TokensInv, NEW c \in Calls,
           \/ \E id \in TokenIds, a \in Sources : CallBegin(c, id, a)
           \/ Touch(c) \/ CallEnd(c)
    PROVE  TokensInv'
<1>0. up /\ UNCHANGED <<up, tokens, minted, promised, revoked>> /\ tokensFile' \in {tokens, tokensFile}
  BY DEF CallBegin, Touch, CallEnd, Takes, Serves, process, tokenStore, tokenGhost
<1>1. \E x \in CallStates : call' = [call EXCEPT ![c] = x] /\ (x # NoCall => Granted(x))
  <2>1. ASSUME NEW id \in TokenIds, NEW a \in Sources, CallBegin(c, id, a)
        PROVE  \E x \in CallStates : call' = [call EXCEPT ![c] = x] /\ (x # NoCall => Granted(x))
    <3> DEFINE y == [at |-> "found", id |-> id, source |-> a, role |-> "none", late |-> id \in revoked]
               ok == id \in DOMAIN tokens /\ tokens[id].expires >= now
    <3>1. call' = [call EXCEPT ![c] = IF ok THEN y ELSE NoCall]
      BY <2>1, Zenon DEF CallBegin
    <3>2. CASE ok
      <4>1. id \notin revoked
        BY <1>0, <3>2 DEF TokensInv
      <4>2. y = [at |-> "found", id |-> id, source |-> a, role |-> "none", late |-> FALSE]
        <5>1. (id \in revoked) = FALSE
          BY <4>1
        <5> QED
          BY <5>1, Zenon
      <4> HIDE DEF y
      <4>3. y \in CallStates /\ Granted(y)
        BY <4>2 DEF CallStates, Granted
      <4> QED
        BY <3>1, <3>2, <4>3
    <3>3. CASE ~ok
      <4> HIDE DEF ok, y
      <4> QED
        BY <3>1, <3>3 DEF CallStates
    <3> QED
      BY <3>2, <3>3
  <2>2. ASSUME Touch(c)
        PROVE  \E x \in CallStates : call' = [call EXCEPT ![c] = x] /\ (x # NoCall => Granted(x))
    <3> DEFINE id == call[c].id
               role == IF id \in DOMAIN tokens THEN tokens[id].role ELSE "none"
               y == Touched(call[c], role)
    <3>1. call[c] \in CallStates \ {NoCall}
      BY <2>2 DEF TokensInv, Touch, NoCall
    <3>2. call' = [call EXCEPT ![c] = y]
      BY <2>2, Zenon DEF Touch, Touched
    <3>3. role \in Roles \cup {"none"} /\ (role # "none" => id \in DOMAIN minted /\ role = minted[id])
      BY DEF TokensInv, Issued, Token
    <3>4. ~call[c].late
      BY <3>1 DEF TokensInv, Granted
    <3> HIDE DEF role
    <3>5. y \in CallStates /\ y.late = call[c].late /\ y.id = id /\ y.at = "granted" /\ y.role = role
      BY <3>1, <3>3, TouchedIn
    <3> HIDE DEF y, id
    <3>6. Granted(y)
      BY <3>3, <3>4, <3>5 DEF Granted
    <3> QED
      BY <3>2, <3>5, <3>6
  <2>3. ASSUME CallEnd(c)
        PROVE  \E x \in CallStates : call' = [call EXCEPT ![c] = x] /\ (x # NoCall => Granted(x))
    BY <2>3 DEF CallEnd, CallStates
  <2> QED
    BY <2>1, <2>2, <2>3
<1>2. call' \in [Calls -> CallStates] /\ \A k \in Calls : call'[k] # NoCall => Granted(call'[k])
  BY <1>1 DEF TokensInv
<1>3. TokensSurvive'
  BY <1>0 DEF TokensInv, TokensSurvive
<1>4. Issued(tokensFile', minted)
  BY <1>0 DEF TokensInv
<1> QED
  BY <1>0, <1>2, <1>3, <1>4 DEF TokensInv, Granted

LEMMA TokensSteps ==
    ASSUME "token_shell" \notin Unguarded, TokensInv, TokensNext
    PROVE  TokensInv'
BY TokensCreated, TokensRevoked, TokensAtShell, CallSteps DEF TokensNext

\* A stop of the process, and steps that leave the tokens alone but perhaps end
\* a call.
LEMMA TokensStay ==
    ASSUME TokensInv, UNCHANGED <<tokens, tokensFile, minted, promised, revoked>>, up' => up,
           call' = call \/ \E c \in Calls : call' = [call EXCEPT ![c] = NoCall]
    PROVE  TokensInv'
<1>1. call' \in [Calls -> CallStates] /\ \A c \in Calls : call'[c] # NoCall => call'[c] = call[c]
  BY DEF TokensInv, CallStates
<1>2. TokensSurvive'
  BY DEF TokensInv, TokensSurvive
<1>3. \A c \in Calls : call'[c] # NoCall => Granted(call[c])'
  BY <1>1 DEF TokensInv, Granted
<1> QED
  BY <1>1, <1>2, <1>3 DEF TokensInv

LEMMA TokensReopened == TokensInv /\ Boot /\ TokensBoot => TokensInv'
<1> SUFFICES ASSUME TokensInv, Boot, TokensBoot PROVE TokensInv'
  OBVIOUS
<1>1. /\ tokens' = tokensFile /\ call' = [c \in Calls |-> NoCall]
      /\ revoked' = revoked \ DOMAIN tokensFile /\ UNCHANGED <<tokensFile, minted, promised>>
  BY DEF TokensBoot
<1>2. TokensSurvive'
  BY <1>1 DEF TokensInv, TokensSurvive
<1>3. call' \in [Calls -> CallStates] /\ \A c \in Calls : call'[c] = NoCall
  BY <1>1 DEF CallStates
<1> QED
  BY <1>1, <1>2, <1>3 DEF TokensInv, Issued, Minting

LEMMA TokensInitially == TokensInit => TokensInv
<1> SUFFICES ASSUME TokensInit PROVE TokensInv
  OBVIOUS
<1>1. /\ tokens = <<>> /\ tokensFile = <<>> /\ minted = <<>> /\ promised = {} /\ revoked = {}
      /\ call = [c \in Calls |-> NoCall]
  BY DEF TokensInit, Nothing
<1>2. DOMAIN <<>> = {} /\ \A S : <<>> \in [{} -> S]
  OBVIOUS
<1>3. Minting(minted) /\ Issued(tokens, minted) /\ Issued(tokensFile, minted)
  BY <1>1, <1>2 DEF Minting, Issued
<1> QED
  BY <1>1, <1>3 DEF TokensInv, TokensSurvive, CallStates

LEMMA RevokedOut == TokensInv => RevokedStaysOut
<1> SUFFICES ASSUME TokensInv, NEW c \in Calls, call[c].at = "granted", call[c].role # "none"
             PROVE  ~call[c].late /\ call[c].role = minted[call[c].id]
  BY DEF RevokedStaysOut
<1>1. call[c] # NoCall
  BY DEF NoCall
<1> QED
  BY <1>1 DEF TokensInv, Granted

-----------------------------------------------------------------------------
(* Requests.                                                               *)

Endpoints == Redacted \cup Cleartext \cup Tools
Cleartexts   == Cleartext \cup {ToolReveal}
Serving   == [at : {"asked", "noted", "loaded", "recorded"}, end : Endpoints,
              audit : Audits \cup {NoAudit}, late : BOOLEAN, by : Actors, role : Roles \cup {"none"},
              opened : Nat]

\* Whoever asks as a lead may be one.
Proper(r) == r.role = "lead" => IF r.by = "mcp" THEN ~r.late ELSE Trusted(r.by, r.opened)
\* The accounts are read for a lead only, where that is asked.
Vetted(r) == r.at \in {"loaded", "recorded"} /\ r.end.lead => r.role = "lead"

\* Cleartext is about to be sent, under x in the log.
Waits(r, x) == r.at = "recorded" /\ r.end \in Cleartexts /\ <<r.by, r.end.action>> = x
Due(x) == {q \in Requests : Waits(req[q], x)}

\* An answer that is due has its record.
Booked ==
    /\ recorded \in [Told -> Nat] /\ given \in [Told -> Nat]
    /\ \A x \in Told : given[x] + Cardinality(Due(x)) <= recorded[x]

RequestsInv ==
    /\ req \in [Requests -> {NoRequest} \cup Serving]
    /\ \A q \in Requests : req[q] # NoRequest => Proper(req[q]) /\ Vetted(req[q])
    /\ Booked

-----------------------------------------------------------------------------
(* Endpoints and requests.                                                 *)

LEMMA SecretsClosed ==
    \A e \in Cleartexts : /\ e.records = "closed" /\ e \in Endpoints
                       /\ \A b \in Actors : <<b, e.action>> \in Told
<1>1. \A e \in Cleartexts : e.records = "closed"
  BY DEF Cleartexts, Cleartext, Terms, Reveal, CleartextCSV, CleartextHTML, CleartextBundle,
         CleartextAllZip, ToolReveal, Endpoint
<1>2. \A e \in Cleartexts : e \in Cleartext \cup Tools
  BY DEF Cleartexts, Tools
<1>3. \A e \in Cleartexts : e.action \in {f.action : f \in Cleartext \cup Tools}
  BY <1>2
<1> QED
  BY <1>1, <1>2, <1>3 DEF Endpoints, Told

At(r, a) == [r EXCEPT !.at = a]

LEMMA AtIn ==
    ASSUME NEW r \in Serving, NEW a \in {"asked", "noted", "loaded", "recorded"}, NEW y, y = At(r, a)
    PROVE  /\ y \in Serving /\ y # NoRequest /\ y.at = a
           /\ y.end = r.end /\ y.late = r.late /\ y.by = r.by /\ y.role = r.role /\ y.opened = r.opened
BY DEF At, Serving, NoRequest

LEMMA InHand ==
    ASSUME RequestsInv, NEW q \in Requests, req[q].at # "none"
    PROVE  req[q] \in Serving /\ req[q] # NoRequest /\ Proper(req[q]) /\ Vetted(req[q])
BY DEF RequestsInv, NoRequest

LEMMA DueSteps ==
    ASSUME RequestsInv, NEW q \in Requests, NEW y, req' = [req EXCEPT ![q] = y], NEW x \in Told
    PROVE  Due(x)' = IF Waits(y, x) THEN Due(x) \cup {q} ELSE Due(x) \ {q}
<1>1. \A p \in Requests : req'[p] = IF p = q THEN y ELSE req[p]
  BY DEF RequestsInv
<1>2. Due(x)' = {p \in Requests : Waits(req'[p], x)}
  BY DEF Due, Waits
<1> HIDE DEF Waits
<1> QED
  BY <1>1, <1>2 DEF Due

LEMMA DueCounts ==
    ASSUME NEW x \in Told, NEW q \in Requests
    PROVE  /\ IsFiniteSet(Due(x)) /\ Cardinality(Due(x)) \in Nat
           /\ Cardinality(Due(x) \ {q}) = IF q \in Due(x) THEN Cardinality(Due(x)) - 1
                                          ELSE Cardinality(Due(x))
           /\ Cardinality(Due(x) \cup {q}) = IF q \in Due(x) THEN Cardinality(Due(x))
                                             ELSE Cardinality(Due(x)) + 1
<1>1. Due(x) \subseteq Requests
  BY DEF Due
<1>2. IsFiniteSet(Due(x))
  BY <1>1, RequestsAssumption, FS_Subset
<1> QED
  BY <1>2, FS_CardinalityType, FS_RemoveElement, FS_AddElement

-----------------------------------------------------------------------------
(* Kinds of steps.                                                         *)

\* Request q goes on to y, and nothing is answered in cleartext.
Proceeds(q, y) ==
    /\ req' = [req EXCEPT ![q] = y] /\ y \in {NoRequest} \cup Serving
    /\ y # NoRequest => Proper(y) /\ Vetted(y)
    /\ UNCHANGED given

LEMMA Proceeding ==
    ASSUME RequestsInv, NEW q \in Requests, NEW y, Proceeds(q, y), Booked',
           \A m \in Names, t \in Nat : Trusted(m, t) => Trusted(m, t)'
    PROVE  RequestsInv'
<1>1. req' \in [Requests -> {NoRequest} \cup Serving]
      /\ \A p \in Requests : req'[p] = IF p = q THEN y ELSE req[p]
  BY DEF RequestsInv, Proceeds
<1>2. ASSUME NEW p \in Requests, req'[p] # NoRequest
      PROVE  Proper(req[p])' /\ Vetted(req[p])'
  <2>1. CASE p = q
    <3>1. req'[p] = y /\ y \in Serving /\ Proper(y) /\ Vetted(y)
      BY <1>1, <1>2, <2>1 DEF Proceeds
    <3>2. y.by \in Actors /\ y.opened \in Nat
      BY <3>1 DEF Serving
    <3> QED
      BY <3>1, <3>2 DEF Proper, Vetted, Actors
  <2>2. CASE p # q
    <3>1. req'[p] = req[p] /\ req[p] \in Serving /\ Proper(req[p]) /\ Vetted(req[p])
      BY <1>1, <1>2, <2>2 DEF RequestsInv
    <3>2. req[p].by \in Actors /\ req[p].opened \in Nat
      BY <3>1 DEF Serving
    <3> QED
      BY <3>1, <3>2 DEF Proper, Vetted, Actors
  <2> QED
    BY <2>1, <2>2
<1> QED
  BY <1>1, <1>2 DEF RequestsInv

\* A step after which no more answers are due and no records are lost.
LEMMA NothingDue ==
    ASSUME RequestsInv, NEW q \in Requests, NEW y, req' = [req EXCEPT ![q] = y],
           \A x \in Told : ~Waits(y, x),
           recorded' \in [Told -> Nat], \A x \in Told : recorded'[x] >= recorded[x],
           UNCHANGED given
    PROVE  Booked'
<1> SUFFICES ASSUME NEW x \in Told PROVE given[x] + Cardinality(Due(x)') <= recorded'[x]
  BY DEF RequestsInv, Booked
<1>1. Due(x)' = Due(x) \ {q}
  BY DueSteps
<1>2. Cardinality(Due(x)') \in Nat /\ Cardinality(Due(x)) \in Nat
      /\ Cardinality(Due(x)') <= Cardinality(Due(x))
  <2>1. /\ Cardinality(Due(x)) \in Nat /\ Cardinality(Due(x) \ {q}) \in Nat
        /\ Cardinality(Due(x) \ {q}) <= Cardinality(Due(x))
    <3>1. IsFiniteSet(Due(x)) /\ Due(x) \ {q} \subseteq Due(x)
      BY DueCounts
    <3> QED
      BY <3>1, FS_Subset, FS_CardinalityType
  <2> QED
    BY <1>1, <2>1
<1>3. given[x] \in Nat /\ recorded[x] \in Nat /\ recorded'[x] \in Nat
      /\ given[x] + Cardinality(Due(x)) <= recorded[x] /\ recorded'[x] >= recorded[x]
  BY DEF RequestsInv, Booked
<1> QED
  BY <1>2, <1>3

\* A record is written for each answer before it is due, and an answer is then due
\* no more.
LEMMA Recording ==
    ASSUME RequestsInv, NEW q \in Requests, NEW y, req' = [req EXCEPT ![q] = y],
           NEW z \in Told, \A x \in Told : Waits(y, x) => x = z,
           recorded' = [recorded EXCEPT ![z] = @ + 1], UNCHANGED given
    PROVE  Booked'
<1>1. \A x \in Told : recorded'[x] = IF x = z THEN recorded[x] + 1 ELSE recorded[x]
  BY DEF RequestsInv, Booked
<1>2. recorded' \in [Told -> Nat] /\ given' \in [Told -> Nat]
  BY DEF RequestsInv, Booked
<1> SUFFICES ASSUME NEW x \in Told PROVE given[x] + Cardinality(Due(x)') <= recorded'[x]
  BY <1>2 DEF Booked
<1>3. Due(x)' = IF Waits(y, x) THEN Due(x) \cup {q} ELSE Due(x) \ {q}
  BY DueSteps
<1>4. Cardinality(Due(x)) \in Nat
      /\ Cardinality(Due(x) \ {q}) \in {Cardinality(Due(x)), Cardinality(Due(x)) - 1}
      /\ Cardinality(Due(x) \cup {q}) \in {Cardinality(Due(x)), Cardinality(Due(x)) + 1}
  BY DueCounts
<1>5. given[x] \in Nat /\ recorded[x] \in Nat /\ given[x] + Cardinality(Due(x)) <= recorded[x]
  BY DEF RequestsInv, Booked
<1>6. CASE Waits(y, x)
  <2>1. Due(x)' = Due(x) \cup {q} /\ recorded'[x] = recorded[x] + 1
    BY <1>1, <1>3, <1>6
  <2> QED
    BY <1>4, <1>5, <2>1
<1>7. CASE ~Waits(y, x)
  <2>1. Due(x)' = Due(x) \ {q} /\ recorded'[x] \in {recorded[x], recorded[x] + 1}
    BY <1>1, <1>3, <1>7
  <2> QED
    BY <1>4, <1>5, <2>1
<1> QED
  BY <1>6, <1>7

LEMMA Answering ==
    ASSUME RequestsInv, NEW q \in Requests, req' = [req EXCEPT ![q] = NoRequest],
           NEW z \in Told, Waits(req[q], z),
           given' = [given EXCEPT ![z] = @ + 1], UNCHANGED recorded
    PROVE  Booked'
<1>1. \A x \in Told : given'[x] = IF x = z THEN given[x] + 1 ELSE given[x]
  BY DEF RequestsInv, Booked
<1>2. recorded' \in [Told -> Nat] /\ given' \in [Told -> Nat]
  BY DEF RequestsInv, Booked
<1> SUFFICES ASSUME NEW x \in Told PROVE given'[x] + Cardinality(Due(x)') <= recorded[x]
  BY <1>2 DEF Booked
<1>3. Due(x)' = Due(x) \ {q}
  <2>1. ~Waits(NoRequest, x)
    BY DEF Waits, NoRequest
  <2>2. Due(x)' = IF Waits(NoRequest, x) THEN Due(x) \cup {q} ELSE Due(x) \ {q}
    BY DueSteps
  <2> QED
    BY <2>1, <2>2
<1>4. q \in Due(x) <=> x = z
  BY DEF Due, Waits
<1>5. Cardinality(Due(x)) \in Nat
      /\ Cardinality(Due(x) \ {q}) = IF q \in Due(x) THEN Cardinality(Due(x)) - 1
                                     ELSE Cardinality(Due(x))
  BY DueCounts
<1>6. given[x] \in Nat /\ recorded[x] \in Nat /\ given[x] + Cardinality(Due(x)) <= recorded[x]
  BY DEF RequestsInv, Booked
<1>7. Cardinality(Due(x)') = IF x = z THEN Cardinality(Due(x)) - 1 ELSE Cardinality(Due(x))
  BY <1>3, <1>4, <1>5
<1> QED
  BY <1>1, <1>5, <1>6, <1>7

-----------------------------------------------------------------------------
(* The steps of a request.                                                 *)

Trusting == \A m \in Names, t \in Nat : Trusted(m, t) => Trusted(m, t)'

LEMMA TrustStays == UNCHANGED <<users, now, changed>> => Trusting
BY DEF Trusting, Trusted, EnabledLeads

LEMMA Asking ==
    ASSUME OperatorsInv, RequestsInv, NEW q \in Requests, NEW s \in SessionIds,
           NEW e \in Redacted \cup Cleartext, NEW a \in Audits \cup {NoAudit}, Ask(q, s, e, a)
    PROVE  RequestsInv'
<1> DEFINE y == [at |-> "asked", end |-> e, audit |-> a, late |-> FALSE,
                 by |-> sessions[s].user, role |-> sessions[s].role, opened |-> sessions[s].created]
<1>1. /\ req' = [req EXCEPT ![q] = y] /\ up /\ Authenticated(s)
      /\ UNCHANGED <<now, users, changed, recorded, given>>
  BY DEF Ask, Gate, Takes, Outside, accounts
<1>2. s \in DOMAIN sessions /\ Live(s)
  BY <1>1 DEF Authenticated, Live
<1>3. sessions[s].user \in Names /\ sessions[s].role \in Roles /\ sessions[s].created \in Nat
  BY <1>2 DEF OperatorsInv, Typed, Sessions
<1>4. y \in Serving
  BY <1>3 DEF Serving, Endpoints, Actors
<1>5. y.role = "lead" => Trusted(y.by, y.opened)
  BY <1>2, LeadTrusted
<1>6. Proper(y)
  BY <1>5 DEF Proper
<1>7. Vetted(y) /\ \A x : ~Waits(y, x)
  BY DEF Vetted, Waits
<1> HIDE DEF y
<1>8. Proceeds(q, y)
  BY <1>1, <1>4, <1>6, <1>7 DEF Proceeds
<1>9. recorded' \in [Told -> Nat] /\ \A x \in Told : recorded'[x] >= recorded[x]
  BY <1>1 DEF RequestsInv, Booked
<1>10. Booked'
  BY <1>1, <1>7, <1>9, NothingDue
<1>11. Trusting
  BY <1>1, TrustStays
<1> QED
  BY <1>8, <1>10, <1>11, Proceeding DEF Trusting

LEMMA ToolAsking ==
    ASSUME OperatorsInv, TokensInv, RequestsInv, NEW q \in Requests, NEW c \in Calls,
           NEW e \in Tools, NEW a \in Audits, AskTool(q, c, e, a)
    PROVE  RequestsInv'
<1> DEFINE y == [at |-> "asked", end |-> e, audit |-> a, late |-> call[c].late,
                 by |-> "mcp", role |-> call[c].role, opened |-> now]
<1>1. /\ req' = [req EXCEPT ![q] = y] /\ call[c].at = "granted"
      /\ UNCHANGED <<now, users, changed, recorded, given>>
  BY DEF AskTool, Serves, process, operators, accounts
<1>2. call[c] \in CallStates /\ call[c] # NoCall /\ Granted(call[c])
  BY <1>1 DEF TokensInv, NoCall
<1>3. call[c].role \in Roles \cup {"none"} /\ call[c].late \in BOOLEAN /\ ~call[c].late
  BY <1>2 DEF CallStates, Granted
<1>4. now \in Nat
  BY DEF OperatorsInv, Typed
<1>5. y \in Serving
  BY <1>3, <1>4 DEF Serving, Endpoints, Actors
<1>6. Proper(y)
  BY <1>3 DEF Proper
<1>7. Vetted(y) /\ \A x : ~Waits(y, x)
  BY DEF Vetted, Waits
<1> HIDE DEF y
<1>8. Proceeds(q, y)
  BY <1>1, <1>5, <1>6, <1>7 DEF Proceeds
<1>9. recorded' \in [Told -> Nat] /\ \A x \in Told : recorded'[x] >= recorded[x]
  BY <1>1 DEF RequestsInv, Booked
<1>10. Booked'
  BY <1>1, <1>7, <1>9, NothingDue
<1>11. Trusting
  BY <1>1, TrustStays
<1> QED
  BY <1>8, <1>10, <1>11, Proceeding DEF Trusting

\* A request that ends without an answer in cleartext.
LEMMA Ending ==
    ASSUME RequestsInv, NEW q \in Requests, Done(q), Trusting, UNCHANGED <<recorded, given>>
    PROVE  RequestsInv'
<1>1. Proceeds(q, NoRequest) /\ \A x : ~Waits(NoRequest, x)
  BY DEF Proceeds, Done, Waits, NoRequest
<1>2. req' = [req EXCEPT ![q] = NoRequest]
  BY DEF Done
<1>3. recorded' \in [Told -> Nat] /\ \A x \in Told : recorded'[x] >= recorded[x]
  BY DEF RequestsInv, Booked
<1>4. Booked'
  BY <1>1, <1>2, <1>3, NothingDue
<1> QED
  BY <1>1, <1>4, Proceeding DEF Trusting

\* One that goes on to a place where no cleartext is due.
LEMMA Going ==
    ASSUME RequestsInv, NEW q \in Requests, req[q].at # "none",
           NEW at \in {"noted", "loaded", "recorded"}, Goto(q, at),
           at = "recorded" => req[q].end \notin Cleartexts,
           at \in {"loaded", "recorded"} /\ req[q].end.lead => req[q].role = "lead",
           Trusting, UNCHANGED given,
           recorded' \in [Told -> Nat], \A x \in Told : recorded'[x] >= recorded[x]
    PROVE  RequestsInv'
<1> DEFINE y == At(req[q], at)
<1>1. req' = [req EXCEPT ![q] = y]
  BY Zenon DEF Goto, At
<1>2. req[q] \in Serving /\ Proper(req[q])
  BY InHand
<1>3. /\ y \in Serving /\ y # NoRequest /\ y.at = at
      /\ y.end = req[q].end /\ y.late = req[q].late /\ y.by = req[q].by /\ y.role = req[q].role
      /\ y.opened = req[q].opened
  BY <1>2, AtIn
<1> HIDE DEF y
<1>4. Proper(y)
  BY <1>2, <1>3 DEF Proper
<1>5. Vetted(y) /\ \A x : ~Waits(y, x)
  BY <1>3 DEF Vetted, Waits
<1>6. Proceeds(q, y)
  BY <1>1, <1>3, <1>4, <1>5 DEF Proceeds
<1>7. Booked'
  BY <1>1, <1>5, NothingDue
<1> QED
  BY <1>6, <1>7, Proceeding DEF Trusting

LEMMA RequestSteps ==
    ASSUME RequestsInv, NEW q \in Requests,
           \/ Deny(q) \/ Load(q) \/ Resolve(q) \/ NotFound(q)
           \/ Record(q) \/ RecordFails(q) \/ Answer(q)
    PROVE  RequestsInv'
<1>1. UNCHANGED <<users, now, changed>> /\ Trusting
  BY TrustStays
     DEF Deny, Load, Resolve, NotFound, Record, RecordFails, Answer, Elsewhere, operators, accounts,
         Serves, Takes, process
<1>2. recorded \in [Told -> Nat] /\ \A x \in Told : recorded[x] >= recorded[x]
  BY DEF RequestsInv, Booked
<1>3. CASE Deny(q) \/ NotFound(q)
  BY <1>1, <1>3, Ending DEF Deny, NotFound
<1>4. CASE Load(q)
  <2>1. req[q].at \in {"noted", "asked"} /\ UNCHANGED <<recorded, given>>
    BY <1>4 DEF Load
  <2>2. CASE ~Finds(q)
    BY <1>1, <1>4, <2>1, <2>2, Ending DEF Load
  <2>3. CASE Finds(q)
    <3> DEFINE at == IF First(q) THEN "recorded" ELSE "loaded"
    <3>1. Goto(q, at) /\ at \in {"noted", "loaded", "recorded"} /\ req[q].at # "none"
      BY <1>4, <2>1, <2>3 DEF Load
    <3>2. at = "recorded" => req[q].end \notin Cleartexts
      BY SecretsClosed DEF First
    <3>3. req[q].end.lead => req[q].role = "lead"
      BY <1>4 DEF Load, Entitled
    <3> HIDE DEF at
    <3> QED
      BY <1>1, <1>2, <2>1, <3>1, <3>2, <3>3, Going
  <2> QED
    BY <2>2, <2>3
<1>5. CASE Resolve(q)
  <2>1. req[q].at = "asked" /\ UNCHANGED <<recorded, given>>
    BY <1>5 DEF Resolve
  <2>2. CASE ~Finds(q)
    BY <1>1, <1>5, <2>1, <2>2, Ending DEF Resolve
  <2>3. CASE Finds(q)
    <3>1. Goto(q, "noted")
      BY <1>5, <2>3 DEF Resolve
    <3> QED
      BY <1>1, <1>2, <2>1, <3>1, Going
  <2> QED
    BY <2>2, <2>3
<1>6. CASE RecordFails(q)
  <2>1. req[q].at = "loaded" /\ UNCHANGED <<recorded, given>>
    BY <1>6 DEF RecordFails
  <2>2. CASE req[q].end.records = "closed"
    BY <1>1, <1>6, <2>1, <2>2, Ending DEF RecordFails
  <2>3. CASE req[q].end.records # "closed"
    <3>1. Goto(q, "recorded") /\ req[q].end \notin Cleartexts
      BY <1>6, <2>3, SecretsClosed DEF RecordFails
    <3>2. Vetted(req[q])
      BY <2>1, InHand
    <3> QED
      BY <1>1, <1>2, <2>1, <3>1, <3>2, Going DEF Vetted
  <2> QED
    BY <2>2, <2>3
<1>7. CASE Record(q)
  <2> DEFINE z == <<req[q].by, req[q].end.action>>
             y == At(req[q], "recorded")
  <2>1. req[q].at = "loaded" /\ Goto(q, "recorded") /\ UNCHANGED given
    BY <1>7 DEF Record
  <2>2. recorded' = IF req[q].end.records = "no" \/ z \notin Told THEN recorded
                    ELSE [recorded EXCEPT ![z] = @ + 1]
    BY <1>7, Zenon DEF Record
  <2>3. req[q] \in Serving /\ Vetted(req[q]) /\ Proper(req[q])
    BY <2>1, InHand
  <2>4. req[q].end \in Cleartexts => req[q].end.records = "closed" /\ z \in Told
    BY <2>3, SecretsClosed DEF Serving
  <2>5. CASE req[q].end \notin Cleartexts
    <3>1. recorded' \in [Told -> Nat] /\ \A x \in Told : recorded'[x] >= recorded[x]
      <4> HIDE DEF z
      <4> QED
        BY <2>2 DEF RequestsInv, Booked
    <3> QED
      BY <1>1, <2>1, <2>3, <2>5, <3>1, Going DEF Vetted
  <2>6. CASE req[q].end \in Cleartexts
    <3>1. z \in Told /\ recorded' = [recorded EXCEPT ![z] = @ + 1]
      BY <2>2, <2>4, <2>6
    <3>2. req' = [req EXCEPT ![q] = y]
      BY <2>1, Zenon DEF Goto, At
    <3>3. /\ y \in Serving /\ y # NoRequest /\ y.at = "recorded"
          /\ y.end = req[q].end /\ y.late = req[q].late /\ y.by = req[q].by /\ y.role = req[q].role
          /\ y.opened = req[q].opened
      BY <2>3, AtIn
    <3> HIDE DEF y
    <3>4. \A x \in Told : Waits(y, x) => x = z
      BY <3>3 DEF Waits
    <3>5. Proper(y) /\ Vetted(y)
      BY <2>1, <2>3, <3>3 DEF Proper, Vetted
    <3>6. Proceeds(q, y)
      BY <2>1, <3>2, <3>3, <3>5 DEF Proceeds
    <3> HIDE DEF z
    <3>7. Booked'
      BY <2>1, <3>1, <3>2, <3>4, Recording
    <3> QED
      BY <1>1, <3>6, <3>7, Proceeding DEF Trusting
  <2> QED
    BY <2>5, <2>6
<1>8. CASE Answer(q)
  <2> DEFINE z == <<req[q].by, req[q].end.action>>
  <2>1. req[q].at = "recorded" /\ Done(q) /\ UNCHANGED recorded
    BY <1>8 DEF Answer
  <2>2. given' = IF req[q].end \notin Cleartexts THEN given ELSE [given EXCEPT ![z] = @ + 1]
    BY <1>8, Zenon DEF Answer, Cleartexts
  <2>3. CASE req[q].end \notin Cleartexts
    BY <1>1, <2>1, <2>2, <2>3, Ending
  <2>4. CASE req[q].end \in Cleartexts
    <3>1. req[q] \in Serving
      BY <2>1, InHand
    <3>2. z \in Told
      BY <2>4, <3>1, SecretsClosed DEF Serving
    <3>3. Waits(req[q], z)
      BY <2>1, <2>4 DEF Waits
    <3>4. req' = [req EXCEPT ![q] = NoRequest] /\ given' = [given EXCEPT ![z] = @ + 1]
      BY <2>1, <2>2, <2>4 DEF Done
    <3>5. given' \in [Told -> Nat]
      BY <3>2, <3>4 DEF RequestsInv, Booked
    <3> HIDE DEF z
    <3>6. Booked'
      BY <2>1, <3>2, <3>3, <3>4, Answering
    <3>7. req' \in [Requests -> {NoRequest} \cup Serving]
          /\ \A p \in Requests : req'[p] # NoRequest => req'[p] = req[p]
      BY <3>4 DEF RequestsInv
    <3>8. ASSUME NEW p \in Requests, req'[p] # NoRequest
          PROVE  Proper(req[p])' /\ Vetted(req[p])'
      <4>1. req'[p] = req[p] /\ req[p] \in Serving /\ Proper(req[p]) /\ Vetted(req[p])
        BY <3>7, <3>8 DEF RequestsInv
      <4>2. req[p].by \in Actors /\ req[p].opened \in Nat
        BY <4>1 DEF Serving
      <4> QED
        BY <1>1, <4>1, <4>2 DEF Proper, Vetted, Actors, Trusting
    <3> QED
      BY <3>6, <3>7, <3>8 DEF RequestsInv
  <2> QED
    BY <2>3, <2>4
<1> QED
  BY <1>3, <1>4, <1>5, <1>6, <1>7, <1>8

\* A step that leaves the requests alone, and leads leads.
LEMMA RequestsStay ==
    ASSUME RequestsInv, UNCHANGED <<req, recorded, given>>, Trusting
    PROVE  RequestsInv'
<1>1. ASSUME NEW p \in Requests, req[p] # NoRequest
      PROVE  Proper(req[p])' /\ Vetted(req[p])'
  <2>1. req[p] \in Serving /\ Proper(req[p]) /\ Vetted(req[p])
    BY <1>1 DEF RequestsInv
  <2>2. req[p].by \in Actors /\ req[p].opened \in Nat
    BY <2>1 DEF Serving
  <2> QED
    BY <2>1, <2>2 DEF Proper, Vetted, Actors, Trusting
<1>2. Booked'
  BY DEF RequestsInv, Booked, Due, Waits
<1> QED
  BY <1>1, <1>2 DEF RequestsInv

LEMMA RequestsSteps ==
    ASSUME OperatorsInv, TokensInv, RequestsInv, RequestsNext
    PROVE  RequestsInv'
<1>1. ASSUME NEW s \in SessionIds,
             \/ \E a \in Sources, right \in BOOLEAN : UnlockStore(s, a, right)
             \/ LockStore(s)
             \/ \E a \in Audits : CreateAudit(s, a) \/ DeleteAudit(s, a) \/ OpenAudit(s, a)
      PROVE  RequestsInv'
  <2>1. UNCHANGED <<req, recorded, given, users, now, changed>>
    BY <1>1 DEF UnlockStore, LockStore, CreateAudit, DeleteAudit, OpenAudit, Takes, Outside, accounts
  <2> QED
    BY <2>1, TrustStays, RequestsStay
<1> QED
  BY <1>1, Asking, ToolAsking, RequestSteps DEF RequestsNext

\* No request is being served.
LEMMA Idle ==
    ASSUME RequestsInv, \A q \in Requests : req'[q] = NoRequest,
           req' \in [Requests -> {NoRequest}], UNCHANGED <<recorded, given>>
    PROVE  RequestsInv'
<1>1. \A x \in Told : Due(x)' = {}
  BY DEF Due, Waits, NoRequest
<1>2. \A x \in Told : Cardinality(Due(x)') = 0
  BY <1>1, FS_EmptySet
<1>3. ASSUME NEW x \in Told PROVE given[x] + Cardinality(Due(x)') <= recorded[x]
  <2>1. Cardinality(Due(x)) \in Nat
    <3>1. Due(x) \subseteq Requests
      BY DEF Due
    <3> QED
      BY <3>1, RequestsAssumption, FS_Subset, FS_CardinalityType
  <2>2. given[x] \in Nat /\ recorded[x] \in Nat /\ given[x] + Cardinality(Due(x)) <= recorded[x]
    BY DEF RequestsInv, Booked
  <2> QED
    BY <1>2, <2>1, <2>2
<1>4. Booked'
  BY <1>3 DEF RequestsInv, Booked
<1> QED
  BY <1>4 DEF RequestsInv

LEMMA RequestsInitially == RequestsInit => RequestsInv
<1> SUFFICES ASSUME RequestsInit PROVE RequestsInv
  OBVIOUS
<1>1. req = [q \in Requests |-> NoRequest] /\ recorded = [x \in Told |-> 0] /\ given = [x \in Told |-> 0]
  BY DEF RequestsInit
<1>2. \A x \in Told : Due(x) = {}
  BY <1>1 DEF Due, Waits, NoRequest
<1>3. \A x \in Told : Cardinality(Due(x)) = 0
  BY <1>2, FS_EmptySet
<1>4. recorded \in [Told -> Nat] /\ given \in [Told -> Nat]
      /\ \A x \in Told : recorded[x] = 0 /\ given[x] = 0
  BY <1>1
<1>5. Booked
  BY <1>3, <1>4 DEF Booked
<1> QED
  BY <1>1, <1>5 DEF RequestsInv

LEMMA LoggedFirst == RequestsInv => CleartextLogged
<1> SUFFICES ASSUME RequestsInv, NEW x \in Told PROVE given[x] <= recorded[x]
  BY DEF CleartextLogged
<1>1. Due(x) \subseteq Requests
  BY DEF Due
<1>2. Cardinality(Due(x)) \in Nat
  BY <1>1, RequestsAssumption, FS_Subset, FS_CardinalityType
<1> QED
  BY <1>2 DEF RequestsInv, Booked

LEMMA LeadsOnly == OperatorsInv /\ RequestsInv => CleartextToLeads
<1> SUFFICES ASSUME OperatorsInv, RequestsInv, NEW q \in Requests, req[q].at = "recorded", req[q].end.lead
             PROVE  /\ req[q].role = "lead"
                    /\ IF req[q].by = "mcp" THEN ~req[q].late
                       ELSE changed[req[q].by] < req[q].opened => req[q].by \in EnabledLeads(users)
  BY DEF CleartextToLeads
<1>1. req[q] \in Serving /\ Proper(req[q]) /\ Vetted(req[q])
  BY InHand
<1>2. req[q].role = "lead" /\ (req[q].by = "mcp" => ~req[q].late)
  BY <1>1 DEF Proper, Vetted
<1>3. ASSUME req[q].by # "mcp", changed[req[q].by] < req[q].opened
      PROVE  req[q].by \in EnabledLeads(users)
  <2>1. req[q].by \in Names /\ req[q].opened \in Nat
    BY <1>1, <1>3 DEF Serving, Actors
  <2>2. changed[req[q].by] \in Nat
    BY <2>1 DEF OperatorsInv, Typed
  <2>3. Trusted(req[q].by, req[q].opened)
    BY <1>1, <1>2, <1>3 DEF Proper
  <2> QED
    BY <1>3, <2>1, <2>2, <2>3 DEF Trusted
<1> QED
  BY <1>2, <1>3

-----------------------------------------------------------------------------
(* The types of the tokens' tables; the races of `patd token` do not bear    *)
(* on them.                                                                 *)

Table(T) == DOMAIN T \subseteq TokenIds /\ Issued(T, minted)

TokensTyped ==
    /\ Minting(minted)
    /\ Table(tokens) /\ Table(tokensFile)
    /\ DOMAIN flushed \subseteq DOMAIN tokens
    /\ Counts(mcpThrottle)
    /\ promised \subseteq DOMAIN minted /\ revoked \subseteq DOMAIN minted

LEMMA TokensAreTyped == TokensTyped => TokensTypeOK
BY DEF TokensTyped, TokensTypeOK, Table, Issued, Token, Minting, Counts

\* Once a token is minted it may go into a table.
LEMMA Minted ==
    ASSUME Minting(minted), NEW id, NEW role \in Roles, NEW e \in Expiries, Mint(id, role),
           NEW T, Issued(T, minted)
    PROVE  /\ Minting(minted') /\ DOMAIN minted' = DOMAIN minted \cup {id}
           /\ Issued(T, minted') /\ Issued(Issue(id, role, e, T), minted')
           /\ DOMAIN Issue(id, role, e, T) = DOMAIN T \cup {id}
<1>1. id \notin DOMAIN minted /\ minted' = With(minted, id, role)
  BY DEF Mint
<1>2. /\ Minting(minted') /\ DOMAIN minted' = DOMAIN minted \cup {id} /\ minted'[id] = role
      /\ Issued(T, minted')
  BY <1>1, MintedMore
<1>3. e \in 0..Never
  BY TokensAssumption
<1>4. id \in DOMAIN minted' /\ minted'[id] = role /\ Issued(T, minted')
  BY <1>2
<1> DEFINE U == Issue(id, minted'[id], e, T)
<1>5. \A V : V = U => Issued(V, minted') /\ DOMAIN V = DOMAIN T \cup {id}
  BY <1>3, <1>4, IssuedMore
<1> QED
  BY <1>2, <1>4, <1>5

\* It goes into one table or both.
LEMMA MintTyped ==
    ASSUME TokensTyped, NEW id \in TokenIds, NEW role \in Roles, NEW e \in Expiries, Mint(id, role)
    PROVE  /\ tokens' \in {tokens, Issue(id, role, e, tokens)}
           /\ tokensFile' \in {tokensFile, tokens', Issue(id, role, e, tokensFile)}
           /\ UNCHANGED <<flushed, mcpThrottle>>
           => TokensTyped'
<1>1. ASSUME NEW T, Table(T)
      PROVE  /\ Minting(minted') /\ DOMAIN minted' = DOMAIN minted \cup {id}
             /\ Issued(T, minted') /\ Issued(Issue(id, role, e, T), minted')
             /\ DOMAIN Issue(id, role, e, T) = DOMAIN T \cup {id}
  <2>1. Minting(minted) /\ Issued(T, minted)
    BY <1>1 DEF TokensTyped, Table
  <2> QED
    BY <2>1, Minted
<1>2. /\ Minting(minted') /\ DOMAIN minted' = DOMAIN minted \cup {id}
      /\ Issued(tokens, minted') /\ Issued(Issue(id, role, e, tokens), minted')
      /\ Issued(tokensFile, minted') /\ Issued(Issue(id, role, e, tokensFile), minted')
      /\ DOMAIN Issue(id, role, e, tokens) = DOMAIN tokens \cup {id}
      /\ DOMAIN Issue(id, role, e, tokensFile) = DOMAIN tokensFile \cup {id}
  BY <1>1 DEF TokensTyped
<1> SUFFICES ASSUME tokens' \in {tokens, Issue(id, role, e, tokens)},
                    tokensFile' \in {tokensFile, tokens', Issue(id, role, e, tokensFile)},
                    UNCHANGED <<flushed, mcpThrottle>>
             PROVE  TokensTyped'
  OBVIOUS
<1>4. Issued(tokens', minted') /\ DOMAIN tokens' \subseteq TokenIds /\ DOMAIN tokens \subseteq DOMAIN tokens'
  BY <1>2 DEF TokensTyped, Table
<1>5. Issued(tokensFile', minted') /\ DOMAIN tokensFile' \subseteq TokenIds
  BY <1>2, <1>4 DEF TokensTyped, Table
<1>6. promised' \subseteq DOMAIN minted' /\ revoked' \subseteq DOMAIN minted'
  BY <1>2 DEF TokensTyped, Mint
<1> QED
  BY <1>2, <1>4, <1>5, <1>6 DEF TokensTyped, Table

LEMMA DropTyped ==
    ASSUME TokensTyped, NEW id,
           \/ id \in DOMAIN tokens /\ tokens' = Without(tokens, id) /\ flushed' = Without(flushed, id)
              /\ tokensFile' \in {tokens', tokensFile}
           \/ id \in DOMAIN tokensFile /\ tokensFile' = Without(tokensFile, id) /\ UNCHANGED <<tokens, flushed>>,
           revoked' = revoked \cup {id}, promised' = promised \ {id}, UNCHANGED <<minted, mcpThrottle>>
    PROVE  TokensTyped'
<1>1. \A T : Table(T) => Issued(Without(T, id), minted) /\ DOMAIN Without(T, id) = DOMAIN T \ {id}
  BY IssuedLess DEF Table
<1>2. Issued(tokens', minted) /\ Issued(tokensFile', minted) /\ DOMAIN tokens' \subseteq TokenIds
      /\ DOMAIN tokensFile' \subseteq TokenIds
  BY <1>1 DEF TokensTyped, Table
<1>3. DOMAIN flushed' \subseteq DOMAIN tokens'
  <2>1. DOMAIN Without(flushed, id) = DOMAIN flushed \ {id}
    BY DEF Without, Restrict
  <2> QED
    BY <1>1, <2>1 DEF TokensTyped
<1>4. revoked' \subseteq DOMAIN minted /\ promised' \subseteq DOMAIN minted
  BY DEF TokensTyped, Table, Issued
<1> QED
  BY <1>2, <1>3, <1>4 DEF TokensTyped, Table

LEMMA CallTyped ==
    ASSUME TokensTyped, now \in Nat, NEW c \in Calls,
           \/ \E id \in TokenIds, a \in Sources : CallBegin(c, id, a)
           \/ Touch(c) \/ CallEnd(c)
    PROVE  TokensTyped'
<1>1. UNCHANGED <<tokens, minted, promised, revoked>> /\ tokensFile' \in {tokens, tokensFile}
  BY DEF CallBegin, Touch, CallEnd, tokenStore, tokenGhost
<1>2. Counts(mcpThrottle')
  <2>1. \A a : /\ Counts(Without(mcpThrottle, a)) /\ Counts(Asked(mcpThrottle, a))
               /\ Counts(Failed(mcpThrottle, a))
    BY Counting DEF TokensTyped
  <2> QED
    BY <2>1 DEF TokensTyped, CallBegin, Touch, CallEnd
<1>3. DOMAIN flushed' \subseteq DOMAIN tokens
  <2>1. CASE Touch(c)
    <3>1. flushed' = flushed \/ (call[c].id \in DOMAIN tokens /\ flushed' = With(flushed, call[c].id, now))
      BY <2>1 DEF Touch
    <3> QED
      BY <3>1 DEF TokensTyped, With
  <2>2. CASE ~Touch(c)
    BY <2>2 DEF TokensTyped, CallBegin, CallEnd, tokenStore
  <2> QED
    BY <2>1, <2>2
<1> QED
  BY <1>1, <1>2, <1>3 DEF TokensTyped, Table

LEMMA TokensTypedSteps == ASSUME TokensTyped, now \in Nat, TokensNext PROVE TokensTyped'
<1>1. ASSUME NEW id \in TokenIds, NEW role \in Roles, NEW e \in Expiries,
             (\E s \in SessionIds : CreateToken(s, id, role, e)) \/ ShellCreate(id, role, e)
      PROVE  TokensTyped'
  <2>1. /\ Mint(id, role) /\ UNCHANGED <<flushed, mcpThrottle>>
        /\ tokens' \in {tokens, Issue(id, role, e, tokens)}
        /\ tokensFile' \in {tokensFile, tokens', Issue(id, role, e, tokensFile)}
    BY <1>1 DEF CreateToken, ShellCreate
  <2> QED
    BY <2>1, MintTyped
<1>2. ASSUME NEW id \in TokenIds, (\E s \in SessionIds : RevokeToken(s, id)) \/ ShellRevoke(id)
      PROVE  TokensTyped'
  <2>1. /\ \/ id \in DOMAIN tokens /\ tokens' = Without(tokens, id) /\ flushed' = Without(flushed, id)
              /\ tokensFile' \in {tokens', tokensFile}
           \/ id \in DOMAIN tokensFile /\ tokensFile' = Without(tokensFile, id) /\ UNCHANGED <<tokens, flushed>>
        /\ revoked' = revoked \cup {id} /\ promised' = promised \ {id} /\ UNCHANGED <<minted, mcpThrottle>>
    BY <1>2 DEF RevokeToken, ShellRevoke
  <2> QED
    BY <2>1, DropTyped
<1> QED
  BY <1>1, <1>2, CallTyped DEF TokensNext

LEMMA TokensTypedStay ==
    ASSUME TokensTyped, UNCHANGED <<tokenStore, mcpThrottle, tokenGhost>>
    PROVE  TokensTyped'
BY DEF TokensTyped, Table, tokenStore, tokenGhost

LEMMA TokensTypedBoot == TokensTyped /\ TokensBoot => TokensTyped'
<1> SUFFICES ASSUME TokensTyped, TokensBoot PROVE TokensTyped'
  OBVIOUS
<1>1. flushed' = <<>> /\ mcpThrottle' = <<>> /\ tokens' = tokensFile
      /\ revoked' \subseteq revoked /\ UNCHANGED <<tokensFile, minted, promised>>
  BY DEF TokensBoot, Nothing
<1>2. DOMAIN flushed' = {} /\ Counts(mcpThrottle')
  BY <1>1 DEF Counts
<1> QED
  BY <1>1, <1>2 DEF TokensTyped, Table

LEMMA TokensTypedInit == TokensInit => TokensTyped
<1> SUFFICES ASSUME TokensInit PROVE TokensTyped
  OBVIOUS
<1>1. /\ tokens = <<>> /\ tokensFile = <<>> /\ minted = <<>> /\ promised = {} /\ revoked = {}
      /\ flushed = <<>> /\ mcpThrottle = <<>>
  BY DEF TokensInit, Nothing
<1>2. DOMAIN <<>> = {} /\ \A S : <<>> \in [{} -> S]
  OBVIOUS
<1> QED
  BY <1>1, <1>2 DEF TokensTyped, Table, Minting, Issued, Counts

-----------------------------------------------------------------------------
(* The store's lock, the audits and who has which open.                    *)

LEMMA AuthenticatedThere == ASSUME NEW s, Authenticated(s)
                            PROVE  s \in DOMAIN sessions /\ DOMAIN sessions' = DOMAIN sessions
BY DEF Authenticated, Live

LEMMA RequestsTypedSteps == ASSUME RequestsTypeOK, RequestsNext PROVE RequestsTypeOK'
<1>1. ASSUME NEW s \in SessionIds,
             \/ \E a \in Sources, right \in BOOLEAN : UnlockStore(s, a, right)
             \/ LockStore(s)
             \/ \E a \in Audits : CreateAudit(s, a) \/ DeleteAudit(s, a) \/ OpenAudit(s, a)
      PROVE  RequestsTypeOK'
  <2>1. Authenticated(s)
    BY <1>1 DEF UnlockStore, LockStore, CreateAudit, DeleteAudit, OpenAudit, LeadSession, Gate
  <2>2. s \in DOMAIN sessions /\ DOMAIN sessions' = DOMAIN sessions
    BY <2>1, AuthenticatedThere
  <2>3. /\ unlocked' \in BOOLEAN
        /\ audit' \in [Audits -> {"unborn", "present", "deleted"}]
        /\ UNCHANGED <<recorded, given>>
        /\ active' = active \/ \E a \in Audits : active' = [active EXCEPT ![s] = a]
    BY <1>1 DEF UnlockStore, LockStore, CreateAudit, DeleteAudit, OpenAudit, RequestsTypeOK
  <2> QED
    BY <2>2, <2>3 DEF RequestsTypeOK
<1>2. ASSUME NEW q \in Requests, NEW s \in SessionIds, NEW e, NEW a, Ask(q, s, e, a)
      PROVE  RequestsTypeOK'
  <2>1. DOMAIN sessions' = DOMAIN sessions
    BY <1>2, AuthenticatedThere DEF Ask, Gate
  <2>2. UNCHANGED <<unlocked, audit, active, recorded, given>>
    BY <1>2 DEF Ask, Apart
  <2> QED
    BY <2>1, <2>2 DEF RequestsTypeOK
<1>3. ASSUME NEW q \in Requests, NEW c, NEW e, NEW a, AskTool(q, c, e, a)
      PROVE  RequestsTypeOK'
  BY <1>3 DEF AskTool, Apart, operators, RequestsTypeOK
<1>4. ASSUME NEW q \in Requests,
             \/ Deny(q) \/ Load(q) \/ Resolve(q) \/ NotFound(q)
             \/ Record(q) \/ RecordFails(q) \/ Answer(q)
      PROVE  RequestsTypeOK'
  <2>1. UNCHANGED <<unlocked, audit, active, sessions>>
    BY <1>4 DEF Deny, Load, Resolve, NotFound, Record, RecordFails, Answer, Elsewhere, Apart, operators
  <2>2. \/ UNCHANGED <<recorded, given>>
        \/ UNCHANGED given /\ \E x : recorded' = [recorded EXCEPT ![x] = @ + 1]
        \/ UNCHANGED recorded /\ \E x : given' = [given EXCEPT ![x] = @ + 1]
    BY <1>4 DEF Deny, Load, Resolve, NotFound, Record, RecordFails, Answer
  <2>3. recorded' \in [Told -> Nat] /\ given' \in [Told -> Nat]
    BY <2>2 DEF RequestsTypeOK
  <2> QED
    BY <2>1, <2>3 DEF RequestsTypeOK
<1> QED
  BY <1>1, <1>2, <1>3, <1>4 DEF RequestsNext

LEMMA RequestsTypedStay ==
    ASSUME RequestsTypeOK, UNCHANGED <<unlocked, audit, active, recorded, given>>,
           DOMAIN sessions' = DOMAIN sessions
    PROVE  RequestsTypeOK'
BY DEF RequestsTypeOK

LEMMA RequestsTypedForget ==
    ASSUME RequestsTypeOK, ForgetActive, UNCHANGED <<unlocked, audit, recorded, given>>
    PROVE  RequestsTypeOK'
BY DEF RequestsTypeOK, ForgetActive

LEMMA RequestsTypedBoot == RequestsTypeOK /\ RequestsBoot => RequestsTypeOK'
BY DEF RequestsTypeOK, RequestsBoot

LEMMA RequestsTypedInit == RequestsInit => RequestsTypeOK
<1> SUFFICES ASSUME RequestsInit PROVE RequestsTypeOK
  OBVIOUS
<1>1. /\ unlocked = FALSE /\ audit = [a \in Audits |-> "unborn"] /\ active = [s \in SessionIds |-> NoAudit]
      /\ recorded = [x \in Told |-> 0] /\ given = [x \in Told |-> 0]
  BY DEF RequestsInit
<1>2. recorded \in [Told -> Nat] /\ given \in [Told -> Nat]
  BY <1>1
<1>3. active \in [SessionIds -> Audits \cup {NoAudit}] /\ \A s \in SessionIds : active[s] = NoAudit
  BY <1>1
<1>4. audit \in [Audits -> {"unborn", "present", "deleted"}] /\ unlocked \in BOOLEAN
  BY <1>1
<1> QED
  BY <1>2, <1>3, <1>4 DEF RequestsTypeOK

=============================================================================
