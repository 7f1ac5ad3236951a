--------------------------- MODULE DurableAudits ---------------------------
(***************************************************************************)
(* What the encrypted store promises about the audits on disk, without     *)
(* keys, files, locks or crashes: saving an audit makes it recoverable,    *)
(* deleting it makes it unrecoverable, and nothing else changes either.    *)
(***************************************************************************)
CONSTANT Ids

VARIABLES
    readable,  \* audits whose content the keyfile and passphrase recover
    doomed     \* audits whose erasure has begun

vars == <<readable, doomed>>

Init == readable = {} /\ doomed = {}

Save(id) ==
    /\ id \notin doomed
    /\ readable' = readable \cup {id}
    /\ UNCHANGED doomed

Erase(id) ==
    /\ readable' = readable \ {id}
    /\ doomed' = doomed \cup {id}

Next == \E id \in Ids : Save(id) \/ Erase(id)

Spec == Init /\ [][Next]_vars

=============================================================================
