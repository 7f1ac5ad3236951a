------------------------------- MODULE Vault -------------------------------
(***************************************************************************)
(* The encrypted store on disk and the keys in memory (internal/vault),    *)
(* driven by the store that owns it (the writeMu sections of               *)
(* internal/store).                                                        *)
(*                                                                         *)
(* A key is a natural number, NoKey the nil slice; a file is the key its   *)
(* ciphertext is sealed under, NoFile when it does not exist, Junk when no *)
(* key opens it (overwritten by secureErase, or sealed after the captured  *)
(* key slice was zeroed).  Plaintexts, nonces, AAD and key derivation are  *)
(* abstracted: opening succeeds exactly under the sealing key.             *)
(*                                                                         *)
(* Every file write is its own step: a crash or an error can fall between  *)
(* any two of them.  The operation inside writeMu is at `op'; v.mu is held *)
(* exclusively exactly in the steps of MuHeld.                             *)
(***************************************************************************)
EXTENDS Integers, FiniteSets

CONSTANTS
    Ids,        \* audit ids
    Passes,     \* store passphrases
    NoId,       \* no audit
    NoPass,     \* no passphrase
    Unguarded,  \* unexcluded interleavings this instance lets happen
    MaxKeys,    \* bound: data keys ever generated
    MaxFaults   \* bound: crashes and I/O errors

(***************************************************************************)
(* What nothing in the code prevents and the operator has to avoid:        *)
(*   "lock_in_flight"    Lock while a captured key slice is in use         *)
(*   "repass_in_rekey"   ChangePassphrase over an interrupted rekey        *)
(*   "repass_locked"     ChangePassphrase reaching an already locked vault *)
(*   "load_in_rekey"     LoadAll and Rekey at the same time                *)
(***************************************************************************)
Races == {"lock_in_flight", "repass_in_rekey", "repass_locked", "load_in_rekey"}

ASSUME VaultAssumption ==
    /\ NoId \notin Ids
    /\ NoPass \notin Passes
    /\ Unguarded \subseteq Races
    /\ MaxKeys \in Nat
    /\ MaxFaults \in Nat

NoKey  == 0
NoFile == 0
Junk   == -1
Sealed == Nat \cup {Junk}

Keyfiles == [pri : Nat, prev : Nat, pass : Passes \cup {NoPass}]
NoKeyfile == [pri |-> NoKey, prev |-> NoKey, pass |-> NoPass]

VARIABLES
    keyfile,  \* keyfile.json
    bak,      \* keyfile.json.bak
    files,    \* files[id]: audits/<id>.enc
    index,    \* index.enc
    corrupt,  \* ids quarantined to <id>.enc.corrupt
    dek,      \* Vault.dek
    prevDek,  \* Vault.prevDEK
    op,       \* where the holder of writeMu stands
    arg,      \* the audit it saves or deletes
    held,     \* the key it captured under the read lock
    seen,     \* the keyfile it read before taking v.mu
    todo,     \* audits a rekey has not yet resealed
    loader,   \* LoadAll (not under writeMu): "off", "scan", "built"
    scan,     \* blobs it has still to read
    lkeys,    \* the keys it captured
    hit,      \* the blob it could not open and is about to quarantine
    lastKey,  \* the last data key generated
    faults,   \* crashes and I/O errors so far
    doomed,   \* history: audits whose erasure has begun since their last save
    retired   \* history: passphrases a completed ChangePassphrase replaced

disk    == <<keyfile, bak, files, index, corrupt>>
mem     == <<dek, prevDek>>
writer  == <<op, arg, held, seen, todo>>
reader  == <<loader, scan, lkeys, hit>>
history == <<doomed, retired>>
vars == <<disk, mem, writer, reader, lastKey, faults, history>>

WriterSteps == {"idle", "saving", "saved", "indexing", "unlisting", "erasing",
                "removing", "verified", "reseal", "final", "tidy", "repass"}

\* Rekey and ChangePassphrase hold v.mu from their first write on.
MuHeld == op \in {"reseal", "final", "tidy", "repass"}
Rekeying == op \in {"verified", "reseal", "final", "tidy"}
\* A key slice captured under the read lock is used after the unlock.
Captured == op \in {"saving", "indexing", "unlisting"}

Initialized == keyfile.pri # NoKey

DiskKeys == {keyfile.pri, keyfile.prev} \ {NoKey}
MemKeys  == {dek, prevDek} \ {NoKey}
ListAudits == {id \in Ids : files[id] # NoFile}

Init ==
    /\ keyfile = NoKeyfile
    /\ bak = NoKeyfile
    /\ files = [id \in Ids |-> NoFile]
    /\ index = NoFile
    /\ corrupt = {}
    /\ dek = NoKey
    /\ prevDek = NoKey
    /\ op = "idle"
    /\ arg = NoId
    /\ held = NoKey
    /\ seen = NoKeyfile
    /\ todo = {}
    /\ loader = "off"
    /\ scan = {}
    /\ lkeys = {}
    /\ hit = NoId
    /\ lastKey = NoKey
    /\ faults = 0
    /\ doomed = {}
    /\ retired = {}

-----------------------------------------------------------------------------
\* Leaving the writeMu section; whatever the operation held in locals is gone.
Release ==
    /\ op' = "idle"
    /\ arg' = NoId
    /\ held' = NoKey
    /\ seen' = NoKeyfile
    /\ todo' = {}

LoaderOff ==
    /\ loader' = "off"
    /\ scan' = {}
    /\ lkeys' = {}
    /\ hit' = NoId

\* rand.Read: a data key never used before.
FreshKey ==
    /\ lastKey < MaxKeys
    /\ lastKey' = lastKey + 1

(***************************************************************************)
(* wrapAndWriteBoth: the old keyfile is copied to .bak, best effort, then  *)
(* the new one replaces it atomically.                                     *)
(***************************************************************************)
WriteKeyfile(pri, prev, pass) ==
    /\ bak' \in {bak, keyfile}
    /\ keyfile' = [pri |-> pri, prev |-> prev, pass |-> pass]

-----------------------------------------------------------------------------
(* Passphrase and lock operations.                                         *)

Initialize(p) ==
    /\ ~MuHeld
    /\ ~Initialized
    /\ FreshKey
    /\ keyfile' = [pri |-> lastKey', prev |-> NoKey, pass |-> p]
    /\ dek' = lastKey'
    /\ UNCHANGED <<bak, files, index, corrupt, prevDek, writer, reader, faults, history>>

\* Mutant: unlocking ignores the previous key.
UnlockPrimaryOnly(p) ==
    /\ ~MuHeld
    /\ Initialized
    /\ keyfile.pass = p
    /\ dek' = keyfile.pri
    /\ prevDek' = NoKey
    /\ UNCHANGED <<disk, writer, reader, lastKey, faults, history>>

\* Nothing in Vault.Unlock asks whether the vault is locked.
Unlock(p) ==
    /\ ~MuHeld
    /\ Initialized
    /\ keyfile.pass = p
    /\ dek' = keyfile.pri
    /\ prevDek' = keyfile.prev
    /\ UNCHANGED <<disk, writer, reader, lastKey, faults, history>>

(***************************************************************************)
(* Lock zeroes the key slices in place, those that SaveAudit, SaveIndex    *)
(* and LoadAll captured included: what they seal or open afterwards is a   *)
(* race between the zeroing and their use of the slice.                    *)
(***************************************************************************)
Lock ==
    /\ ~MuHeld
    /\ Captured \/ loader = "scan" => "lock_in_flight" \in Unguarded
    /\ dek' = NoKey
    /\ prevDek' = NoKey
    /\ held' \in IF Captured THEN {held, Junk} ELSE {held}
    /\ lkeys' \in {lkeys, {}}
    /\ UNCHANGED <<disk, op, arg, seen, todo, loader, scan, hit, lastKey, faults, history>>

ChangePassphrase(old, new) ==
    /\ op = "idle"
    /\ Initialized
    /\ keyfile.pass = old
    /\ keyfile.prev # NoKey => "repass_in_rekey" \in Unguarded
    /\ dek = NoKey => "repass_locked" \in Unguarded
    /\ op' = "repass"
    /\ seen' = keyfile
    /\ WriteKeyfile(keyfile.pri, NoKey, new)
    /\ retired' = retired \ {new}
    /\ UNCHANGED <<files, index, corrupt, mem, arg, held, todo, reader, lastKey, faults, doomed>>

\* Mutant: the backup is kept.
ChangePassphraseKeepBak ==
    /\ op = "repass"
    /\ dek' = keyfile.pri
    /\ retired' = (retired \cup {seen.pass}) \ {keyfile.pass}
    /\ Release
    /\ UNCHANGED <<disk, prevDek, reader, lastKey, faults, doomed>>

\* The backup that the old passphrase opens is removed (assumed to succeed).
ChangePassphraseDone ==
    /\ op = "repass"
    /\ bak' = NoKeyfile
    /\ dek' = keyfile.pri
    /\ retired' = (retired \cup {seen.pass}) \ {keyfile.pass}
    /\ Release
    /\ UNCHANGED <<keyfile, files, index, corrupt, prevDek, reader, lastKey, faults, doomed>>

-----------------------------------------------------------------------------
(* Store.persist: SaveAudit, then SaveIndex.  Store.Delete: SaveIndex,     *)
(* then DeleteAudit.  Each captures v.dek under the read lock, seals, and  *)
(* writes with no lock of the vault held.                                  *)

\* Mutant: the id is not passed on to the write.
SaveAuditBeginNoId(id) ==
    /\ op = "idle"
    /\ dek # NoKey
    /\ id \notin doomed
    /\ op' = "saving"
    /\ held' = dek
    /\ UNCHANGED <<disk, mem, arg, seen, todo, reader, lastKey, faults, history>>

\* Store.swap refuses an audit that Delete has taken out of the index.
SaveAuditBegin(id) ==
    /\ op = "idle"
    /\ dek # NoKey
    /\ id \notin doomed
    /\ op' = "saving"
    /\ arg' = id
    /\ held' = dek
    /\ UNCHANGED <<disk, mem, seen, todo, reader, lastKey, faults, history>>

SaveAuditWrite ==
    /\ op = "saving"
    /\ files' = [files EXCEPT ![arg] = held]
    /\ op' = "saved"
    /\ held' = NoKey
    /\ UNCHANGED <<keyfile, bak, index, corrupt, mem, arg, seen, todo, reader, lastKey, faults, history>>

DeleteBegin(id) ==
    /\ op = "idle"
    /\ dek # NoKey
    /\ op' = "unlisting"
    /\ arg' = id
    /\ held' = dek
    /\ UNCHANGED <<disk, mem, seen, todo, reader, lastKey, faults, history>>

\* The index write of persist, or the one that ends rebuildIndex.
SaveIndexBegin ==
    /\ op = "saved" \/ (op = "idle" /\ loader = "built")
    /\ dek # NoKey
    /\ op' = "indexing"
    /\ held' = dek
    /\ loader' = IF op = "idle" THEN "off" ELSE loader
    /\ UNCHANGED <<disk, mem, arg, seen, todo, scan, lkeys, hit, lastKey, faults, history>>

\* ErrLocked: the vault was locked since the caller got here.
SaveIndexLocked ==
    /\ dek = NoKey
    /\ \/ op = "saved" /\ Release /\ UNCHANGED loader
       \/ op = "idle" /\ loader = "built" /\ loader' = "off" /\ UNCHANGED writer
    /\ UNCHANGED <<disk, mem, scan, lkeys, hit, lastKey, faults, history>>

SaveIndexWrite ==
    /\ op \in {"indexing", "unlisting"}
    /\ index' = held
    /\ IF op = "indexing"
       THEN Release
       ELSE op' = "erasing" /\ held' = NoKey /\ UNCHANGED <<arg, seen, todo>>
    /\ UNCHANGED <<keyfile, bak, files, corrupt, mem, reader, lastKey, faults, history>>

\* secureErase overwrites the blob in place; without a file DeleteAudit is done.
DeleteAuditErase ==
    /\ op = "erasing"
    /\ doomed' = doomed \cup {arg}
    /\ IF files[arg] = NoFile
       THEN Release /\ UNCHANGED files
       ELSE /\ files' = [files EXCEPT ![arg] = Junk]
            /\ op' = "removing"
            /\ UNCHANGED <<arg, held, seen, todo>>
    /\ UNCHANGED <<keyfile, bak, index, corrupt, mem, reader, lastKey, faults, retired>>

DeleteAuditRemove ==
    /\ op = "removing"
    /\ files' = [files EXCEPT ![arg] = NoFile]
    /\ Release
    /\ UNCHANGED <<keyfile, bak, index, corrupt, mem, reader, lastKey, faults, history>>

-----------------------------------------------------------------------------
(* Vault.Rekey, inside writeMu throughout.                                 *)

\* The keyfile is read and the passphrase checked without v.mu.
RekeyVerify(p) ==
    /\ op = "idle"
    /\ Initialized
    /\ keyfile.pass = p
    /\ loader = "scan" => "load_in_rekey" \in Unguarded
    /\ op' = "verified"
    /\ seen' = keyfile
    /\ UNCHANGED <<disk, mem, arg, held, todo, reader, lastKey, faults, history>>

RekeyLocked ==
    /\ op = "verified"
    /\ dek = NoKey
    /\ Release
    /\ UNCHANGED <<disk, mem, reader, lastKey, faults, history>>

\* Mutant: the old key is dropped when the new one is written.
RekeyFreshOneKey ==
    /\ op = "verified"
    /\ dek # NoKey
    /\ seen.prev = NoKey
    /\ FreshKey
    /\ WriteKeyfile(lastKey', NoKey, seen.pass)
    /\ dek' = lastKey'
    /\ prevDek' = seen.pri
    /\ op' = "reseal"
    /\ todo' = ListAudits
    /\ UNCHANGED <<files, index, corrupt, arg, held, seen, reader, faults, history>>

\* Both keys reach the keyfile before any blob is touched.
RekeyFresh ==
    /\ op = "verified"
    /\ dek # NoKey
    /\ seen.prev = NoKey
    /\ FreshKey
    /\ WriteKeyfile(lastKey', seen.pri, seen.pass)
    /\ dek' = lastKey'
    /\ prevDek' = seen.pri
    /\ op' = "reseal"
    /\ todo' = ListAudits
    /\ UNCHANGED <<files, index, corrupt, arg, held, seen, reader, faults, history>>

\* An interrupted rekey left both keys: carry on towards its target.
RekeyResume ==
    /\ op = "verified"
    /\ dek # NoKey
    /\ seen.prev # NoKey
    /\ dek' = seen.pri
    /\ prevDek' = seen.prev
    /\ op' = "reseal"
    /\ todo' = ListAudits
    /\ UNCHANGED <<disk, arg, held, seen, reader, lastKey, faults, history>>

RekeyReseal(id) ==
    /\ op = "reseal"
    /\ id \in todo
    /\ files[id] \in MemKeys
    /\ files' = [files EXCEPT ![id] = dek]
    /\ todo' = todo \ {id}
    /\ UNCHANGED <<keyfile, bak, index, corrupt, mem, op, arg, held, seen, reader, lastKey, faults, history>>

\* A blob or index that neither key opens, or a blob that is gone, ends the rekey.
RekeyAbort ==
    /\ op = "reseal"
    /\ IF todo # {}
       THEN \E id \in todo : files[id] \notin MemKeys
       ELSE index \notin MemKeys \cup {NoFile}
    /\ Release
    /\ UNCHANGED <<disk, mem, reader, lastKey, faults, history>>

\* An index that cannot be read is skipped, whatever the reason.
RekeyIndex ==
    /\ op = "reseal"
    /\ todo = {}
    /\ \/ index \in MemKeys /\ index' = dek /\ UNCHANGED faults
       \/ index = NoFile /\ UNCHANGED <<index, faults>>
       \/ index # NoFile /\ faults < MaxFaults /\ faults' = faults + 1 /\ UNCHANGED index
    /\ op' = "final"
    /\ UNCHANGED <<keyfile, bak, files, corrupt, mem, arg, held, seen, todo, reader, lastKey, history>>

RekeyFinalize ==
    /\ op = "final"
    /\ WriteKeyfile(dek, NoKey, seen.pass)
    /\ op' = "tidy"
    /\ UNCHANGED <<files, index, corrupt, mem, arg, held, seen, todo, reader, lastKey, faults, history>>

RekeyDone ==
    /\ op = "tidy"
    /\ bak' = NoKeyfile
    /\ prevDek' = NoKey
    /\ Release
    /\ UNCHANGED <<keyfile, files, index, corrupt, dek, reader, lastKey, faults, history>>

-----------------------------------------------------------------------------
(* Vault.LoadAll: run by Store.rebuildIndex on unlock, outside writeMu.    *)

\* Mutant: only the primary key is tried.
LoadAllPrimaryOnly ==
    /\ loader = "off"
    /\ ~MuHeld
    /\ dek # NoKey
    /\ Rekeying => "load_in_rekey" \in Unguarded
    /\ loader' = "scan"
    /\ scan' = ListAudits
    /\ lkeys' = {dek}
    /\ UNCHANGED <<disk, mem, writer, hit, lastKey, faults, history>>

LoadAllBegin ==
    /\ loader = "off"
    /\ ~MuHeld
    /\ dek # NoKey
    /\ Rekeying => "load_in_rekey" \in Unguarded
    /\ loader' = "scan"
    /\ scan' = ListAudits
    /\ lkeys' = MemKeys
    /\ UNCHANGED <<disk, mem, writer, hit, lastKey, faults, history>>

\* Mutant: a blob that does not open is skipped where it is.
LoadAllSkip(id) ==
    /\ loader = "scan"
    /\ hit = NoId
    /\ id \in scan
    /\ files[id] # NoFile
    /\ scan' = scan \ {id}
    /\ UNCHANGED <<disk, mem, writer, loader, lkeys, hit, lastKey, faults, history>>

LoadAllRead(id) ==
    /\ loader = "scan"
    /\ hit = NoId
    /\ id \in scan
    /\ files[id] # NoFile
    /\ IF files[id] \in lkeys
       THEN scan' = scan \ {id} /\ UNCHANGED hit
       ELSE hit' = id /\ UNCHANGED scan
    /\ UNCHANGED <<disk, mem, writer, loader, lkeys, lastKey, faults, history>>

\* A listed blob is gone when it comes to be read: LoadAll returns the error.
LoadAllGone ==
    /\ loader = "scan"
    /\ hit = NoId
    /\ \E id \in scan : files[id] = NoFile
    /\ LoaderOff
    /\ UNCHANGED <<disk, mem, writer, lastKey, faults, history>>

\* The rename moves whatever the file holds by now; a missing one is logged.
LoadAllQuarantine ==
    /\ hit # NoId
    /\ scan' = scan \ {hit}
    /\ hit' = NoId
    /\ IF files[hit] = NoFile
       THEN UNCHANGED <<files, corrupt>>
       ELSE /\ files' = [files EXCEPT ![hit] = NoFile]
            /\ corrupt' = corrupt \cup {hit}
    /\ UNCHANGED <<keyfile, bak, index, mem, writer, loader, lkeys, lastKey, faults, history>>

LoadAllEnd ==
    /\ loader = "scan"
    /\ scan = {}
    /\ loader' = "built"
    /\ lkeys' = {}
    /\ UNCHANGED <<disk, mem, writer, scan, hit, lastKey, faults, history>>

-----------------------------------------------------------------------------
(* Faults.                                                                 *)

Fault == faults < MaxFaults /\ faults' = faults + 1

\* A file operation returns an error: the writer gives up where it stands.
\* WriteKeyfile may have written its backup by then.
WriterError ==
    /\ Fault
    /\ op \notin {"idle", "saved", "tidy", "repass"}
    /\ Release
    /\ bak' \in IF op \in {"verified", "final"} THEN {bak, keyfile} ELSE {bak}
    /\ UNCHANGED <<keyfile, files, index, corrupt, mem, reader, lastKey, history>>

LoadAllError ==
    /\ Fault
    /\ loader = "scan"
    /\ LoaderOff
    /\ UNCHANGED <<disk, mem, writer, lastKey, history>>

\* The process dies: the disk stays, everything in memory is lost.
Crash ==
    /\ Fault
    /\ dek' = NoKey
    /\ prevDek' = NoKey
    /\ Release
    /\ LoaderOff
    /\ UNCHANGED <<disk, lastKey, history>>

-----------------------------------------------------------------------------
Passphrase ==
    \/ \E p \in Passes : Initialize(p) \/ Unlock(p)
    \/ Lock
    \/ \E old, new \in Passes : ChangePassphrase(old, new)
    \/ ChangePassphraseDone

Persist ==
    \/ \E id \in Ids : SaveAuditBegin(id) \/ DeleteBegin(id)
    \/ SaveAuditWrite \/ SaveIndexBegin \/ SaveIndexLocked \/ SaveIndexWrite
    \/ DeleteAuditErase \/ DeleteAuditRemove

RekeyStep ==
    \/ RekeyLocked \/ RekeyFresh \/ RekeyResume
    \/ \E id \in Ids : RekeyReseal(id)
    \/ RekeyAbort \/ RekeyIndex \/ RekeyFinalize \/ RekeyDone

Rekey == (\E p \in Passes : RekeyVerify(p)) \/ RekeyStep

LoadAllStep ==
    \/ \E id \in Ids : LoadAllRead(id)
    \/ LoadAllGone \/ LoadAllQuarantine \/ LoadAllEnd

LoadAll == LoadAllBegin \/ LoadAllStep

Faults == WriterError \/ LoadAllError \/ Crash

Next == Passphrase \/ Persist \/ Rekey \/ LoadAll \/ Faults

Spec == Init /\ [][Next]_vars

(***************************************************************************)
(* A step the code has begun is finished.  Mutexes are not unfair for ever *)
(* (Go hands a starving waiter the lock), so whoever asks for writeMu gets *)
(* it: strong fairness for the start of a rekey.  The operator is assumed  *)
(* to unlock a locked store, to re-run an interrupted rekey without        *)
(* locking the store under it or under a rebuild every time, and to relock *)
(* a store that needs it, so that the next unlock rebuilds.                *)
(***************************************************************************)
\* An orphan or an unreadable index: Store.loadIndex rebuilds on unlock.
NeedsRebuild == (\E id \in Ids : files[id] = Junk) \/ index \notin MemKeys \cup {NoFile}

\* The goroutine that holds writeMu goes on; a read of the keys, for which it
\* needs v.mu, is apart.
WriterStep ==
    /\ op # "idle"
    /\ \/ ChangePassphraseDone \/ SaveAuditWrite \/ SaveIndexWrite \/ SaveIndexLocked
       \/ DeleteAuditErase \/ DeleteAuditRemove \/ RekeyStep

\* So does the one that rebuilds the index.
LoaderStep ==
    /\ loader # "off"
    /\ \/ LoadAllStep
       \/ op = "idle" /\ SaveIndexLocked

Fairness ==
    /\ WF_vars(WriterStep)
    /\ WF_vars(LoaderStep)
    /\ SF_vars(op = "saved" /\ SaveIndexBegin)
    /\ SF_vars(op = "idle" /\ SaveIndexBegin)
    /\ WF_vars(dek = NoKey /\ \E p \in Passes : Unlock(p))
    /\ SF_vars(keyfile.prev # NoKey /\ dek # NoKey /\ \E p \in Passes : RekeyVerify(p))
    /\ SF_vars(RekeyFresh \/ RekeyResume)
    /\ SF_vars(NeedsRebuild /\ LoadAllBegin)

FairSpec == Spec /\ Fairness

-----------------------------------------------------------------------------
TypeOK ==
    /\ keyfile \in Keyfiles
    /\ bak \in Keyfiles
    /\ files \in [Ids -> Sealed]
    /\ index \in Sealed
    /\ corrupt \subseteq Ids
    /\ dek \in Nat
    /\ prevDek \in Nat
    /\ op \in WriterSteps
    /\ arg \in Ids \cup {NoId}
    /\ op \in {"saving", "saved", "unlisting", "erasing", "removing"} => arg \in Ids
    /\ held \in Sealed
    /\ seen \in Keyfiles
    /\ op = "repass" => seen.pass \in Passes
    /\ todo \subseteq Ids
    /\ loader \in {"off", "scan", "built"}
    /\ scan \subseteq Ids
    /\ lkeys \subseteq Nat
    /\ hit \in Ids \cup {NoId}
    /\ lastKey \in Nat
    /\ faults \in Nat
    /\ doomed \subseteq Ids
    /\ retired \subseteq Passes

\* Every audit on disk that nobody is deleting opens under a key the keyfile
\* holds, and none was ever quarantined: at every instant of a rekey, after a
\* crash anywhere, with saves, deletions and rebuilds in between.
Recoverable ==
    /\ \A id \in ListAudits \ doomed : files[id] \in DiskKeys
    /\ corrupt \subseteq doomed

\* An unlocked process can read every audit it could read after a restart,
\* also when a rekey it ran was interrupted by an error (Vault.prevDEK).
RunningReads ==
    dek # NoKey /\ ~MuHeld =>
        \A id \in ListAudits \ doomed : files[id] \in MemKeys

\* Once ChangePassphrase has returned, the replaced passphrase opens neither
\* the keyfile nor the backup, whatever rekey or crash comes later: no write
\* made from a keyfile read earlier may bring it back.
OldPassphraseRetired == {keyfile.pass, bak.pass} \cap retired = {}

\* The vault keeps audits as DurableAudits says: only saving and deleting one
\* changes which audits can be recovered from the disk.
Durable == INSTANCE DurableAudits WITH
    readable <- {id \in Ids : files[id] \in DiskKeys}
KeepsAudits == Durable!Spec

\* An interrupted rekey can always be completed by re-running it: no sequence
\* of crashes, errors, half-erased blobs and relocks leaves it stuck with two
\* keys in the keyfile.
RekeyConverges == []<>(keyfile.prev = NoKey)

=============================================================================
