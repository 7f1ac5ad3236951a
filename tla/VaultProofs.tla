---------------------------- MODULE VaultProofs ----------------------------
(***************************************************************************)
(* Proofs about Vault, for every number of audits, passphrases, keys and   *)
(* faults: type correctness of the whole module, and, when none of the     *)
(* races of Unguarded happens, that no audit is ever lost to a rekey, a    *)
(* crash or a quarantine (Recoverable, RunningReads), that a replaced      *)
(* passphrase stays replaced, and that Vault implements DurableAudits.     *)
(***************************************************************************)
EXTENDS Vault, TLAPS

(***************************************************************************)
(* The inductive invariant.  Recoverable alone is not inductive: it says   *)
(* nothing of the key a save has captured, of the keys LoadAll opens blobs *)
(* with, or of how far a rekey has come when it drops the old key.         *)
(***************************************************************************)
\* Before Initialize nothing exists that a key could open.
FirstRun ==
    ~Initialized =>
        /\ keyfile.prev = NoKey
        /\ bak.pass = NoPass
        /\ dek = NoKey
        /\ op = "idle"
        /\ loader = "off"
        /\ retired = {}
        /\ \A id \in Ids : files[id] \in {NoFile, Junk}

\* An unlocked process holds the keys of the keyfile.
KeysInMemory ==
    dek # NoKey => /\ dek = keyfile.pri
                   /\ keyfile.prev # NoKey => prevDek = keyfile.prev

\* What is being saved will open.
SavesOpen == op = "saving" => /\ held = keyfile.pri
                              /\ held # NoKey
                              /\ arg \notin doomed

\* A rekey knows the keyfile; what it has passed is under the new key.
RekeyProgress ==
    /\ Rekeying => loader # "scan" /\ Initialized /\ seen.pass = keyfile.pass
    /\ op = "verified" => seen.pri = keyfile.pri /\ seen.prev = keyfile.prev
    /\ op \in {"reseal", "final", "tidy"} => dek = keyfile.pri
    /\ op = "reseal" => prevDek = keyfile.prev
    /\ op = "final" => todo = {}
    /\ op \in {"reseal", "final"} =>
           \A id \in Ids \ todo : files[id] \in {NoFile, dek}
    /\ op \in {"tidy", "repass"} => keyfile.prev = NoKey
    /\ op = "repass" => Initialized

\* LoadAll opens whatever can be opened; it quarantines only erased blobs.
LoaderSees ==
    /\ loader = "scan" => Initialized /\ DiskKeys \subseteq lkeys
    /\ hit # NoId => loader = "scan" /\ hit \in doomed /\ hit \in scan

\* A blob whose erasure has begun is overwritten or gone.
Erased == /\ \A id \in doomed : files[id] \in {NoFile, Junk}
          /\ op = "removing" => arg \in doomed

IInv ==
    /\ TypeOK
    /\ FirstRun
    /\ KeysInMemory
    /\ SavesOpen
    /\ RekeyProgress
    /\ LoaderSees
    /\ Erased
    /\ Recoverable
    /\ OldPassphraseRetired

-----------------------------------------------------------------------------
\* Types are preserved by every step, whatever the races.
LEMMA Typed ==
    /\ Init => TypeOK
    /\ TypeOK /\ [Next]_vars => TypeOK'
<1>1. Init => TypeOK
  BY VaultAssumption DEF Init, TypeOK, Keyfiles, NoKeyfile, NoKey, NoFile, Sealed,
     WriterSteps
<1>2. TypeOK /\ [Next]_vars => TypeOK'
  <2> SUFFICES ASSUME TypeOK, [Next]_vars PROVE TypeOK'
    OBVIOUS
  <2> USE VaultAssumption DEF TypeOK, disk, mem, writer, reader, history, Keyfiles,
          NoKeyfile, NoKey, NoFile, Junk, Sealed, WriterSteps
  <2>1. ASSUME NEW p \in Passes, Initialize(p) PROVE TypeOK'
    BY <2>1 DEF Initialize, FreshKey, NoKeyfile
  <2>2. ASSUME NEW p \in Passes, Unlock(p) PROVE TypeOK'
    BY <2>2 DEF Unlock
  <2>3. CASE Lock
    BY <2>3 DEF Lock
  <2>4. ASSUME NEW old \in Passes, NEW new \in Passes, ChangePassphrase(old, new) PROVE TypeOK'
    BY <2>4 DEF ChangePassphrase, WriteKeyfile
  <2>5. CASE ChangePassphraseDone
    BY <2>5 DEF ChangePassphraseDone, Release
  <2>6. ASSUME NEW id \in Ids, SaveAuditBegin(id) PROVE TypeOK'
    BY <2>6 DEF SaveAuditBegin
  <2>7. ASSUME NEW id \in Ids, DeleteBegin(id) PROVE TypeOK'
    BY <2>7 DEF DeleteBegin
  <2>8. CASE SaveAuditWrite
    BY <2>8 DEF SaveAuditWrite
  <2>9. CASE SaveIndexBegin
    BY <2>9 DEF SaveIndexBegin
  <2>10. CASE SaveIndexLocked
    BY <2>10 DEF SaveIndexLocked, Release
  <2>11. CASE SaveIndexWrite
    BY <2>11 DEF SaveIndexWrite, Release
  <2>12. CASE DeleteAuditErase
    BY <2>12 DEF DeleteAuditErase, Release
  <2>13. CASE DeleteAuditRemove
    BY <2>13 DEF DeleteAuditRemove, Release
  <2>14. ASSUME NEW p \in Passes, RekeyVerify(p) PROVE TypeOK'
    BY <2>14 DEF RekeyVerify
  <2>15. CASE RekeyLocked
    BY <2>15 DEF RekeyLocked, Release
  <2>16. CASE RekeyFresh
    BY <2>16 DEF RekeyFresh, FreshKey, WriteKeyfile, ListAudits
  <2>17. CASE RekeyResume
    BY <2>17 DEF RekeyResume, ListAudits
  <2>18. ASSUME NEW id \in Ids, RekeyReseal(id) PROVE TypeOK'
    BY <2>18 DEF RekeyReseal
  <2>19. CASE RekeyAbort
    BY <2>19 DEF RekeyAbort, Release
  <2>20. CASE RekeyIndex
    BY <2>20 DEF RekeyIndex
  <2>21. CASE RekeyFinalize
    BY <2>21 DEF RekeyFinalize, WriteKeyfile
  <2>22. CASE RekeyDone
    BY <2>22 DEF RekeyDone, Release
  <2>23. CASE LoadAllBegin
    BY <2>23 DEF LoadAllBegin, ListAudits, MemKeys
  <2>24. ASSUME NEW id \in Ids, LoadAllRead(id) PROVE TypeOK'
    BY <2>24 DEF LoadAllRead
  <2>25. CASE LoadAllGone
    BY <2>25 DEF LoadAllGone, LoaderOff
  <2>26. CASE LoadAllQuarantine
    BY <2>26 DEF LoadAllQuarantine
  <2>27. CASE LoadAllEnd
    BY <2>27 DEF LoadAllEnd
  <2>28. CASE WriterError
    BY <2>28 DEF WriterError, Fault, Release
  <2>29. CASE LoadAllError
    BY <2>29 DEF LoadAllError, Fault, LoaderOff
  <2>30. CASE Crash
    BY <2>30 DEF Crash, Fault, Release, LoaderOff
  <2>31. CASE UNCHANGED vars
    BY <2>31 DEF vars
  <2> QED
    BY <2>1, <2>2, <2>3, <2>4, <2>5, <2>6, <2>7, <2>8, <2>9, <2>10, <2>11, <2>12, <2>13, <2>14, <2>15, <2>16, <2>17, <2>18, <2>19, <2>20, <2>21, <2>22, <2>23, <2>24, <2>25, <2>26, <2>27, <2>28, <2>29, <2>30, <2>31
       DEF Next, Passphrase, Persist, Rekey, RekeyStep, LoadAll, LoadAllStep, Faults
<1> QED
  BY <1>1, <1>2

\* Every reachable state has the types TypeOK gives it, whatever the races.
THEOREM TypeCorrect == Spec => []TypeOK
BY Typed, PTL DEF Spec

\* IInv is inductive when the races of Unguarded are ruled out.
LEMMA Inductive ==
    ASSUME Unguarded = {}
    PROVE  /\ Init => IInv
           /\ IInv /\ [Next]_vars => IInv'
<1> USE VaultAssumption DEF NoKey, NoFile, Junk
<1>1. Init => IInv
  <2> SUFFICES ASSUME Init PROVE IInv
    OBVIOUS
  <2>1. TypeOK
    BY DEF Init, TypeOK, Keyfiles, NoKeyfile, Sealed, WriterSteps
  <2> QED
    BY <2>1 DEF Init, IInv, FirstRun, KeysInMemory, SavesOpen, RekeyProgress, LoaderSees,
       Erased, Recoverable, OldPassphraseRetired, NoKeyfile, Initialized, Rekeying, ListAudits
<1>2. IInv /\ [Next]_vars => IInv'
  <2> SUFFICES ASSUME IInv, [Next]_vars PROVE IInv'
    OBVIOUS
  <2> USE DEF IInv, FirstRun, KeysInMemory, SavesOpen, RekeyProgress, LoaderSees,
          Erased, Recoverable, OldPassphraseRetired, NoKeyfile, Initialized, Rekeying,
          ListAudits, DiskKeys, MemKeys, Captured, MuHeld, disk, mem, writer, reader, history
  <2>0. TypeOK'
    BY Typed DEF IInv
  <2>1. ASSUME NEW p \in Passes, Initialize(p) PROVE IInv'
    BY <2>0, <2>1 DEF TypeOK, Keyfiles, Sealed, Initialize, FreshKey
  <2>2. ASSUME NEW p \in Passes, Unlock(p) PROVE IInv'
    BY <2>0, <2>2 DEF TypeOK, Keyfiles, Sealed, Unlock
  <2>3. CASE Lock
    BY <2>0, <2>3 DEF TypeOK, Keyfiles, Sealed, Lock
  <2>4. ASSUME NEW old \in Passes, NEW new \in Passes, ChangePassphrase(old, new) PROVE IInv'
    BY <2>0, <2>4 DEF TypeOK, Keyfiles, Sealed, ChangePassphrase, WriteKeyfile
  <2>5. CASE ChangePassphraseDone
    BY <2>0, <2>5 DEF TypeOK, Keyfiles, Sealed, ChangePassphraseDone, Release
  <2>6. ASSUME NEW id \in Ids, SaveAuditBegin(id) PROVE IInv'
    BY <2>0, <2>6 DEF TypeOK, Keyfiles, Sealed, SaveAuditBegin
  <2>7. ASSUME NEW id \in Ids, DeleteBegin(id) PROVE IInv'
    BY <2>0, <2>7 DEF TypeOK, Keyfiles, Sealed, DeleteBegin
  <2>8. CASE SaveAuditWrite
    BY <2>0, <2>8 DEF TypeOK, Keyfiles, Sealed, SaveAuditWrite
  <2>9. CASE SaveIndexBegin
    BY <2>0, <2>9 DEF TypeOK, Keyfiles, Sealed, SaveIndexBegin
  <2>10. CASE SaveIndexLocked
    BY <2>0, <2>10 DEF TypeOK, Keyfiles, Sealed, SaveIndexLocked, Release
  <2>11. CASE SaveIndexWrite
    BY <2>0, <2>11 DEF TypeOK, Keyfiles, Sealed, SaveIndexWrite, Release
  <2>12. CASE DeleteAuditErase
    BY <2>0, <2>12 DEF TypeOK, Keyfiles, Sealed, DeleteAuditErase, Release
  <2>13. CASE DeleteAuditRemove
    BY <2>0, <2>13 DEF TypeOK, Keyfiles, Sealed, DeleteAuditRemove, Release
  <2>14. ASSUME NEW p \in Passes, RekeyVerify(p) PROVE IInv'
    BY <2>0, <2>14 DEF TypeOK, Keyfiles, Sealed, RekeyVerify
  <2>15. CASE RekeyLocked
    BY <2>0, <2>15 DEF TypeOK, Keyfiles, Sealed, RekeyLocked, Release
  <2>16. CASE RekeyFresh
    BY <2>0, <2>16 DEF TypeOK, Keyfiles, Sealed, RekeyFresh, FreshKey, WriteKeyfile
  <2>17. CASE RekeyResume
    BY <2>0, <2>17 DEF TypeOK, Keyfiles, Sealed, RekeyResume
  <2>18. ASSUME NEW id \in Ids, RekeyReseal(id) PROVE IInv'
    BY <2>0, <2>18 DEF TypeOK, Keyfiles, Sealed, RekeyReseal
  <2>19. CASE RekeyAbort
    BY <2>0, <2>19 DEF TypeOK, Keyfiles, Sealed, RekeyAbort, Release
  <2>20. CASE RekeyIndex
    BY <2>0, <2>20 DEF TypeOK, Keyfiles, Sealed, RekeyIndex
  <2>21. CASE RekeyFinalize
    BY <2>0, <2>21 DEF TypeOK, Keyfiles, Sealed, RekeyFinalize, WriteKeyfile
  <2>22. CASE RekeyDone
    BY <2>0, <2>22 DEF TypeOK, Keyfiles, Sealed, RekeyDone, Release
  <2>23. CASE LoadAllBegin
    BY <2>0, <2>23 DEF TypeOK, Keyfiles, Sealed, LoadAllBegin
  <2>24. ASSUME NEW id \in Ids, LoadAllRead(id) PROVE IInv'
    BY <2>0, <2>24 DEF TypeOK, Keyfiles, Sealed, LoadAllRead
  <2>25. CASE LoadAllGone
    BY <2>0, <2>25 DEF TypeOK, Keyfiles, Sealed, LoadAllGone, LoaderOff
  <2>26. CASE LoadAllQuarantine
    BY <2>0, <2>26 DEF TypeOK, Keyfiles, Sealed, LoadAllQuarantine
  <2>27. CASE LoadAllEnd
    BY <2>0, <2>27 DEF TypeOK, Keyfiles, Sealed, LoadAllEnd
  <2>28. CASE WriterError
    BY <2>0, <2>28 DEF TypeOK, Keyfiles, Sealed, WriterError, Fault, Release
  <2>29. CASE LoadAllError
    BY <2>0, <2>29 DEF TypeOK, Keyfiles, Sealed, LoadAllError, Fault, LoaderOff
  <2>30. CASE Crash
    BY <2>0, <2>30 DEF TypeOK, Keyfiles, Sealed, Crash, Fault, Release, LoaderOff
  <2>31. CASE UNCHANGED vars
    BY <2>31 DEF vars, TypeOK
  <2> QED
    BY <2>1, <2>2, <2>3, <2>4, <2>5, <2>6, <2>7, <2>8, <2>9, <2>10, <2>11, <2>12, <2>13, <2>14, <2>15, <2>16, <2>17, <2>18, <2>19, <2>20, <2>21, <2>22, <2>23, <2>24, <2>25, <2>26, <2>27, <2>28, <2>29, <2>30, <2>31
       DEF Next, Passphrase, Persist, Rekey, RekeyStep, LoadAll, LoadAllStep, Faults
<1> QED
  BY <1>1, <1>2

\* Without those races every reachable state satisfies the invariant.
THEOREM VaultInvariant ==
    ASSUME Unguarded = {}
    PROVE  Spec => []IInv
BY Inductive, PTL DEF Spec

\* No audit is lost: neither a rekey interrupted anywhere, nor a crash, nor
\* LoadAll's quarantine makes a blob that nobody deletes unreadable.
THEOREM AuditsRecoverable ==
    ASSUME Unguarded = {}
    PROVE  Spec => []Recoverable
<1>1. IInv => Recoverable
  BY DEF IInv
<1> QED
  BY <1>1, VaultInvariant, PTL

\* The keys in memory read whatever the keys on disk recover.
THEOREM UnlockedProcessReads ==
    ASSUME Unguarded = {}
    PROVE  Spec => []RunningReads
<1>1. IInv => RunningReads
  BY DEF IInv, KeysInMemory, Recoverable, RunningReads, DiskKeys, MemKeys, NoKey
<1> QED
  BY <1>1, VaultInvariant, PTL

\* A passphrase that ChangePassphrase replaced never opens the store again.
THEOREM PassphraseRetired ==
    ASSUME Unguarded = {}
    PROVE  Spec => []OldPassphraseRetired
<1>1. IInv => OldPassphraseRetired
  BY DEF IInv
<1> QED
  BY <1>1, VaultInvariant, PTL

-----------------------------------------------------------------------------
(* Refinement.  A step that changes the keyfile may only gain a key, or    *)
(* lose one under which no blob is left; a step that changes a blob        *)
(* reseals it, writes it for a save, or erases it.                         *)

\* The abstract step every concrete step is, or the stutter.
LEMMA StepRefines ==
    ASSUME Unguarded = {}, IInv, IInv', [Next]_vars
    PROVE  [Durable!Next]_(Durable!vars)
<1> USE VaultAssumption DEF NoKey, NoFile, Junk, DiskKeys, disk, mem, writer, reader, history,
        Durable!vars, Keyfiles, Sealed
<1>0. TypeOK /\ TypeOK'
  BY DEF IInv
<1>a. ASSUME UNCHANGED <<keyfile, files, doomed>> PROVE UNCHANGED Durable!vars
  BY <1>a
<1>1. ASSUME NEW p \in Passes, Initialize(p) PROVE UNCHANGED Durable!vars
  BY <1>0, <1>1 DEF Initialize, FreshKey, IInv, FirstRun, Initialized, TypeOK
<1>2. ASSUME NEW p \in Passes, Unlock(p) PROVE UNCHANGED Durable!vars
  BY <1>a, <1>2 DEF Unlock
<1>3. ASSUME Lock PROVE UNCHANGED Durable!vars
  BY <1>a, <1>3 DEF Lock
<1>4. ASSUME NEW old \in Passes, NEW new \in Passes, ChangePassphrase(old, new) PROVE UNCHANGED Durable!vars
  BY <1>0, <1>4 DEF ChangePassphrase, WriteKeyfile, IInv, Recoverable, ListAudits, TypeOK, FirstRun
<1>5. ASSUME ChangePassphraseDone PROVE UNCHANGED Durable!vars
  BY <1>a, <1>5 DEF ChangePassphraseDone
<1>6. ASSUME NEW id \in Ids, SaveAuditBegin(id) PROVE UNCHANGED Durable!vars
  BY <1>a, <1>6 DEF SaveAuditBegin
<1>7. ASSUME NEW id \in Ids, DeleteBegin(id) PROVE UNCHANGED Durable!vars
  BY <1>a, <1>7 DEF DeleteBegin
<1>8. ASSUME SaveAuditWrite PROVE Durable!Next
  <2>1. arg \in Ids
    BY <1>0, <1>8 DEF TypeOK, SaveAuditWrite
  <2>2. Durable!Save(arg)
    BY <1>0, <1>8, <2>1 DEF Durable!Save, SaveAuditWrite, IInv, TypeOK, SavesOpen
  <2> QED
    BY <2>1, <2>2 DEF Durable!Next, Durable!Save
<1>9. ASSUME SaveIndexBegin PROVE UNCHANGED Durable!vars
  BY <1>a, <1>9 DEF SaveIndexBegin
<1>10. ASSUME SaveIndexLocked PROVE UNCHANGED Durable!vars
  BY <1>a, <1>10 DEF SaveIndexLocked
<1>11. ASSUME SaveIndexWrite PROVE UNCHANGED Durable!vars
  BY <1>a, <1>11 DEF SaveIndexWrite
<1>12. ASSUME DeleteAuditErase PROVE Durable!Next
  <2>1. arg \in Ids
    BY <1>0, <1>12 DEF TypeOK, DeleteAuditErase
  <2>2. Durable!Erase(arg)
    BY <1>0, <1>12, <2>1 DEF Durable!Erase, DeleteAuditErase, Release, IInv, TypeOK
  <2> QED
    BY <2>1, <2>2 DEF Durable!Next, Durable!Erase
<1>13. ASSUME DeleteAuditRemove PROVE UNCHANGED Durable!vars
  BY <1>0, <1>13 DEF DeleteAuditRemove, IInv, TypeOK, Erased
<1>14. ASSUME NEW p \in Passes, RekeyVerify(p) PROVE UNCHANGED Durable!vars
  BY <1>a, <1>14 DEF RekeyVerify
<1>15. ASSUME RekeyLocked PROVE UNCHANGED Durable!vars
  BY <1>a, <1>15 DEF RekeyLocked
<1>16. ASSUME RekeyFresh PROVE UNCHANGED Durable!vars
  BY <1>0, <1>16 DEF RekeyFresh, FreshKey, WriteKeyfile, IInv, TypeOK, Recoverable, ListAudits, RekeyProgress, Erased, Rekeying, Initialized
<1>17. ASSUME RekeyResume PROVE UNCHANGED Durable!vars
  BY <1>a, <1>17 DEF RekeyResume
<1>18. ASSUME NEW id \in Ids, RekeyReseal(id) PROVE UNCHANGED Durable!vars
  BY <1>0, <1>18 DEF RekeyReseal, IInv, TypeOK, RekeyProgress, Rekeying, Initialized, MemKeys
<1>19. ASSUME RekeyAbort PROVE UNCHANGED Durable!vars
  BY <1>a, <1>19 DEF RekeyAbort
<1>20. ASSUME RekeyIndex PROVE UNCHANGED Durable!vars
  BY <1>a, <1>20 DEF RekeyIndex
<1>21. ASSUME RekeyFinalize PROVE UNCHANGED Durable!vars
  BY <1>0, <1>21 DEF RekeyFinalize, WriteKeyfile, IInv, TypeOK, RekeyProgress, Rekeying, Initialized
<1>22. ASSUME RekeyDone PROVE UNCHANGED Durable!vars
  BY <1>a, <1>22 DEF RekeyDone
<1>23. ASSUME LoadAllBegin PROVE UNCHANGED Durable!vars
  BY <1>a, <1>23 DEF LoadAllBegin
<1>24. ASSUME NEW id \in Ids, LoadAllRead(id) PROVE UNCHANGED Durable!vars
  BY <1>a, <1>24 DEF LoadAllRead
<1>25. ASSUME LoadAllGone PROVE UNCHANGED Durable!vars
  BY <1>a, <1>25 DEF LoadAllGone
<1>26. ASSUME LoadAllQuarantine PROVE UNCHANGED Durable!vars
  BY <1>0, <1>26 DEF LoadAllQuarantine, IInv, TypeOK, LoaderSees, Erased
<1>27. ASSUME LoadAllEnd PROVE UNCHANGED Durable!vars
  BY <1>a, <1>27 DEF LoadAllEnd
<1>28. ASSUME WriterError PROVE UNCHANGED Durable!vars
  BY <1>a, <1>28 DEF WriterError
<1>29. ASSUME LoadAllError PROVE UNCHANGED Durable!vars
  BY <1>a, <1>29 DEF LoadAllError
<1>30. ASSUME Crash PROVE UNCHANGED Durable!vars
  BY <1>a, <1>30 DEF Crash
<1>31. ASSUME UNCHANGED vars PROVE UNCHANGED Durable!vars
  BY <1>a, <1>31 DEF vars
<1> QED
  BY <1>1, <1>2, <1>3, <1>4, <1>5, <1>6, <1>7, <1>8, <1>9, <1>10, <1>11, <1>12, <1>13, <1>14, <1>15, <1>16, <1>17, <1>18, <1>19, <1>20, <1>21, <1>22, <1>23, <1>24, <1>25, <1>26, <1>27, <1>28, <1>29, <1>30, <1>31
     DEF Next, Passphrase, Persist, Rekey, RekeyStep, LoadAll, LoadAllStep, Faults

\* Vault implements DurableAudits: rotations, relocks, crashes and rebuilds are
\* stutters, saves and deletions the only steps.
THEOREM VaultRefines ==
    ASSUME Unguarded = {}
    PROVE  Spec => KeepsAudits
<1>1. Init => Durable!Init
  BY DEF Init, Durable!Init, DiskKeys, NoKeyfile, NoKey, NoFile
<1>2. IInv /\ IInv' /\ [Next]_vars => [Durable!Next]_(Durable!vars)
  BY StepRefines
<1> QED
  BY <1>1, <1>2, VaultInvariant, PTL DEF Spec, KeepsAudits, Durable!Spec

=============================================================================
