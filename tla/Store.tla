------------------------------- MODULE Store -------------------------------
(***************************************************************************)
(* The audit store (internal/store): a metadata index and an LRU cache of  *)
(* decrypted audits in memory, one encrypted blob per audit and one index  *)
(* file on disk, and the three locks between them: s.mu (every action      *)
(* below that touches memory is one of its critical sections), the         *)
(* per-audit mutate lock, and writeMu around the writes to the vault.      *)
(*                                                                         *)
(* A dataset is the set of updates it contains; what an index entry says   *)
(* of an audit (its headline counts) is the dataset it was computed from.  *)
(* The vault is its unlocked flag: Vault models the rest.                  *)
(***************************************************************************)
EXTENDS Integers, Sequences, FiniteSets

CONSTANTS
    Ids,         \* audit ids
    Clients,     \* concurrent requests
    None,        \* no audit, no client
    Cap,         \* datasets the cache holds (defaultCacheCap)
    Ops,         \* the operations clients issue
    Unguarded,   \* unexcluded interleavings this instance lets happen
    MaxUpdates,  \* bound: updates ever made
    MaxFaults    \* bound: crashes and I/O errors

(***************************************************************************)
(* What no lock excludes:                                                  *)
(*   "lock_in_flight"  Lock while a request or an Unlock is running, between *)
(*                     two of its calls of the vault                       *)
(*   "lock_in_call"    Lock while such a call has the key, which Lock zeroes *)
(*   "unlock_in_lock"  Unlock between the two halves of Lock               *)
(*   "create_in_load"  CreateAudit while Unlock is loading the index       *)
(*   "early_use"       using an audit whose CreateAudit has not returned   *)
(***************************************************************************)
Races == {"lock_in_flight", "lock_in_call", "unlock_in_lock", "create_in_load", "early_use"}
Kinds == {"create", "mutate", "delete", "read"}

Updates  == 1..MaxUpdates
Datasets == SUBSET Updates

ASSUME StoreAssumption ==
    /\ IsFiniteSet(Ids) /\ IsFiniteSet(Clients)
    /\ Cap \in Nat \ {0}
    /\ Ops \subseteq Kinds
    /\ Unguarded \subseteq Races
    /\ MaxUpdates \in Nat
    /\ MaxFaults \in Nat
    /\ None \notin Ids \cup Clients /\ \A ds \in Datasets : ds # None

Table    == [Ids -> Datasets \cup {None}]
Empty    == [id \in Ids |-> None]
Listed(table) == {id \in Ids : table[id] # None}

\* CreateAudit begun, succeeded; Delete begun, succeeded.
Fates == {"unused", "made", "known", "dropped", "deleted"}

VARIABLES
    blobs,     \* on disk: audits/<id>.enc
    unreadable, \* on disk: the audits whose blob no key opens
    dindex,    \* on disk: index.enc
    unlocked,  \* Vault.Unlocked
    index,     \* Store.index
    cache,     \* Store.cache
    lru,       \* Store.lru, oldest first
    mutate,    \* mutate[id]: the client holding the per-audit lock
    writeMu,   \* the client holding writeMu
    loader,    \* Store.loadIndex: "off", "read", "rebuild", "install",
               \* "save"
    rebuilt,   \* the index rebuildIndex marshalled
    clearing,  \* Store.Lock has locked the vault, not yet cleared memory
    pc,        \* where a client's operation stands
    kind,      \* which operation it is
    aud,       \* its audit
    val,       \* the dataset it has in hand
    bytes,     \* the index it marshalled
    made,      \* updates made so far
    faults,    \* crashes and I/O errors so far
    fate,      \* history: fate[id], how far the audit's life has come
    acked,     \* history: acked[id], the updates reported done
    failed     \* history: the Unlock of this session returned an error

disk    == <<blobs, unreadable, dindex>>
memory  == <<index, cache, lru>>
locks   == <<mutate, writeMu>>
loading == <<loader, rebuilt, clearing>>
local   == <<pc, kind, aud, val, bytes>>
history == <<fate, acked, failed>>
vars == <<disk, unlocked, memory, locks, loading, local, made, faults, history>>

Init ==
    /\ blobs = Empty
    /\ unreadable = {}
    /\ dindex = Empty
    /\ unlocked = FALSE
    /\ index = Empty
    /\ cache = Empty
    /\ lru = <<>>
    /\ mutate = [id \in Ids |-> None]
    /\ writeMu = None
    /\ loader = "off"
    /\ rebuilt = Empty
    /\ clearing = FALSE
    /\ pc = [c \in Clients |-> "idle"]
    /\ kind = [c \in Clients |-> "read"]
    /\ aud = [c \in Clients |-> None]
    /\ val = [c \in Clients |-> {}]
    /\ bytes = [c \in Clients |-> Empty]
    /\ made = 0
    /\ faults = 0
    /\ fate = [id \in Ids |-> "unused"]
    /\ acked = [id \in Ids |-> {}]
    /\ failed = FALSE

-----------------------------------------------------------------------------
(* The cache.                                                              *)

\* The first entry for id goes, if there is one.
RemoveLRU(seq, id) ==
    LET at == {i \in DOMAIN seq : seq[i] = id}
        n  == CHOOSE i \in at : \A j \in at : i <= j
    IN  IF at = {} THEN seq ELSE SubSeq(seq, 1, n - 1) \o SubSeq(seq, n + 1, Len(seq))
BumpLRU(seq, id)   == Append(RemoveLRU(seq, id), id)

\* How many of the oldest entries evict() drops to get down to Cap.
Surplus(table, seq) ==
    LET kept(n) == Listed(table) \ {seq[i] : i \in 1..n}
        enough(n) == n = Len(seq) \/ Cardinality(kept(n)) <= Cap
    IN  CHOOSE n \in 0..Len(seq) : enough(n) /\ \A m \in 0..(n - 1) : ~enough(m)

\* The cache and lru become table and seq, less what evict() drops.
Evict(table, seq) ==
    LET n == Surplus(table, seq)
    IN  /\ lru' = SubSeq(seq, n + 1, Len(seq))
        /\ cache' = [id \in Ids |->
               IF \E i \in 1..n : seq[i] = id THEN None ELSE table[id]]

-----------------------------------------------------------------------------
(* Control of an operation.                                                *)

InFlight == {c \in Clients : pc[c] # "idle"}

\* Mutant: the request's audit is not recorded.
BeginNoId(c, k, id, at) ==
    /\ pc[c] = "idle"
    /\ k \in Ops
    /\ unlocked
    /\ pc' = [pc EXCEPT ![c] = at]
    /\ kind' = [kind EXCEPT ![c] = k]
    /\ aud' = aud

Begin(c, k, id, at) ==
    /\ pc[c] = "idle"
    /\ k \in Ops
    /\ unlocked
    /\ pc' = [pc EXCEPT ![c] = at]
    /\ kind' = [kind EXCEPT ![c] = k]
    /\ aud' = [aud EXCEPT ![c] = id]

Goto(c, at) == pc' = [pc EXCEPT ![c] = at]

\* The operation returns: its deferred unlocks run, its locals are gone.
Return(c) ==
    /\ pc' = [pc EXCEPT ![c] = "idle"]
    /\ kind' = [kind EXCEPT ![c] = "read"]
    /\ aud' = [aud EXCEPT ![c] = None]
    /\ val' = [val EXCEPT ![c] = {}]
    /\ bytes' = [bytes EXCEPT ![c] = Empty]
    /\ mutate' = [id \in Ids |-> IF mutate[id] = c THEN None ELSE mutate[id]]
    /\ writeMu' = IF writeMu = c THEN None ELSE writeMu

\* ErrNotFound, ErrLocked, or an I/O error: CreateAudit undoes its insertion.
GiveUp(c) ==
    IF kind[c] = "create"
    THEN /\ Goto(c, "rollback")
         /\ writeMu' = IF writeMu = c THEN None ELSE writeMu
         /\ UNCHANGED <<kind, aud, val, bytes, mutate>>
    ELSE Return(c)

-----------------------------------------------------------------------------
(* Lock, and Unlock with loadIndex.                                        *)

LockVault ==
    /\ unlocked
    /\ InFlight # {} \/ loader # "off" => "lock_in_flight" \in Unguarded
    /\ unlocked' = FALSE
    /\ clearing' = TRUE
    /\ UNCHANGED <<disk, memory, locks, loader, rebuilt, local, made, faults, history>>

\* SaveAudit of c has copied the slice that holds the key (vault.go:464-466), and
\* Lock zeroes it.  (The index may be sealed under zeros likewise: LoadIndex finds
\* one that no key opens whenever it likes.  A read or a LoadIndex so caught fails.)
LockInSave(c) ==
    /\ unlocked
    /\ "lock_in_call" \in Unguarded
    /\ pc[c] = "persist"
    /\ kind[c] # "delete"
    /\ writeMu = None
    /\ writeMu' = c
    /\ Goto(c, "seal")
    /\ unlocked' = FALSE
    /\ clearing' = TRUE
    /\ UNCHANGED <<disk, memory, mutate, loader, rebuilt, kind, aud, val, bytes, made, faults, history>>

\* LoadAll renames the blobs it cannot open (.corrupt); an index is computed from
\* the others.
Quarantine(ids) ==
    /\ blobs' = [id \in Ids |-> IF id \in ids THEN None ELSE blobs[id]]
    /\ unreadable' = {}
    /\ rebuilt' = blobs'
    /\ loader' = "install"

\* Lock zeroes the key under LoadAll: whatever it opens from then on, it cannot.
LockInLoadAll ==
    /\ unlocked
    /\ "lock_in_call" \in Unguarded
    /\ loader = "rebuild"
    /\ \E lost \in SUBSET Ids : unreadable \subseteq lost /\ Quarantine(lost)
    /\ unlocked' = FALSE
    /\ clearing' = TRUE
    /\ UNCHANGED <<dindex, memory, locks, local, made, faults, history>>

LockClear ==
    /\ clearing
    /\ clearing' = FALSE
    /\ index' = Empty
    /\ cache' = Empty
    /\ lru' = <<>>
    /\ UNCHANGED <<disk, unlocked, locks, loader, rebuilt, local, made, faults, history>>

UnlockVault ==
    /\ ~unlocked
    /\ loader = "off"
    /\ clearing => "unlock_in_lock" \in Unguarded
    /\ unlocked' = TRUE
    /\ loader' = "read"
    /\ failed' = FALSE
    /\ UNCHANGED <<disk, memory, locks, rebuilt, clearing, local, made, faults, fate, acked>>

InstallIndex(table) ==
    /\ index' = table
    /\ cache' = Empty
    /\ lru' = <<>>

\* Mutant: the index is taken without reconciling it.
LoadIndexAsIs ==
    /\ loader = "read"
    /\ unlocked
    /\ loader' = "off"
    /\ InstallIndex(dindex)
    /\ UNCHANGED <<disk, unlocked, locks, rebuilt, clearing, local, made, faults, history>>

\* tryLoadIndex and reconcile: an index that lists exactly the blobs on disk is
\* taken as it is; ghosts or orphans call for a rebuild, and so does an index that
\* is absent or that no key opens (which is so at any time Vault says).
LoadIndex ==
    /\ loader = "read"
    /\ unlocked
    /\ \/ Listed(dindex) = Listed(blobs) /\ loader' = "off" /\ InstallIndex(dindex)
       \/ loader' = "rebuild" /\ UNCHANGED memory
    /\ UNCHANGED <<disk, unlocked, locks, rebuilt, clearing, local, made, faults, history>>

\* rebuildIndex: every blob is read ...
RebuildIndex ==
    /\ loader = "rebuild"
    /\ unlocked
    /\ Quarantine(unreadable)
    /\ UNCHANGED <<dindex, unlocked, memory, locks, clearing, local, made, faults, history>>

\* ... the index computed from them installed, locked by now or not ...
InstallRebuilt ==
    /\ loader = "install"
    /\ InstallIndex(rebuilt)
    /\ loader' = "save"
    /\ UNCHANGED <<disk, unlocked, locks, rebuilt, clearing, local, made, faults, history>>

\* ... and written, once writeMu is free; requests may have run in between.
SaveRebuilt ==
    /\ loader = "save"
    /\ unlocked
    /\ writeMu = None
    /\ dindex' = rebuilt
    /\ rebuilt' = Empty
    /\ loader' = "off"
    /\ UNCHANGED <<blobs, unreadable, unlocked, memory, locks, clearing, local, made, faults, history>>

\* The vault was locked, or an I/O error: Unlock returns an error and leaves the
\* vault as it is.
LoadFails ==
    /\ loader \in {"read", "rebuild", "save"}
    /\ \/ ~unlocked /\ UNCHANGED faults
       \/ faults < MaxFaults /\ faults' = faults + 1
    /\ loader' = "off"
    /\ rebuilt' = Empty
    /\ failed' = TRUE
    /\ UNCHANGED <<disk, unlocked, memory, locks, clearing, local, made, fate, acked>>

-----------------------------------------------------------------------------
(* ensureLoaded: the decryption happens outside s.mu.                      *)

\* What the caller does with the dataset it got: Accounts and Summary return it.
Loaded(c, ds) ==
    IF kind[c] = "read"
    THEN Return(c)
    ELSE /\ val' = [val EXCEPT ![c] = ds]
         /\ Goto(c, "swap")
         /\ UNCHANGED <<kind, aud, bytes, locks>>

LoadCached(c) ==
    /\ pc[c] = "load"
    /\ cache[aud[c]] # None
    /\ lru' = BumpLRU(lru, aud[c])
    /\ Loaded(c, cache[aud[c]])
    /\ UNCHANGED <<disk, unlocked, index, cache, loading, made, faults, history>>

\* Mutant: ErrNotFound returns without releasing the per-audit lock.
LoadMissedKeepLock(c) ==
    /\ pc[c] = "load"
    /\ cache[aud[c]] = None
    /\ IF index[aud[c]] = None
       THEN /\ Goto(c, "idle")
            /\ UNCHANGED <<kind, aud, val, bytes, locks>>
       ELSE Goto(c, "fetch") /\ UNCHANGED <<kind, aud, val, bytes, locks>>
    /\ UNCHANGED <<disk, unlocked, memory, loading, made, faults, history>>

LoadMissed(c) ==
    /\ pc[c] = "load"
    /\ cache[aud[c]] = None
    /\ IF index[aud[c]] = None
       THEN Return(c)
       ELSE Goto(c, "fetch") /\ UNCHANGED <<kind, aud, val, bytes, locks>>
    /\ UNCHANGED <<disk, unlocked, memory, loading, made, faults, history>>

Fetch(c) ==
    /\ pc[c] = "fetch"
    /\ IF unlocked /\ blobs[aud[c]] # None /\ aud[c] \notin unreadable
       THEN /\ val' = [val EXCEPT ![c] = blobs[aud[c]]]
            /\ Goto(c, "insert")
            /\ UNCHANGED <<kind, aud, bytes, locks>>
       ELSE Return(c)
    /\ UNCHANGED <<disk, unlocked, memory, loading, made, faults, history>>

\* Mutant: what was read replaces what is cached by now.
InsertUnchecked(c) ==
    /\ pc[c] = "insert"
    /\ Evict([cache EXCEPT ![aud[c]] = val[c]], BumpLRU(lru, aud[c]))
    /\ Loaded(c, val[c])
    /\ UNCHANGED <<disk, unlocked, index, loading, made, faults, history>>

\* The double check: whoever filled the cache meanwhile wins.
Insert(c) ==
    /\ pc[c] = "insert"
    /\ LET id == aud[c]
       IN  IF cache[id] # None
           THEN /\ lru' = BumpLRU(lru, id)
                /\ UNCHANGED cache
                /\ Loaded(c, cache[id])
           ELSE /\ Evict([cache EXCEPT ![id] = val[c]], BumpLRU(lru, id))
                /\ Loaded(c, val[c])
    /\ UNCHANGED <<disk, unlocked, index, loading, made, faults, history>>

-----------------------------------------------------------------------------
(* The operations.                                                         *)

\* An id a client can have got hold of.
Usable(id) ==
    /\ fate[id] # "unused"
    /\ (\E c \in InFlight : kind[c] = "create" /\ aud[c] = id) => "early_use" \in Unguarded

ReadBegin(c, id) ==
    /\ Begin(c, "read", id, "load")
    /\ Usable(id)
    /\ UNCHANGED <<disk, unlocked, memory, locks, loading, val, bytes, made, faults, history>>

\* CreateAudit, up to its persist; it takes no per-audit lock.
CreateBegin(c, id) ==
    /\ Begin(c, "create", id, "persist")
    /\ loader \in {"read", "rebuild", "install"} => "create_in_load" \in Unguarded
    /\ fate[id] = "unused"
    /\ fate' = [fate EXCEPT ![id] = "made"]
    /\ index' = [index EXCEPT ![id] = {}]
    /\ Evict([cache EXCEPT ![id] = {}], BumpLRU(lru, id))
    /\ val' = [val EXCEPT ![c] = {}]
    /\ bytes' = [bytes EXCEPT ![c] = index']
    /\ UNCHANGED <<disk, unlocked, locks, loading, made, faults, acked, failed>>

\* ReplaceDomain, Mutate, RecordIngest, Delete: the per-audit lock spans them.
LockedBegin(c, k, id) ==
    /\ Begin(c, k, id, "lock")
    /\ Usable(id)
    /\ k = "mutate" =>
           made + Cardinality({d \in Clients : kind[d] = "mutate"}) < MaxUpdates
    /\ UNCHANGED <<disk, unlocked, memory, locks, loading, val, bytes, made, faults, history>>

\* Mutant: an update does not take the per-audit lock.
MutateNoLock(c) ==
    /\ pc[c] = "lock"
    /\ kind[c] = "mutate"
    /\ Goto(c, "load")
    /\ UNCHANGED <<disk, unlocked, memory, locks, loading, kind, aud, val, bytes, made, faults, history>>

MutateLock(c) ==
    /\ pc[c] = "lock"
    /\ kind[c] = "mutate"
    /\ mutate[aud[c]] = None
    /\ mutate' = [mutate EXCEPT ![aud[c]] = c]
    /\ Goto(c, "load")
    /\ UNCHANGED <<disk, unlocked, memory, writeMu, loading, kind, aud, val, bytes, made, faults, history>>

\* Mutant: the new copy goes into the index only.
SwapNoCache(c) ==
    /\ pc[c] = "swap"
    /\ LET id == aud[c] IN
       IF index[id] = None
       THEN Return(c) /\ UNCHANGED <<memory, made>>
       ELSE /\ made' = made + 1
            /\ val' = [val EXCEPT ![c] = @ \cup {made'}]
            /\ index' = [index EXCEPT ![id] = val'[c]]
            /\ UNCHANGED <<cache, lru>>
            /\ bytes' = [bytes EXCEPT ![c] = index']
            /\ Goto(c, "persist")
            /\ UNCHANGED <<kind, aud, locks>>
    /\ UNCHANGED <<disk, unlocked, loading, faults, history>>

\* swap: a new copy with the update goes into cache and index (and no eviction).
Swap(c) ==
    /\ pc[c] = "swap"
    /\ LET id == aud[c] IN
       IF index[id] = None
       THEN Return(c) /\ UNCHANGED <<memory, made>>
       ELSE /\ made' = made + 1
            /\ val' = [val EXCEPT ![c] = @ \cup {made'}]
            /\ cache' = [cache EXCEPT ![id] = val'[c]]
            /\ index' = [index EXCEPT ![id] = val'[c]]
            /\ lru' = BumpLRU(lru, id)
            /\ bytes' = [bytes EXCEPT ![c] = index']
            /\ Goto(c, "persist")
            /\ UNCHANGED <<kind, aud, locks>>
    /\ UNCHANGED <<disk, unlocked, loading, faults, history>>

\* Mutant: a deletion does not take the per-audit lock.
DeleteNoLock(c) ==
    /\ pc[c] = "lock"
    /\ kind[c] = "delete"
    /\ LET id == aud[c] IN
       IF index[id] = None
       THEN Return(c) /\ UNCHANGED <<memory, fate>>
       ELSE /\ index' = [index EXCEPT ![id] = None]
            /\ cache' = [cache EXCEPT ![id] = None]
            /\ lru' = RemoveLRU(lru, id)
            /\ bytes' = [bytes EXCEPT ![c] = index']
            /\ fate' = [fate EXCEPT ![id] = "dropped"]
            /\ Goto(c, "persist")
            /\ UNCHANGED <<kind, aud, val, locks>>
    /\ UNCHANGED <<disk, unlocked, loading, made, faults, acked, failed>>

\* Delete, up to its writes: an audit it does not know is ErrNotFound.
DeleteEntry(c) ==
    /\ pc[c] = "lock"
    /\ kind[c] = "delete"
    /\ mutate[aud[c]] = None
    /\ LET id == aud[c] IN
       IF index[id] = None
       THEN Return(c) /\ UNCHANGED <<memory, fate>>
       ELSE /\ mutate' = [mutate EXCEPT ![id] = c]
            /\ index' = [index EXCEPT ![id] = None]
            /\ cache' = [cache EXCEPT ![id] = None]
            /\ lru' = RemoveLRU(lru, id)
            /\ bytes' = [bytes EXCEPT ![c] = index']
            /\ fate' = [fate EXCEPT ![id] = "dropped"]
            /\ Goto(c, "persist")
            /\ UNCHANGED <<kind, aud, val, writeMu>>
    /\ UNCHANGED <<disk, unlocked, loading, made, faults, acked, failed>>

-----------------------------------------------------------------------------
(* The writes: persist (blob, then index) and Delete (index, then blob).   *)

\* SaveAudit; if Lock caught it with the key, the blob may be sealed under zeros.
PersistBlob(c) ==
    /\ \/ /\ pc[c] = "persist"
          /\ kind[c] # "delete"
          /\ unlocked
          /\ writeMu = None
          /\ unreadable' = unreadable \ {aud[c]}
       \/ /\ pc[c] = "seal"
          /\ unreadable' \in {unreadable \ {aud[c]}, unreadable \cup {aud[c]}}
    /\ writeMu' = c
    /\ blobs' = [blobs EXCEPT ![aud[c]] = val[c]]
    /\ Goto(c, "index")
    /\ UNCHANGED <<dindex, unlocked, memory, mutate, loading, kind, aud, val, bytes, made, faults, history>>

PersistIndex(c) ==
    /\ pc[c] = "index"
    /\ unlocked
    /\ dindex' = bytes[c]
    /\ IF kind[c] = "create"
       THEN fate' = [fate EXCEPT ![aud[c]] = "known"] /\ UNCHANGED acked
       ELSE acked' = [acked EXCEPT ![aud[c]] = @ \cup val[c]] /\ UNCHANGED fate
    /\ Return(c)
    /\ UNCHANGED <<blobs, unreadable, unlocked, memory, loading, made, faults, failed>>

DeleteIndex(c) ==
    /\ pc[c] = "persist"
    /\ kind[c] = "delete"
    /\ unlocked
    /\ writeMu = None
    /\ writeMu' = c
    /\ dindex' = bytes[c]
    /\ Goto(c, "blob")
    /\ UNCHANGED <<blobs, unreadable, unlocked, memory, mutate, loading, kind, aud, val, bytes, made, faults, history>>

DeleteBlob(c) ==
    /\ pc[c] = "blob"
    /\ blobs' = [blobs EXCEPT ![aud[c]] = None]
    /\ unreadable' = unreadable \ {aud[c]}
    /\ fate' = [fate EXCEPT ![aud[c]] = "deleted"]
    /\ Return(c)
    /\ UNCHANGED <<dindex, unlocked, memory, loading, made, faults, acked, failed>>

\* ErrLocked, or an I/O error.  A failed swap stays in memory.
WriteFails(c) ==
    /\ \/ ~unlocked /\ pc[c] \in {"persist", "index"} /\ UNCHANGED faults
       \/ /\ pc[c] \in {"fetch", "persist", "seal", "index", "blob"}
          /\ faults < MaxFaults
          /\ faults' = faults + 1
    /\ pc[c] = "persist" => writeMu = None
    /\ GiveUp(c)
    /\ UNCHANGED <<disk, unlocked, memory, loading, made, history>>

\* Mutant: the rollback leaves the audit in lru.
CreateRollbackKeepLru(c) ==
    /\ pc[c] = "rollback"
    /\ index' = [index EXCEPT ![aud[c]] = None]
    /\ cache' = [cache EXCEPT ![aud[c]] = None]
    /\ lru' = lru
    /\ Return(c)
    /\ UNCHANGED <<disk, unlocked, loading, made, faults, history>>

CreateRollback(c) ==
    /\ pc[c] = "rollback"
    /\ index' = [index EXCEPT ![aud[c]] = None]
    /\ cache' = [cache EXCEPT ![aud[c]] = None]
    /\ lru' = RemoveLRU(lru, aud[c])
    /\ Return(c)
    /\ UNCHANGED <<disk, unlocked, loading, made, faults, history>>

Crash ==
    /\ faults < MaxFaults
    /\ faults' = faults + 1
    /\ unlocked' = FALSE
    /\ index' = Empty
    /\ cache' = Empty
    /\ lru' = <<>>
    /\ mutate' = [id \in Ids |-> None]
    /\ writeMu' = None
    /\ loader' = "off"
    /\ rebuilt' = Empty
    /\ clearing' = FALSE
    /\ pc' = [c \in Clients |-> "idle"]
    /\ kind' = [c \in Clients |-> "read"]
    /\ aud' = [c \in Clients |-> None]
    /\ val' = [c \in Clients |-> {}]
    /\ bytes' = [c \in Clients |-> Empty]
    /\ UNCHANGED <<disk, made, history>>

-----------------------------------------------------------------------------
LockUnlock ==
    \/ LockVault \/ LockClear
    \/ LockInLoadAll \/ \E c \in Clients : LockInSave(c)
    \/ UnlockVault \/ LoadIndex \/ RebuildIndex \/ InstallRebuilt \/ SaveRebuilt \/ LoadFails

Request(c) == \E id \in Ids :
    \/ ReadBegin(c, id) \/ CreateBegin(c, id)
    \/ \E k \in {"mutate", "delete"} : LockedBegin(c, k, id)

Continue(c) ==
    \/ MutateLock(c) \/ DeleteEntry(c)
    \/ LoadCached(c) \/ LoadMissed(c) \/ Fetch(c) \/ Insert(c) \/ Swap(c)
    \/ PersistBlob(c) \/ PersistIndex(c) \/ DeleteIndex(c) \/ DeleteBlob(c)
    \/ WriteFails(c) \/ CreateRollback(c)

Next ==
    \/ LockUnlock
    \/ \E c \in Clients : Request(c) \/ Continue(c)
    \/ Crash

Spec == Init /\ [][Next]_vars

\* A request runs on and Go hands a waiting goroutine the mutex it waits for.
FairSpec ==
    /\ Spec
    /\ WF_vars(LockClear) /\ WF_vars(LoadIndex) /\ WF_vars(RebuildIndex) /\ WF_vars(InstallRebuilt)
    /\ SF_vars(SaveRebuilt)
    /\ \A c \in Clients : SF_vars(Continue(c))

-----------------------------------------------------------------------------
TypeOK ==
    /\ blobs \in Table /\ unreadable \subseteq Ids /\ dindex \in Table
    /\ unlocked \in BOOLEAN
    /\ index \in Table /\ cache \in Table /\ lru \in Seq(Ids)
    /\ mutate \in [Ids -> Clients \cup {None}]
    /\ writeMu \in Clients \cup {None}
    /\ loader \in {"off", "read", "rebuild", "install", "save"}
    /\ rebuilt \in Table
    /\ clearing \in BOOLEAN
    /\ pc \in [Clients -> {"idle", "lock", "load", "fetch", "insert", "swap", "persist",
                          "seal", "index", "blob", "rollback"}]
    /\ kind \in [Clients -> Kinds]
    /\ aud \in [Clients -> Ids \cup {None}]
    /\ \A c \in InFlight : aud[c] \in Ids
    /\ val \in [Clients -> Datasets]
    /\ bytes \in [Clients -> Table]
    /\ made \in 0..MaxUpdates
    /\ faults \in 0..MaxFaults
    /\ fate \in [Ids -> Fates]
    /\ acked \in [Ids -> Datasets]
    /\ failed \in BOOLEAN

\* An audit that was created and not deleted is on disk, readable and with every
\* update that was ever reported done, whatever ran concurrently, failed or crashed
\* since.
NoLostUpdate ==
    \A id \in Ids : fate[id] = "known" =>
        blobs[id] # None /\ id \notin unreadable /\ acked[id] \subseteq blobs[id]

\* A deleted audit's blob is never written again.
DeletedGone == \A id \in Ids : fate[id] = "deleted" => blobs[id] = None

\* What the cache holds of a listed audit, and its next update is built on, is
\* never older than the blob on disk.
CacheNotStale ==
    \A id \in Listed(index) \cap Listed(cache) \cap Listed(blobs) :
        blobs[id] \subseteq cache[id]

\* Every cached audit is in lru exactly once and nothing else is: evict() could
\* otherwise never get the cache back under its cap.
LruMirrorsCache ==
    /\ {lru[i] : i \in DOMAIN lru} = Listed(cache)
    /\ Len(lru) = Cardinality(Listed(cache))

\* While the store is open, every created audit is listed: after a crash at any
\* point of a create, an update or a deletion, and with index writes of several
\* requests landing in any order.
CreatedListed ==
    unlocked /\ loader \in {"off", "save"} /\ ~failed =>
        \A id \in Ids : fate[id] = "known" => index[id] # None

\* Every request returns: no order of the per-audit lock, s.mu and writeMu
\* leaves one waiting for ever.
RequestsReturn == \A c \in Clients : pc[c] # "idle" ~> pc[c] = "idle"

=============================================================================
