------------------------------- MODULE Corpus -------------------------------
(***************************************************************************)
(* The breach corpus: the job that downloads, indexes and swaps it         *)
(* (pwned.Manager), its searcher in the engine (hibp.Searcher, SwapHIBP)   *)
(* and the scoring of an account that looks its hash up meanwhile.         *)
(*                                                                         *)
(* A file is the version of the corpus it holds, or of the corpus it is    *)
(* the index of, 0 when it is absent or a partial download.  The hash      *)
(* looked up is in every version.  A lookup through a matching pair finds  *)
(* it; with the index of another version it may miss.                      *)
(***************************************************************************)
EXTENDS Process, Sequences

Files == {"data", "idx", "dataPrev", "idxPrev", "new", "newIdx"}

VARIABLES
    disk,       \* disk[f]: the version in file f
    version,    \* versions published so far
    phase,      \* Manager.phase
    step,       \* where the job's goroutine stands
    had,        \* the live files it stashed (hadData, hadIdx)
    stop,       \* its context is cancelled
    searchers,  \* every searcher opened: its pair, and whether it is open
    reader,     \* Engine.HIBP, an index of searchers, 0 none
    scoring,    \* searcher the account under scoring looks into, 0 none, -1 not scoring
    breached,   \* HIBPBreachCount > 0 of the stored account
    known,      \* ghost: a lookup of it has succeeded
    owned       \* ghost: a whole corpus is live, and neither a crash in a swap nor
                \* a file that could not be set aside or put back has cost it

corpusVars == <<disk, version, phase, step, had, stop, searchers, reader, scoring, breached, known, owned>>
swapVars   == <<disk, had, version, stop, owned>>
accountVars == <<scoring, breached, known>>

\* hibp.Open of the live files, the searcher that becomes the reader.
Opens ==
    /\ disk["data"] # 0 /\ disk["idx"] # 0
    /\ searchers' = Append(searchers, [data |-> disk["data"], idx |-> disk["idx"], open |-> TRUE])
    /\ reader' = Len(searchers) + 1

CorpusInit ==
    /\ \E v \in IF budget["corpus"] > 0 THEN {0, 1} ELSE {1} :   \* bound
        /\ disk = [f \in Files |-> IF f \in {"data", "idx"} THEN v ELSE 0]
        /\ version = v
        /\ owned = (v = 1)
        /\ searchers = IF v = 1 THEN <<[data |-> 1, idx |-> 1, open |-> TRUE]>> ELSE <<>>
        /\ reader = v
    /\ phase = "idle" /\ step = "none" /\ had = {} /\ stop = FALSE
    /\ scoring = -1 /\ breached = FALSE /\ known = FALSE

-----------------------------------------------------------------------------
(* Manager.                                                                *)

Busy == phase \in {"downloading", "indexing"}

\* The staging file is overwritten or, on a resume, continued: partial again.
Start ==
    /\ Takes({"corpus"})
    /\ ~Busy
    /\ phase' = "downloading" /\ step' = "download" /\ stop' = FALSE
    /\ disk' = [disk EXCEPT !["new"] = 0]
    /\ UNCHANGED <<had, version, owned, searchers, reader, accountVars>>

StartIndexOnly ==
    /\ Takes({"corpus"})
    /\ ~Busy
    /\ disk["data"] # 0
    /\ phase' = "indexing" /\ step' = "reindex"
    /\ UNCHANGED <<swapVars, searchers, reader, accountVars>>

Cancel ==
    /\ Takes({"corpus"})
    /\ phase = "downloading" /\ ~stop
    /\ stop' = TRUE
    /\ UNCHANGED <<disk, had, version, owned, phase, step, searchers, reader, accountVars>>

Finish(p) == phase' = p /\ step' = "none"

\* runDownload, up to its first unlock; a cancelled download may just have ended.
Downloaded ==
    /\ Serves
    /\ step = "download"
    /\ IF stop THEN Finish("cancelled") /\ UNCHANGED <<disk, version>>
       ELSE /\ version' = version + 1
            /\ disk' = [disk EXCEPT !["new"] = version + 1]
            /\ phase' = "indexing" /\ step' = "index"
    /\ UNCHANGED <<had, stop, owned, searchers, reader, accountVars>>

DownloadFails ==
    /\ Takes({"fault"})
    /\ step = "download"
    /\ Finish("failed")
    /\ UNCHANGED <<disk, version, had, stop, owned, searchers, reader, accountVars>>

\* BuildIndex of the staging file.
Index ==
    /\ step = "index"
    /\ \/ /\ Takes({})
          /\ disk' = [disk EXCEPT !["newIdx"] = disk["new"]]
          /\ step' = "release"
          /\ UNCHANGED phase
       \/ Takes({"fault"}) /\ Finish("failed") /\ UNCHANGED disk
    /\ UNCHANGED <<had, version, stop, owned, searchers, reader, accountVars>>

\* BuildIndex in place, and AfterSwap.
Reindex ==
    /\ step = "reindex"
    /\ \/ /\ Takes({})
          /\ disk' = [disk EXCEPT !["idx"] = disk["data"]]
          /\ step' = "reopen"
          /\ owned' = TRUE
          /\ UNCHANGED phase
       \/ Takes({"fault"}) /\ Finish("failed") /\ UNCHANGED <<disk, owned>>
    /\ UNCHANGED <<had, version, stop, searchers, reader, accountVars>>

-----------------------------------------------------------------------------
(* swapIntoPlace.                                                          *)

Moved(from, to) == [disk EXCEPT ![to] = disk[from], ![from] = 0]

\* One rename, by which the step at s goes on to s1 or, failing, to s2.  There
\* may be nothing to rename.
Rename(s, from, to, s1, s2) ==
    /\ step = s
    /\ \/ /\ disk[from] # 0
          /\ Takes({})
          /\ disk' = Moved(from, to)
          /\ step' = s1
       \/ /\ Takes(IF disk[from] = 0 THEN {} ELSE {"fault"})
          /\ step' = s2
          /\ UNCHANGED disk

\* BeforeSwap: the engine loses its searcher, which is closed.
Release ==
    /\ Serves
    /\ step = "release"
    /\ searchers' = IF reader = 0 THEN searchers ELSE [searchers EXCEPT ![reader].open = FALSE]
    /\ reader' = 0
    /\ step' = "stash data"
    /\ UNCHANGED <<swapVars, phase, accountVars>>

\* Mutant: the new data stays when its index cannot follow.
MoveIdxAlone == Rename("move idx", "newIdx", "idx", "drop", "restore idx")

MoveIdx == Rename("move idx", "newIdx", "idx", "drop", "undo")

\* A file that cannot be set aside or put back may be lost.
Kept == owned' = (owned /\ disk' # disk)

SwapStep ==
    /\ \/ /\ Rename("stash data", "data", "dataPrev", "stash idx", "stash idx")
          /\ had' = IF disk' # disk THEN {"data"} ELSE {}
          /\ Kept
       \/ /\ Rename("stash idx", "idx", "idxPrev", "move data", "move data")
          /\ had' = IF disk' # disk THEN had \cup {"idx"} ELSE had
          /\ Kept
       \/ /\ \/ Rename("move data", "new", "data", "move idx", "restore data")
             \/ MoveIdx
             \/ Rename("undo", "data", "new", "restore data", "restore data")
          /\ UNCHANGED <<had, owned>>
    /\ UNCHANGED <<version, phase, stop, searchers, reader, accountVars>>

\* Mutant: the index is not put back.
RestoreData ==
    /\ \/ "data" \in had /\ Rename("restore data", "dataPrev", "data", "reopen failed", "reopen failed") /\ Kept
       \/ /\ step = "restore data" /\ "data" \notin had
          /\ Takes({}) /\ step' = "reopen failed" /\ UNCHANGED <<disk, owned>>
    /\ UNCHANGED <<version, phase, had, stop, searchers, reader, accountVars>>

\* restore, which ignores its errors.
Restore ==
    /\ \/ /\ \/ "data" \in had /\ Rename("restore data", "dataPrev", "data", "restore idx", "restore idx")
             \/ "idx" \in had /\ Rename("restore idx", "idxPrev", "idx", "reopen failed", "reopen failed")
          /\ Kept
       \/ /\ \/ step = "restore data" /\ "data" \notin had /\ step' = "restore idx"
             \/ step = "restore idx" /\ "idx" \notin had /\ step' = "reopen failed"
          /\ Takes({})
          /\ UNCHANGED <<disk, owned>>
    /\ UNCHANGED <<version, phase, had, stop, searchers, reader, accountVars>>

\* The previous pair is dropped.
Drop ==
    /\ Serves
    /\ step = "drop"
    /\ disk' = [disk EXCEPT !["dataPrev"] = IF "data" \in had THEN 0 ELSE @,
                            !["idxPrev"] = IF "idx" \in had THEN 0 ELSE @]
    /\ step' = "reopen"
    /\ owned' = TRUE
    /\ UNCHANGED <<version, phase, had, stop, searchers, reader, accountVars>>

\* AfterSwap and finish.  A pair that cannot be opened leaves the engine with
\* the searcher it has, which after a swap is none.
Reopen ==
    /\ step \in {"reopen", "reopen failed"}
    /\ \/ Takes({}) /\ Opens
       \/ /\ Takes(IF disk["data"] # 0 /\ disk["idx"] # 0 THEN {"fault"} ELSE {})
          /\ UNCHANGED <<searchers, reader>>
    /\ Finish(IF step = "reopen" THEN "done" ELSE "failed")
    /\ UNCHANGED <<swapVars, accountVars>>

-----------------------------------------------------------------------------
(* The scoring of an account, freshHIBP.                                   *)

ScoreBegin ==
    /\ Takes({"score"})
    /\ scoring = -1
    /\ scoring' = reader
    /\ UNCHANGED <<swapVars, phase, step, searchers, reader, breached, known>>

\* Mutant: a lookup that fails counts as one that finds nothing.
ScoreForgets ==
    /\ Serves
    /\ scoring # -1
    /\ breached' = (scoring > 0 /\ searchers[scoring].open)
    /\ known' = (known \/ breached')
    /\ scoring' = -1
    /\ UNCHANGED <<swapVars, phase, step, searchers, reader>>

\* Without a searcher, or with one that was closed meanwhile, what is stored
\* about the account stays.
ScoreEnd ==
    /\ Serves
    /\ scoring # -1
    /\ IF scoring = 0 \/ ~searchers[scoring].open
       THEN UNCHANGED <<breached, known>>
       ELSE /\ breached' \in IF searchers[scoring].data = searchers[scoring].idx THEN {TRUE}
                             ELSE BOOLEAN
            /\ known' = (known \/ breached')
    /\ scoring' = -1
    /\ UNCHANGED <<swapVars, phase, step, searchers, reader>>

Swapping == step \in {"stash data", "stash idx", "move data", "move idx", "undo",
                      "restore data", "restore idx", "drop"}

\* The process ends; a new one knows nothing of a job that was running.
CorpusHalt ==
    /\ owned' = (owned /\ ~Swapping)
    /\ UNCHANGED <<disk, version, phase, step, had, stop, searchers, reader, accountVars>>

CorpusBoot ==
    /\ phase' = "idle" /\ step' = "none" /\ had' = {} /\ stop' = FALSE
    /\ scoring' = -1
    /\ IF disk["data"] # 0 /\ disk["idx"] # 0 THEN Opens ELSE reader' = 0 /\ UNCHANGED searchers
    /\ UNCHANGED <<disk, version, breached, known, owned>>

CorpusNext ==
    \/ Start \/ StartIndexOnly \/ Cancel
    \/ Downloaded \/ DownloadFails \/ Index \/ Reindex
    \/ Release \/ SwapStep \/ Restore \/ Drop \/ Reopen
    \/ ScoreBegin \/ ScoreEnd

-----------------------------------------------------------------------------
(* Properties.                                                             *)

CorpusTypeOK ==
    /\ disk \in [Files -> 0..version]
    /\ phase \in {"idle", "downloading", "indexing", "done", "failed", "cancelled"}
    /\ had \subseteq {"data", "idx"}
    /\ reader \in 0..Len(searchers) /\ scoring \in -1..Len(searchers)

\* The engine never searches a corpus with the index of another, whichever two
\* renames of the swap fail, or wherever the process stops in it if none does.
PairMatches == \A i \in DOMAIN searchers : searchers[i].data = searchers[i].idx

\* A corpus that was whole is whole again after every job, done, failed or
\* cancelled: the new one, or the old one put back.  (A crash within the swap, or
\* a rollback that fails itself, leaves none until the next job.)
CorpusKept ==
    owned /\ ~Swapping => disk["data"] # 0 /\ disk["idx"] = disk["data"]

\* An account once found breached stays so: a scoring that runs while the corpus
\* is being swapped does not take a searcher that is gone or closed for an answer.
BreachKept == known => breached

=============================================================================
