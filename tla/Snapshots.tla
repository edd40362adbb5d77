----------------------------- MODULE Snapshots -----------------------------
(***************************************************************************)
(* The files of one database and its journal on their way to IndexedDB:    *)
(* SyncQueue, driven by the calls of an application instead of single      *)
(* writes.                                                                 *)
(*                                                                         *)
(* JavaScript runs one thing at a time.  A call of the application runs    *)
(* the whole of SQLite's work in one turn, and no callback of FS.syncfs    *)
(* runs before it ends; a save that an xSync starts in the middle of the   *)
(* turn lists the files there and then, and reads them in a later turn.    *)
(* The page may go away at any point.                                      *)
(*                                                                         *)
(* The calls make the VFS calls that Pager describes for DELETE and FULL,  *)
(* reduced to what they do to files: a page file holds the number of the   *)
(* transaction that wrote it, and the journal the originals it restores.   *)
(***************************************************************************)
EXTENDS SyncQueue, FiniteSets

Seqs == INSTANCE SequencesExt

CONSTANTS
    Journal,         \* the journal; the other Files are of the database
    MaxTx,           \* bound on the transactions
    WaitsForSaves    \* does the application wait until syncQueue is 0?

ASSUME SnapshotsAssumption ==
    Journal \in Files /\ IsFiniteSet(Files) /\ MaxTx \in Nat /\ WaitsForSaves \in BOOLEAN

VARIABLES
    turn,      \* what the running call has still to do to the files
    txs,       \* the number of transactions begun
    writing,   \* is a transaction open, its first pages spilled?
    content,   \* history: what was written, by version
    committed  \* history: the images of the database that were committed

calls    == <<turn, txs, writing, content, committed>>
all_vars == <<vars, calls>>

DbFiles == Files \ {Journal}

-----------------------------------------------------------------------------
(* What a set of files means to SQLite.                                    *)

Image(files) ==
    [f \in DbFiles |-> IF files[f] = Absent THEN 0 ELSE content[files[f]]]

Originals(files) == content[files[Journal]]

HasJournal(files) == files[Journal] # Absent

\* pager_playback
RolledBack(files) == [f \in DbFiles |-> IF f \in DOMAIN Originals(files)
                                        THEN Originals(files)[f] ELSE Image(files)[f]]

Recovered(files) == IF HasJournal(files) THEN RolledBack(files) ELSE Image(files)

-----------------------------------------------------------------------------
(* The calls.                                                              *)

Put(f, value) == [op |-> "write", file |-> f, value |-> value]
SyncFile      == [op |-> "sync"]
EndTx         == [op |-> "remove"]

\* Mutant: nRec is not updated.
StoreJournalOnce(old, new) == <<Put(Journal, old), SyncFile>>

\* syncJournal: the journal with the new records, then with their number.
StoreJournal(old, new) == <<Put(Journal, old), SyncFile, Put(Journal, new), SyncFile>>

\* pager_write_pagelist, and the writes of pager_playback.
PutAll(S, values) ==
    LET list == Seqs!SetToSeq(S)
    IN  [i \in DOMAIN list |-> Put(list[i], values[list[i]])]

CanCall == /\ turn = << >> /\ CanUse
           /\ WaitsForSaves => syncQueue = 0
           /\ syncQueue + 3 <= MaxQueue

\* A statement that changes the files S, and either commits or spills them:
\* the journal, the pages, and with a commit their xSync and the xDelete.
Execute(S, commits) ==
    /\ CanCall /\ S # {}
    /\ writing \/ ~HasJournal(mem)
    /\ writing \/ txs < MaxTx
    /\ clock + Cardinality(S) + 2 <= MaxClock
    /\ txs' = IF writing THEN txs ELSE txs + 1
    /\ writing' = ~commits
    /\ LET old == IF writing THEN Originals(mem) ELSE [f \in {} |-> 0]
           new == [f \in DOMAIN old \cup S |->
                      IF f \in DOMAIN old THEN old[f] ELSE Image(mem)[f]]
       IN  turn' = StoreJournal(old, new) \o PutAll(S, [f \in S |-> txs'])
                     \o (IF commits THEN <<SyncFile, EndTx>> ELSE << >>)
    /\ UNCHANGED <<vars, content, committed>>

\* ROLLBACK, and the rollback of a hot journal, which is synced first.
Rollback ==
    /\ CanCall /\ HasJournal(mem)
    /\ clock + Cardinality(DOMAIN Originals(mem)) <= MaxClock
    /\ turn' = (IF writing THEN << >> ELSE <<SyncFile>>)
                 \o PutAll(DOMAIN Originals(mem), Originals(mem)) \o <<SyncFile, EndTx>>
    /\ writing' = FALSE
    /\ UNCHANGED <<vars, txs, content, committed>>

-----------------------------------------------------------------------------

Doing(op) == turn # << >> /\ Head(turn).op = op /\ turn' = Tail(turn)

DoWrite == /\ Doing("write") /\ Write(Head(turn).file)
           /\ content' = Append(content, Head(turn).value)
           /\ UNCHANGED <<txs, writing, committed>>

DoSyncFile == /\ Doing("sync") /\ IdbvfsSyncfs
              /\ UNCHANGED <<txs, writing, content, committed>>

DoEndTx == /\ Doing("remove") /\ Remove(Journal)
           /\ committed' = committed \cup {Image(mem)}
           /\ UNCHANGED <<txs, writing, content>>

\* Between two turns: the callbacks of the browser.
Callback == /\ turn = << >> /\ UNCHANGED calls
            /\ SaveReads \/ SaveDone \/ SaveError \/ PopulateDone \/ PopulateError

Load == Register /\ UNCHANGED calls

Leave == /\ Reload
         /\ turn' = << >> /\ writing' = FALSE
         /\ UNCHANGED <<txs, content, committed>>

InitAll == /\ Init /\ turn = << >> /\ txs = 0 /\ writing = FALSE
           /\ content = << >> /\ committed = {[f \in DbFiles |-> 0]}

NextAll == \/ Load \/ Leave \/ Callback \/ Rollback
           \/ \E S \in SUBSET DbFiles, commits \in BOOLEAN : Execute(S, commits)
           \/ DoWrite \/ DoSyncFile \/ DoEndTx

\* A call comes to its end, and the browser runs every callback that is due.
SpecAll == InitAll /\ [][NextAll]_all_vars
           /\ WF_all_vars(DoWrite \/ DoSyncFile \/ DoEndTx) /\ WF_all_vars(Callback)

-----------------------------------------------------------------------------

\* A page load finds in IndexedDB a committed database, or one that its
\* journal makes into a committed database: no save puts the files of two
\* transactions together.
SnapshotIsCommitted == Recovered(idb) \in committed

\* What was committed last is in IndexedDB in the end, if no other commit
\* follows and the page stays.  The deletion of the journal comes after the
\* last xSync of the commit, and is saved all the same.
CommitIsSaved ==
    \A tx \in 1..MaxTx, f \in DbFiles :
        LET Last == mounted /\ turn = << >> /\ ~writing /\ Recovered(mem)[f] = tx
        IN  Last ~> (Recovered(idb)[f] = tx \/ ~Last)
=============================================================================
