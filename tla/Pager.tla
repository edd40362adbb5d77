------------------------------- MODULE Pager -------------------------------
(***************************************************************************)
(* SQLite's rollback journal over idbvfs: the pager of one connection,     *)
(* with a database file D and its journal J, both stored by IdbFile.       *)
(*                                                                         *)
(* A cell of D is a page; page 1 is its change counter.  A cell of J is a  *)
(* field of a header or a record, as in RollbackJournal.                   *)
(*                                                                         *)
(* A function of the pager is the list of the VFS calls it is going to     *)
(* make; each is one step, and the process may be killed between two of    *)
(* them and inside one.  Not modelled: WAL, super-journals, savepoints,    *)
(* auto-vacuum, locking_mode=EXCLUSIVE, and a failing xSync or xOpen.  A   *)
(* transaction never makes the database smaller (VACUUM), and the b-tree   *)
(* frees no page, so that every dirty page is written.                     *)
(***************************************************************************)
EXTENDS RollbackJournal

CONSTANTS
    Pragmas,      \* what a connection may choose; records of
                  \*   journal_mode: "DELETE", "PERSIST" or "TRUNCATE"
                  \*   synchronous:  "OFF", "NORMAL" or "FULL"
    Spills,       \* may the page cache run out of memory (pagerStress)?
    DbFaults,     \* may xWrite on the database fail?
    Kills,        \* may the process be killed?
    TornStores,   \* the stores a kill may leave half done
    MaxTx,        \* bound
    NoFile, Unknown, NoTx  \* as in IdbFile and Transactions

ASSUME PagerAssumption ==
    /\ Pragmas \subseteq [journal_mode : {"DELETE", "PERSIST", "TRUNCATE"},
                           synchronous : {"OFF", "NORMAL", "FULL"}]
    /\ {Spills, DbFaults, Kills} \subseteq BOOLEAN
    /\ TornStores \subseteq {"journal", "hot_journal", "file_size"}
    /\ MaxTx \in Nat \ {0}
    /\ NoFile \notin Nat /\ NoTx \notin Seq(Nat)

VARIABLES
    db_page, db_key, db_open, db_size, db_dirty,       \* D, as in IdbFile
    j_page, j_key, j_open, j_size, j_dirty, j_data,    \* J, as in IdbFile
    rc,           \* what the last VFS call answered
    pragma,       \* journal_mode and synchronous of the connection
    eState,       \* Pager.eState
    image,        \* the page cache over the database file
    dirty,        \* pages with PGHDR_DIRTY
    need_sync,    \* pages with PGHDR_NEED_SYNC
    pInJournal,   \* pages whose original is in the journal
    nRec, journalOff, journalHdr, dbOrigSize,          \* of struct Pager
    calls,        \* the VFS calls the running function has still to make
    txs,          \* the number of transactions begun
    before,       \* history: the image when the transaction began
    recovered,    \* history: what opening the files now would find (Recovery)
    reply         \* what the last transaction was answered

D_vars == <<db_page, db_key, db_open, db_size, db_dirty>>
J_vars == <<j_page, j_key, j_open, j_size, j_dirty, j_data>>
disk   == <<db_page, db_key, j_page, j_key>>
cache  == <<image, dirty, need_sync>>
jrnl   == <<pInJournal, nRec, journalOff, journalHdr, dbOrigSize>>
vars   == <<D_vars, J_vars, rc, pragma, eState, cache, jrnl, calls, txs, before, recovered, reply>>

D == INSTANCE IdbFile WITH
       IsDb <- TRUE, Byte <- Nat, Chunks <- {}, PageSize <- 1, HeaderLimit <- 1,
       Radix <- 10, MaxSize <- MaxPages, PageFaults <- DbFaults, KeyFaults <- FALSE,
       BufferedPages <- FALSE, TruncatesJournal <- FALSE,
       page <- db_page, size_key <- db_key, is_open <- db_open, file_size <- db_size,
       is_dirty <- db_dirty, journal_data <- << >>

J == INSTANCE IdbFile WITH
       IsDb <- FALSE, Byte <- Nat, Chunks <- {}, PageSize <- 1, HeaderLimit <- 1,
       Radix <- 10, MaxSize <- MaxJournal, PageFaults <- FALSE, KeyFaults <- FALSE,
       BufferedPages <- FALSE, TruncatesJournal <- TRUE,
       page <- j_page, size_key <- j_key, is_open <- j_open, file_size <- j_size,
       is_dirty <- j_dirty, journal_data <- j_data

noSync   == pragma.synchronous = "OFF"
fullSync == pragma.synchronous = "FULL"

Writing == {"WRITER_LOCKED", "WRITER_CACHEMOD", "WRITER_DBMOD"}

-----------------------------------------------------------------------------
(* What the files hold.                                                    *)

Live == D!Contents(db_size)

JournalExists == j_key # NoFile

\* What a handle opened on a file would read.
StoredJournal == IF JournalExists THEN J!LoadedPage(j_key) ELSE << >>

StoredDb == D!Contents(D!StoredSize)

-----------------------------------------------------------------------------
(* The VFS calls of each function, in their order.                         *)

OpenJ          == [op |-> "open_journal"]
WriteJ(at, data) == [op |-> "write_journal", at |-> at, data |-> data]
CheckJ(at)     == [op |-> "check_next_header", at |-> at]
SyncJ          == [op |-> "sync_journal"]
ReadJ          == [op |-> "read_journal"]
TruncateJ      == [op |-> "truncate_journal"]
CloseJ         == [op |-> "close_journal"]
DeleteJ        == [op |-> "delete_journal"]
WriteD(todo, committing) == [op |-> "write_db", todo |-> todo, committing |-> committing]
TruncateD(n)   == [op |-> "truncate_db", pages |-> n]
SyncD          == [op |-> "sync_db"]
Reader         == [op |-> "reader"]
Unlock(answer) == [op |-> "unlock", answer |-> answer]

When(condition, list) == IF condition THEN list ELSE << >>

Header(orig) == <<IF noSync THEN Magic(AllRecs) ELSE 0, orig, txs>>

\* Mutant: nRec is not synced.
SyncJournalOnce(count, hdr, end, newHdr) ==
    When(~noSync,
         When(fullSync, <<SyncJ>>) \o <<WriteJ(hdr, <<Magic(count)>>)>>
           \o When(newHdr, <<WriteJ(end, Header(dbOrigSize))>>))

\* syncJournal, for count records after the header at hdr, up to end.
SyncJournal(count, hdr, end, newHdr) ==
    When(~noSync,
         <<CheckJ(end)>> \o When(fullSync, <<SyncJ>>)
           \o <<WriteJ(hdr, <<Magic(count)>>), SyncJ>>
           \o When(newHdr, <<WriteJ(end, Header(dbOrigSize))>>))

\* Mutant: the journal is finalized before the database is synced.
SyncDbLate(finalize) == finalize \o When(~noSync, <<SyncD>>)

\* sqlite3PagerSync, then pager_end_transaction.
SyncDb(finalize) == When(~noSync, <<SyncD>>) \o finalize

\* pager_end_transaction; zeroJournalHdr.
EndTransaction ==
    CASE pragma.journal_mode = "DELETE" -> <<CloseJ, DeleteJ>>
      [] pragma.journal_mode = "PERSIST" ->
           <<WriteJ(0, <<0, 0, 0>>)>> \o When(~noSync, <<SyncJ>>)
      [] pragma.journal_mode = "TRUNCATE" -> <<TruncateJ>> \o When(fullSync, <<SyncJ>>)

\* pager_write_pagelist: the pages to write, by their numbers.
Pagelist(pages, content) == [p \in pages |-> [pgno |-> p, cell |-> content[p]]]

\* The pages that pager_playback writes, by the places of their records.
Rewrites(data, places) == [at \in places |-> [pgno |-> data[at + 1], cell |-> data[at + 2]]]

\* pager_playback of data: once a page may have been written to the file, the
\* synced records go there too.  Without a first header journalOff stays 0, and
\* only journal_mode=DELETE finalizes the journal.
Playback(data, open, touched) ==
    LET synced == {at \in Played(data, open) :
                     open = NoHeader \/ noSync \/ at + Sector <= journalHdr}
    IN  IF ~HasHeader(data, 0, open)
        THEN SyncDb(When(pragma.journal_mode = "DELETE", EndTransaction))
        ELSE IF ~touched THEN EndTransaction
        ELSE <<TruncateD(data[2])>>
               \o When(synced # {}, <<WriteD(Rewrites(data, synced), FALSE)>>)
               \o SyncDb(EndTransaction)

-----------------------------------------------------------------------------

Init == /\ D!Init /\ J!Init /\ pragma \in Pragmas
        /\ eState = "OPEN" /\ image = << >> /\ dirty = {} /\ need_sync = {}
        /\ pInJournal = {} /\ nRec = 0 /\ journalOff = 0 /\ journalHdr = 0
        /\ dbOrigSize = 0 /\ calls = << >> /\ txs = 0
        /\ before = << >> /\ recovered = << >> /\ reply = "none"

Idle == calls = << >>

\* sqlite3_open_v2 and the PRAGMAs after it; sqlite3_close.  The connections
\* to a database need not choose the same modes.
Connect == /\ Idle /\ D!Open /\ pragma' \in Pragmas
           /\ UNCHANGED <<J_vars, eState, cache, jrnl, calls, txs, before, reply>>

Disconnect ==
    /\ Idle /\ eState = "OPEN" /\ D!Close
    /\ image' = << >> /\ reply' = "none"
    /\ UNCHANGED <<J_vars, eState, dirty, need_sync, jrnl, calls, txs, before>>

\* Mutant: a journal is never hot.
SharedLockBlind ==
    /\ Idle /\ db_open /\ eState = "OPEN"
    /\ calls' = <<Reader>>
    /\ UNCHANGED <<D_vars, J_vars, rc, eState, cache, jrnl, txs, before, reply>>

\* sqlite3PagerSharedLock; hasHotJournal deletes the journal of an empty database.
SharedLock ==
    /\ Idle /\ db_open /\ eState = "OPEN"
    /\ calls' = When(JournalExists /\ db_size = 0, <<DeleteJ>>)
                  \o When(IsHot(db_size, StoredJournal), <<OpenJ>> \o When(~noSync, <<SyncJ>>) \o <<ReadJ>>)
                  \o <<Reader>>
    /\ UNCHANGED <<D_vars, J_vars, rc, eState, cache, jrnl, txs, before, reply>>

\* The end of a read transaction: pager_unlock.
EndRead == /\ Idle /\ eState = "READER"
           /\ calls' = <<Unlock(reply)>>
           /\ UNCHANGED <<D_vars, J_vars, rc, eState, cache, jrnl, txs, before, reply>>

\* sqlite3PagerBegin
Begin == /\ Idle /\ eState = "READER" /\ txs < MaxTx
         /\ eState' = "WRITER_LOCKED" /\ txs' = txs + 1
         /\ dbOrigSize' = Len(image) /\ journalOff' = 0
         /\ before' = image /\ reply' = "none"
         /\ UNCHANGED <<D_vars, J_vars, rc, cache, pInJournal, nRec, journalHdr, calls>>

\* Mutant: only the first page is journalled.
MustJournalOnlyFirst(p) == p <= dbOrigSize /\ pInJournal = {}

\* pagerAddPageToRollbackJournal, for a page that is to be written.
MustJournal(p) == p <= dbOrigSize /\ p \notin pInJournal

\* sqlite3PagerWrite by the b-tree, and pager_open_journal before the first.
Write(p) ==
    /\ Idle /\ eState \in Writing
    /\ p <= Len(image) + 1 /\ p <= MaxPages
    /\ LET opens  == eState = "WRITER_LOCKED"
           at     == IF opens THEN Sector ELSE journalOff
       IN  /\ calls' = When(opens /\ ~j_open, <<OpenJ>>)
                         \o When(opens, <<WriteJ(0, Header(dbOrigSize))>>)
                         \o When(MustJournal(p), <<WriteJ(at, Record(p, image[p], txs))>>)
           /\ journalOff' = IF MustJournal(p) THEN at + Sector ELSE at
           /\ nRec' = IF MustJournal(p) THEN nRec + 1 ELSE nRec
           /\ eState' = IF opens THEN "WRITER_CACHEMOD" ELSE eState
    /\ pInJournal' = IF MustJournal(p) THEN pInJournal \cup {p} ELSE pInJournal
    /\ need_sync' = IF MustJournal(p) \/ (p > dbOrigSize /\ eState # "WRITER_DBMOD")
                    THEN need_sync \cup {p} ELSE need_sync
    /\ image' = IF p > Len(image) THEN Append(image, IF p = 1 THEN 0 ELSE txs)
                ELSE [image EXCEPT ![p] = IF p = 1 THEN @ ELSE txs]
    /\ dirty' = dirty \cup {p}
    /\ UNCHANGED <<D_vars, J_vars, rc, journalHdr, dbOrigSize, txs, before, reply>>

\* pagerStress makes a page clean that the b-tree does not hold (it always
\* holds page 1).
Spill(p) ==
    /\ Spills /\ Idle /\ eState \in {"WRITER_CACHEMOD", "WRITER_DBMOD"}
    /\ p \in dirty \ {1}
    /\ LET syncs == p \in need_sync \/ eState = "WRITER_CACHEMOD"
           newHdr == syncs /\ ~noSync
       IN  /\ newHdr => journalOff + Sector * (MaxPages + 1) <= MaxJournal
           /\ calls' = When(syncs, SyncJournal(nRec, journalHdr, journalOff, TRUE))
                         \o <<WriteD(Pagelist({p}, image), FALSE)>>
           /\ journalHdr' = IF newHdr THEN journalOff ELSE journalHdr
           /\ journalOff' = IF newHdr THEN journalOff + Sector ELSE journalOff
           /\ nRec' = IF newHdr THEN 0 ELSE nRec
           /\ need_sync' = IF syncs THEN {} ELSE need_sync
    /\ eState' = "WRITER_DBMOD" /\ dirty' = dirty \ {p}
    /\ UNCHANGED <<D_vars, J_vars, rc, image, pInJournal, dbOrigSize, txs, before, reply>>

\* sqlite3PagerCommitPhaseOne and sqlite3PagerCommitPhaseTwo.
CommitUnchanged ==
    /\ Idle /\ eState = "WRITER_LOCKED"
    /\ calls' = <<Unlock("OK")>>
    /\ UNCHANGED <<D_vars, J_vars, rc, eState, cache, jrnl, txs, before, reply>>

Commit ==
    /\ Idle /\ eState \in {"WRITER_CACHEMOD", "WRITER_DBMOD"}
    /\ LET count == IF MustJournal(1) THEN nRec + 1 ELSE nRec
           end   == IF MustJournal(1) THEN journalOff + Sector ELSE journalOff
           final == [image EXCEPT ![1] = @ + 1]
       IN  /\ calls' = When(MustJournal(1), <<WriteJ(journalOff, Record(1, image[1], txs))>>)
                         \o SyncJournal(count, journalHdr, end, FALSE)
                         \o <<WriteD(Pagelist(dirty \cup {1}, final), TRUE)>>
                         \o SyncDb(EndTransaction) \o <<Unlock("OK")>>
           /\ image' = final
           /\ journalOff' = end /\ journalHdr' = (IF noSync THEN journalHdr ELSE end)
           /\ nRec' = count
    /\ pInJournal' = pInJournal \cup ({1} \cap 1..dbOrigSize)
    /\ eState' = "WRITER_DBMOD" /\ dirty' = dirty \cup {1} /\ need_sync' = {}
    /\ UNCHANGED <<D_vars, J_vars, rc, dbOrigSize, txs, before, reply>>

\* Mutant: the pages stay PGHDR_NEED_SYNC.
StartRollbackUnclean(answer) ==
    /\ calls' = Playback(j_data, journalHdr, eState = "WRITER_DBMOD") \o <<Unlock(answer)>>
    /\ image' = Restored(image, dbOrigSize, j_data, Played(j_data, journalHdr))
    /\ dirty' = {} /\ UNCHANGED need_sync

\* sqlite3PagerRollback: the cached pages come from the journal as well.
StartRollback(answer) ==
    /\ calls' = Playback(j_data, journalHdr, eState = "WRITER_DBMOD") \o <<Unlock(answer)>>
    /\ image' = Restored(image, dbOrigSize, j_data, Played(j_data, journalHdr))
    /\ dirty' = {} /\ need_sync' = {}

RollbackUnchanged ==
    /\ Idle /\ eState = "WRITER_LOCKED"
    /\ calls' = <<Unlock("none")>>
    /\ UNCHANGED <<D_vars, J_vars, rc, eState, cache, jrnl, txs, before, reply>>

Rollback ==
    /\ Idle /\ eState \in {"WRITER_CACHEMOD", "WRITER_DBMOD"}
    /\ StartRollback("none")
    /\ UNCHANGED <<D_vars, J_vars, rc, eState, jrnl, txs, before, reply>>
-----------------------------------------------------------------------------
(* The VFS calls, one by one.                                              *)

Now(op) == calls # << >> /\ Head(calls).op = op

Continue == calls' = Tail(calls)

\* write_db: the place of the next page to write, and the page; the call list
\* keeps the pages that are left.
NextToWrite == CHOOSE k \in DOMAIN Head(calls).todo :
                 \A n \in DOMAIN Head(calls).todo : k <= n
PageToWrite == Head(calls).todo[NextToWrite]

ContinueWriting ==
    LET left == DOMAIN Head(calls).todo \ {NextToWrite}
    IN  calls' = When(left # {}, <<WriteD([k \in left |-> Head(calls).todo[k]],
                                          Head(calls).committing)>>) \o Tail(calls)

PagerUnchanged == UNCHANGED <<eState, cache, jrnl, txs, before, reply>>

\* pager_error, then the unlock that drops the cache: a journal that was synced
\* stays, and is hot.
Fail == /\ calls' = <<Unlock(IF eState \in Writing THEN "ERROR" ELSE reply)>>
        /\ eState' = "ERROR" /\ image' = << >> /\ dirty' = {} /\ need_sync' = {}
        /\ UNCHANGED <<jrnl, txs, before, reply>>

\* A journal that is there from the last transaction may hold a header right
\* after the records of this one.
StaleHeader(at) == at < Len(j_data) /\ IsMagic(j_data[at + 1])

CallJournal ==
    /\ \/ Now("open_journal") /\ J!Open
       \/ Now("write_journal") /\ J!WriteJournal(Head(calls).data, Head(calls).at)
       \/ /\ Now("check_next_header")
          /\ IF StaleHeader(Head(calls).at) THEN J!WriteJournal(<<0>>, Head(calls).at)
             ELSE UNCHANGED <<J_vars, rc>>
       \/ Now("sync_journal") /\ J!Sync
       \/ Now("truncate_journal") /\ J!Truncate(0)
       \/ Now("close_journal") /\ J!Close
       \/ Now("delete_journal") /\ J!Delete
    /\ Continue /\ PagerUnchanged /\ UNCHANGED D_vars

\* xDelete does not find a journal that was never synced.
DeleteJournalFails ==
    /\ Now("delete_journal") /\ J!DeleteFails
    /\ Fail /\ UNCHANGED D_vars

\* Does a playback of a hot journal get to a header with nRec > 0?
CountsRecords(data) ==
    \E hdr \in 0 .. Len(data) :
      /\ \A at \in 0..hdr : at % Sector = 0 =>
            /\ HasHeader(data, at, NoHeader)
            /\ at < hdr => RecordCount(data, at, NoHeader) = 0
      /\ hdr % Sector = 0 /\ RecordCount(data, hdr, NoHeader) > 0

\* pager_playback of a hot journal reads it, and empties the cache before it
\* looks at the first record that a header counts.
ReadHotJournal ==
    /\ Now("read_journal") /\ J!Read(1, 0)
    /\ calls' = Playback(j_data', NoHeader, TRUE) \o Tail(calls)
    /\ image' = IF CountsRecords(j_data') THEN << >> ELSE image
    /\ UNCHANGED <<D_vars, eState, dirty, need_sync, jrnl, txs, before, reply>>

\* pager_truncate: the file is never smaller than that.
Shrink(pages) == IF db_size > pages THEN D!Truncate(pages) ELSE UNCHANGED <<D_vars, rc>>

CallDatabase ==
    /\ \/ /\ Now("write_db") /\ D!WriteDb(<<PageToWrite.cell>>, PageToWrite.pgno - 1)
          /\ ContinueWriting
       \/ Now("truncate_db") /\ Shrink(Head(calls).pages) /\ Continue
       \/ Now("sync_db") /\ D!Sync /\ Continue
    /\ PagerUnchanged /\ UNCHANGED J_vars

\* A failed COMMIT is rolled back (sqlite3RollbackAll); a failed spill or
\* playback is an error of the pager.
WriteDatabaseFails ==
    /\ Now("write_db") /\ D!WriteDbFails(<<PageToWrite.cell>>, PageToWrite.pgno - 1)
    /\ IF Head(calls).committing
       THEN StartRollback("ERROR") /\ UNCHANGED <<eState, jrnl, txs, before, reply>>
       ELSE Fail
    /\ UNCHANGED J_vars

\* The cache stays if the change counter is the one it was read with.
BecomeReader ==
    /\ Now("reader") /\ Continue
    /\ eState' = "READER"
    /\ image' = IF image = << >> \/ Live = << >> \/ Live[1] # image[1] THEN Live ELSE image
    /\ UNCHANGED <<D_vars, J_vars, rc, dirty, need_sync, jrnl, txs, before, reply>>

\* pager_unlock
UnlockPager ==
    /\ Now("unlock") /\ Continue
    /\ IF j_open THEN J!Close ELSE UNCHANGED <<J_vars, rc>>
    /\ eState' = "OPEN" /\ reply' = Head(calls).answer
    /\ dirty' = {} /\ need_sync' = {} /\ pInJournal' = {}
    /\ nRec' = 0 /\ journalOff' = 0 /\ journalHdr' = 0 /\ dbOrigSize' = 0
    /\ UNCHANGED <<D_vars, image, txs, before>>

-----------------------------------------------------------------------------
(* The process is killed: both handles and the pager are gone.             *)

PagerLost ==
    /\ Kills /\ db_open
    /\ D!HandleLost /\ J!HandleLost
    /\ eState' = "OPEN" /\ image' = << >> /\ dirty' = {} /\ need_sync' = {}
    /\ pInJournal' = {} /\ nRec' = 0 /\ journalOff' = 0 /\ journalHdr' = 0
    /\ dbOrigSize' = 0 /\ calls' = << >> /\ before' = << >> /\ reply' = "none"
    /\ UNCHANGED txs

Killed == PagerLost /\ UNCHANGED disk

KilledInWrite ==
    /\ Now("write_db") /\ PagerLost
    /\ D!KilledInWrite(<<PageToWrite.cell>>, PageToWrite.pgno - 1)
    /\ UNCHANGED <<j_page, j_key>>

\* Between the store of the journal and that of its file_size.
KilledInSync ==
    /\ Now("sync_journal") /\ j_data # << >> /\ PagerLost
    /\ j_page' = J!PutPage(0, j_data)
    /\ UNCHANGED <<db_page, db_key, j_key>>

KilledInDelete ==
    /\ Now("delete_journal") /\ PagerLost /\ J!KilledInDelete
    /\ UNCHANGED <<db_page, db_key>>

\* Inside a store, between its fopen(.., "w") and its fclose: of a journal, of
\* one that is hot already, of file_size.
KilledInStore ==
    /\ PagerLost
    /\ \/ /\ Now("sync_journal") /\ J!KilledInSync
          /\ (IF IsHot(1, StoredJournal) THEN "hot_journal" ELSE "journal") \in TornStores
          /\ UNCHANGED <<db_page, db_key>>
       \/ /\ Now("sync_db") /\ "file_size" \in TornStores /\ D!KilledInSync
          /\ UNCHANGED <<j_page, j_key>>

-----------------------------------------------------------------------------

Call == \/ CallJournal \/ DeleteJournalFails \/ ReadHotJournal
        \/ CallDatabase \/ WriteDatabaseFails \/ BecomeReader \/ UnlockPager

Kill == Killed \/ KilledInWrite \/ KilledInSync \/ KilledInDelete \/ KilledInStore

Step == \/ Disconnect \/ SharedLock \/ EndRead \/ Begin
        \/ \E p \in 1..MaxPages : Write(p) \/ Spill(p)
        \/ CommitUnchanged \/ Commit \/ RollbackUnchanged \/ Rollback
        \/ Call \/ Kill

Next == /\ Connect \/ (Step /\ UNCHANGED pragma)
        /\ recovered' = Recovery(StoredDb', StoredJournal')

Spec == Init /\ [][Next]_vars

-----------------------------------------------------------------------------

\* The variables hold what struct Pager can, and assert_pager_state holds: a
\* transaction that has written has its journal open, and only journals pages
\* the database had.
TypeOK ==
    /\ eState \in Writing \cup {"OPEN", "READER", "ERROR"}
    /\ image \in Seq(Nat) /\ Len(image) <= MaxPages
    /\ dirty \subseteq DOMAIN image /\ need_sync \subseteq dirty
    /\ pInJournal \subseteq 1..dbOrigSize
    /\ journalHdr <= journalOff /\ journalOff <= MaxJournal
    /\ reply \in {"none", "OK", "ERROR"}
    /\ Idle => (eState \in {"WRITER_CACHEMOD", "WRITER_DBMOD"} => j_open)

\* pager.c, invariant (1): a page of the database file is overwritten only if
\* a process that opens the files now would find its original, as it was when
\* the transaction began, in the journal, or if there was no such page.
OverwrittenOnlyWhenJournaled ==
    [][\A p \in 1..Len(before) :
         CallDatabase /\ Now("write_db") /\ PageToWrite.pgno = p
         => /\ IsHot(Len(before), StoredJournal)
            /\ \E at \in Played(StoredJournal, NoHeader) :
                  StoredJournal[at + 1] = p /\ StoredJournal[at + 2] = before[p]]_vars

Tx == IF eState \in Writing /\ ~Now("unlock") THEN image ELSE NoTx

\* Whatever call the process is killed in and whatever write fails, recovery
\* finds the database of the last commit, or the one before it, and nothing
\* else; of the kills inside a store, with those that TornStores allows.
Transaction == INSTANCE Transactions WITH Image <- Seq(Nat), db <- recovered, tx <- Tx
Atomic == Transaction!Spec

\* A statement that reads sees what is committed: neither the cache nor
\* file_size of the handle keeps anything of a transaction that is gone.
ReadsWhatIsCommitted == Idle /\ eState = "READER" => image = recovered /\ Live = recovered

\* A transaction that was answered SQLITE_OK is in the files, and one that was
\* answered an error has left nothing there.
AnswersAreTrue ==
    /\ reply = "OK" /\ eState # "READER" => recovered = image
    /\ reply = "ERROR" => recovered = before

\* Nothing failed, so no COMMIT answers an error.
CommitAnswersOk == reply # "ERROR"
=============================================================================
