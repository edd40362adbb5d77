-------------------------- MODULE PagerInvariant --------------------------
(***************************************************************************)
(* The inductive invariant of Pager: for each function of the pager, the   *)
(* calls it may have left, and what the files, the handles and the cache   *)
(* hold when it has.                                                       *)
(*                                                                         *)
(* A file holds the database base in one of two ways: it is base (Clean),  *)
(* or the journal beside it makes base of it (Hot).                        *)
(***************************************************************************)
EXTENDS Pager, RollbackJournalProofs

\* The modes and kills that the invariant is about; in the others SQLite loses
\* transactions, as the runs that expect a violation show.  A journal is long
\* enough for one record of each page.
Modes ==
    /\ Pragmas \subseteq [journal_mode : {"DELETE", "PERSIST"}, synchronous : {"NORMAL", "FULL"}]
    /\ TornStores \subseteq {"journal"}
    /\ MaxJournal >= Sector * (MaxPages + 1)

-----------------------------------------------------------------------------
(* What the files hold.                                                    *)

\* The cell that the page file of page p begins with, and the number of pages
\* that is stored.
Cells  == [p \in 1..MaxPages |-> D!PageCells(p - 1, 1, 0)[1]]
DbSize == D!StoredSize

\* A journal whose first header is whole.
Valid(s) == HasHeader(s, 0, NoHeader)

\* A journal that no connection would read.
Dead(s) == s = << >> \/ s[1] = 0

\* The page files hold base, these pages excepted.
Same(base, cells, pages) == \A p \in 1..Len(base) : cells[p] = base[p] \/ p \in pages

\* A playback makes base of the files.
Hot(base, cells, size, s) ==
    /\ Valid(s) /\ s[2] = Len(base) /\ Len(base) <= size /\ Sound(s, base)
    /\ Same(base, cells, PlayedPages(s, NoHeader))

\* The database file is base.
Clean(base, cells, size, s) ==
    /\ size = Len(base) /\ Same(base, cells, {})
    /\ Valid(s) => size = 0
    /\ Dead(s) \/ Sound(s, base)

Files(base, cells, size, s) == Hot(base, cells, size, s) \/ Clean(base, cells, size, s)

\* The headers before h of the journal d are stored in s, and of base no other
\* pages are overwritten than those recorded there.
Safe(base, cells, size, s, d, h) ==
    /\ size = Len(base)
    /\ IF h = 0 THEN Same(base, cells, {}) /\ ~Valid(s) /\ (Dead(s) \/ Sound(s, base))
       ELSE /\ h <= Len(s) /\ Sound(s, base) /\ \A i \in 1..h : s[i] = d[i]
            /\ Same(base, cells, Recorded(d, h))

HotNow   == Hot(recovered, Cells, DbSize, StoredJournal)
CleanNow == Clean(recovered, Cells, DbSize, StoredJournal)
FilesInv == Files(recovered, Cells, DbSize, StoredJournal)
ValidNow == Valid(StoredJournal)

-----------------------------------------------------------------------------
(* The types, and what a handle knows of its file.                         *)

TypeInv ==
    /\ recovered \in Seq(Nat) /\ Len(recovered) <= MaxPages
    /\ image \in Seq(Nat) /\ Len(image) <= MaxPages
    /\ before \in Seq(Nat) /\ Len(before) <= MaxPages
    /\ txs \in Nat /\ pragma \in Pragmas
    /\ journalHdr \in Nat /\ journalOff \in Nat /\ nRec \in Nat
    /\ journalHdr <= journalOff /\ journalOff <= MaxJournal
    /\ reply \in {"none", "OK", "ERROR"}

\* A clean handle has the size that is stored.
DbHandle ==
    /\ db_size \in Nat /\ db_dirty \in BOOLEAN /\ db_open \in BOOLEAN /\ DbSize \in Nat
    /\ ~db_open => db_size = 0 /\ ~db_dirty
    /\ db_open /\ ~db_dirty => db_size = DbSize

JournalHandle ==
    /\ j_size \in Nat /\ j_dirty \in BOOLEAN /\ j_open \in BOOLEAN
    /\ j_key \in Nat \cup {NoFile} /\ j_data \in Seq(Nat) /\ StoredJournal \in Seq(Nat)
    /\ ~j_open => j_size = 0 /\ ~j_dirty /\ j_data = << >>
    /\ j_open /\ ~j_dirty => j_size = Len(StoredJournal)

HandlesInv == DbHandle /\ JournalHandle

-----------------------------------------------------------------------------
(* The program points.                                                     *)

\* The call a, and then those of s.
Cons(a, s) == <<a>> \o s

\* What pager_unlock leaves of a transaction.
Forgotten == /\ dirty = {} /\ need_sync = {} /\ pInJournal = {} /\ nRec = 0
             /\ journalOff = 0 /\ journalHdr = 0 /\ dbOrigSize = 0

\* The files are the database, or a hot journal is there to make them so.
Ready == \/ HotNow /\ Len(recovered) <= db_size /\ (db_size = 0 => DbSize = 0)
         \/ CleanNow /\ db_size = DbSize

\* The files are the database, and the handle has their size.
Settled == CleanNow /\ ~ValidNow /\ db_size = DbSize /\ db_open

\* The handle of the journal holds pages of base, if any.
KeepsSound(base) == j_open => Sound(j_data, base)

\* Between two transactions.
OpenInv ==
    /\ eState = "OPEN" /\ Forgotten
    /\ IF db_open THEN Ready ELSE image = << >>
    /\ image \in {<< >>, recovered} /\ (image # << >> => CleanNow /\ ~ValidNow)
    /\ ValidNow => before \in {<< >>, recovered}
    /\ reply = "OK" => image = recovered /\ ~ValidNow /\ CleanNow
    /\ reply = "ERROR" => before = recovered

\* Inside a statement that reads.
ReaderInv ==
    /\ eState = "READER" /\ Forgotten /\ Settled /\ image = recovered
    /\ KeepsSound(recovered)
    /\ reply = "ERROR" => before = recovered

\* Inside a write transaction.
TxInv == /\ eState \in Writing /\ db_open /\ before = recovered
         /\ dbOrigSize = Len(before) /\ txs > 0 /\ reply = "none"

\* A write transaction that has written nothing.
LockedInv == /\ TxInv /\ eState = "WRITER_LOCKED" /\ Settled /\ image = before
             /\ dirty = {} /\ need_sync = {} /\ pInJournal = {} /\ nRec = 0
             /\ journalOff = 0 /\ journalHdr = 0
             /\ KeepsSound(before)

Entry(p) == [pgno |-> p, cell |-> image[p]]

\* The page is in the file as it is in the cache, or it is going to be.
Filed(pages, p) == (p <= db_size /\ Cells[p] = image[p]) \/ Entry(p) \in pages

\* The cache of a transaction that has written: what is not dirty is in the
\* file, and what is not journalled is as it was.
CacheInv(pages) ==
    /\ Len(image) > 0 /\ dbOrigSize <= db_size /\ db_size <= Len(image)
    /\ \A p \in 1..Len(image) : p \notin dirty => Filed(pages, p)
    /\ dirty \subseteq 1..Len(image) /\ need_sync \subseteq dirty
    /\ pInJournal \subseteq 1..dbOrigSize /\ dirty \cap 1..dbOrigSize \subseteq pInJournal
    /\ \A p \in 1..dbOrigSize : p \notin pInJournal => image[p] = before[p]

\* What the pager keeps of the pages.
Books == /\ dirty \subseteq 1..Len(image) /\ need_sync \subseteq dirty
         /\ pInJournal \subseteq 1..dbOrigSize

\* The pages overwritten so far are in the stored journal, before h.
SafeNow(h) == /\ Safe(before, Cells, DbSize, StoredJournal, j_data, h)
              /\ h = 0 => db_size = DbSize

\* The section of the journal at h has n records, and no count yet.
UnsealedAt(h, n, pages) == Unsealed(j_data, before, txs, h, n, pages) /\ SafeNow(h)

\* There is room for a record of each page that has none.
Room == /\ journalOff = journalHdr + Sector * (nRec + 1)
        /\ journalHdr + Sector * (MaxPages + 1) <= MaxJournal
        /\ nRec <= Cardinality(pInJournal)

\* A journalled page that needs no sync is in a sealed section.
Unsynced == pInJournal \ need_sync \subseteq Recorded(j_data, journalHdr)

\* The database is written to only after a section was sealed.
ModeInv == eState = IF journalHdr = 0 THEN "WRITER_CACHEMOD" ELSE "WRITER_DBMOD"

\* Between two writes of a transaction.
WriterInv ==
    /\ TxInv /\ ModeInv /\ j_open /\ CacheInv({}) /\ Room /\ Unsynced
    /\ UnsealedAt(journalHdr, nRec, pInJournal)

\* The first header of a journal, and the record of a page.
FirstHeader == WriteJ(0, Header(dbOrigSize))
OrigRecord(at, p) == WriteJ(at, Record(p, before[p], txs))

\* pager_open_journal
OpeningInv ==
    /\ TxInv /\ ModeInv /\ CacheInv({}) /\ Room /\ journalHdr = 0
    /\ Settled /\ KeepsSound(before)
    /\ \E rest \in {<< >>} \cup {<<OrigRecord(Sector, p)>> : p \in pInJournal} :
       /\ IF rest = << >> THEN nRec = 0 /\ pInJournal = {}
          ELSE nRec = 1 /\ pInJournal \subseteq need_sync /\ \E p \in 1..dbOrigSize :
                 rest = <<OrigRecord(Sector, p)>> /\ pInJournal = {p}
       /\ \/ calls = Cons(OpenJ, Cons(FirstHeader, rest)) /\ ~j_open
          \/ calls = Cons(FirstHeader, rest) /\ j_open

\* pagerAddPageToRollbackJournal
RecordingInv ==
    /\ TxInv /\ ModeInv /\ j_open /\ CacheInv({}) /\ Room /\ Unsynced
    /\ nRec > 0 /\ \E p \in need_sync \cap 1..dbOrigSize, pages \in {pInJournal} \cup {pInJournal \ {q} : q \in pInJournal} :
         /\ calls = <<OrigRecord(journalOff - Sector, p)>>
         /\ pInJournal = pages \cup {p}
         /\ UnsealedAt(journalHdr, nRec - 1, pages)

\* pager_end_transaction, and then z.
FirstEnd == IF pragma.journal_mode = "DELETE" THEN CloseJ ELSE WriteJ(0, <<0, 0, 0>>)
LastEnd  == IF pragma.journal_mode = "DELETE" THEN DeleteJ ELSE SyncJ
Ending(z) == Cons(LastEnd, <<z>>)
Finalize(z) == Cons(FirstEnd, Ending(z))

\* COMMIT and a playback that have those pages to write.
Commits(todo)  == Cons(WriteD(todo, TRUE), Cons(SyncD, Finalize(Unlock("OK"))))
Undoes(todo, z) == Cons(WriteD(todo, FALSE), Cons(SyncD, Finalize(z)))

\* What follows the syncJournal of a COMMIT, and of a spill.
CommitRest == Commits(Pagelist(dirty, image))
SpillRest(p) == Cons(WriteJ(journalHdr, Header(dbOrigSize)), <<WriteD(Pagelist({p}, image), FALSE)>>)

\* What a syncJournal is for: COMMIT, or the spill of a page.
Purpose(rest) ==
    \/ rest = CommitRest /\ CacheInv({}) /\ 1 \in dirty
    \/ \E p \in 1..Len(image) :
         /\ rest = SpillRest(p) /\ CacheInv({Entry(p)})
         /\ journalOff = journalHdr + Sector /\ nRec = 0
         /\ journalHdr + Sector * (MaxPages + 1) <= MaxJournal
         /\ p \in pInJournal \/ p > dbOrigSize

\* The calls of syncJournal, from each of its stages on.
Magics(h, n, rest) == Cons(WriteJ(h, <<Magic(n)>>), Cons(SyncJ, rest))
Syncs(h, n, rest) == IF fullSync THEN Cons(SyncJ, Magics(h, n, rest)) ELSE Magics(h, n, rest)
Checks(h, n, rest) == Cons(CheckJ(journalHdr), Syncs(h, n, rest))

\* Inside a write transaction whose database file may be written to.
TxModified == TxInv /\ eState = "WRITER_DBMOD" /\ j_open

\* What may follow a syncJournal.
Rests == {CommitRest} \cup {SpillRest(p) : p \in 1..Len(image)}

\* The n records after the header at h are to be synced, and then rest.
SyncStage(h, n, rest) ==
    /\ h + Sector * (n + 1) = journalHdr
    /\ \/ /\ n > 0 /\ 1 \in 1..dbOrigSize
          /\ calls = Cons(OrigRecord(journalHdr - Sector, 1), Checks(h, n, rest))
          /\ \E pages \in {pInJournal} \cup {pInJournal \ {q} : q \in pInJournal} :
               UnsealedAt(h, n - 1, pages) /\ pInJournal = pages \cup {1}
       \/ /\ calls \in {Checks(h, n, rest), Syncs(h, n, rest), Magics(h, n, rest)}
          /\ UnsealedAt(h, n, pInJournal)
       \/ /\ calls = Cons(SyncJ, rest)
          /\ Sealed(j_data, before, txs, journalHdr, pInJournal) /\ SafeNow(h)
          /\ Chained(j_data, h) /\ Recorded(j_data, h) \subseteq pInJournal

SyncingInv ==
    /\ TxModified /\ need_sync = {}
    /\ \E rest \in Rests :
         /\ Purpose(rest)
         /\ \/ \E h, n \in 0..journalHdr : SyncStage(h, n, rest)
            \/ /\ calls = rest /\ journalHdr > 0
               /\ Sealed(j_data, before, txs, journalHdr, pInJournal) /\ SafeNow(journalHdr)

\* pagerStress, after syncJournal.
SpillingInv ==
    /\ TxModified /\ Room /\ Unsynced /\ journalHdr > 0
    /\ \E p \in 1..Len(image) :
         /\ calls = <<WriteD(Pagelist({p}, image), FALSE)>> /\ CacheInv({Entry(p)})
         /\ p \in Recorded(j_data, journalHdr) \/ p > dbOrigSize
    /\ UnsealedAt(journalHdr, nRec, pInJournal)

\* The pages that a call still has to write.
Left(todo) == {todo[k] : k \in DOMAIN todo}

\* The pages that the next call has to write.
Todo == IF Now("write_db") THEN Head(calls).todo ELSE << >>

\* COMMIT writes the pages, syncs, and finalizes the journal.
PagesInv(todo) ==
    /\ dbOrigSize <= db_size /\ db_size <= Len(image) /\ Len(image) > 0
    /\ \A p \in 1..Len(image) : Filed(Left(todo), p)

CommittingInv ==
    /\ TxInv /\ Books /\ eState = "WRITER_DBMOD" /\ HotNow /\ PagesInv(Todo)
    /\ LET z == Unlock("OK") IN
       \/ /\ Todo # << >>
          /\ calls = Commits(Todo)
          /\ DOMAIN Todo \subseteq Nat /\ DOMAIN Todo # {}
          /\ \A k \in DOMAIN Todo : \E p \in 1..Len(image) :
               Todo[k] = Entry(p) /\ (p \in pInJournal \/ p > dbOrigSize)
          /\ j_open /\ journalHdr > 0
          /\ Sealed(j_data, before, txs, journalHdr, pInJournal) /\ SafeNow(journalHdr)
       \/ calls = Cons(SyncD, Finalize(z)) /\ j_open /\ Sound(j_data, before)
       \/ calls = Finalize(z) /\ j_open /\ Sound(j_data, before) /\ DbSize = db_size
       \/ /\ calls = Ending(z) /\ DbSize = db_size
          /\ IF pragma.journal_mode = "DELETE" THEN ~j_open ELSE j_open /\ j_data # << >> /\ j_data[1] = 0

-----------------------------------------------------------------------------
(* Playback, of ROLLBACK (z unlocks) or of a hot journal (z is Reader).    *)

\* What a playback ends in: a statement that reads, or the end of a transaction.
EndsRead ==
    /\ eState = "OPEN" /\ Forgotten /\ image \in {<< >>, recovered}
    /\ ValidNow => before \in {<< >>, recovered}
    /\ ValidNow \/ image # recovered => reply # "OK"
    /\ reply = "ERROR" => before = recovered

EndsTx == TxInv /\ Books /\ image = before

Ends(z) == \/ z = Reader /\ EndsRead
           \/ z \in {Unlock("none"), Unlock("ERROR")} /\ EndsTx

\* The page as base has it, and a list of such pages.
Original(base, p) == [pgno |-> p, cell |-> base[p]]

Originals(todo) ==
    /\ DOMAIN todo \subseteq Nat /\ DOMAIN todo # {}
    /\ \A k \in DOMAIN todo : \E p \in PlayedPages(StoredJournal, NoHeader) \cap 1..Len(recovered) :
         todo[k] = Original(recovered, p)
    /\ Same(recovered, Cells, {todo[k].pgno : k \in DOMAIN todo})

UndoInv ==
    \E z \in {Reader, Unlock("none"), Unlock("ERROR")} :
      /\ Ends(z) /\ db_open
      /\ \/ /\ j_open /\ Sound(j_data, recovered) /\ HotNow
            /\ \/ /\ calls = Cons(TruncateD(Len(recovered)), Cons(SyncD, Finalize(z)))
                  /\ Same(recovered, Cells, {}) /\ Len(recovered) <= db_size
               \/ /\ Len(calls) > 1 /\ calls[2].op = "write_db"
                  /\ \E todo \in {calls[2].todo} :
                     /\ calls = Cons(TruncateD(Len(recovered)), Undoes(todo, z))
                     /\ Originals(todo)
                  /\ Len(recovered) <= db_size
               \/ /\ Now("write_db") /\ \E todo \in {Head(calls).todo} :
                     /\ calls = Undoes(todo, z)
                     /\ Originals(todo)
                  /\ Len(recovered) = db_size
         \/ /\ j_open /\ Sound(j_data, recovered)
            /\ db_size = Len(recovered) /\ Same(recovered, Cells, {})
            /\ z = Reader => JournalExists
            /\ \/ calls = Cons(SyncD, Finalize(z))
               \/ calls = Finalize(z) /\ db_size = DbSize
               \/ calls = Cons(SyncD, <<Reader>>) /\ z = Reader /\ ~ValidNow
         \/ /\ calls = Ending(z)
            /\ db_size = Len(recovered) /\ Same(recovered, Cells, {}) /\ db_size = DbSize
            /\ z = Reader => JournalExists
            /\ KeepsSound(recovered)
            /\ IF pragma.journal_mode = "DELETE" THEN ~j_open
               ELSE j_open /\ j_data # << >> /\ j_data[1] = 0
         \/ calls = <<z>> /\ Settled /\ (z = Reader => KeepsSound(recovered))

\* sqlite3PagerSharedLock
SharedLockInv ==
    /\ OpenInv /\ db_open
    /\ \/ calls = Cons(DeleteJ, <<Reader>>) /\ JournalExists /\ db_size = 0 /\ ~j_open
       \/ /\ IsHot(db_size, StoredJournal)
          /\ \/ calls = Cons(OpenJ, Cons(SyncJ, Cons(ReadJ, <<Reader>>))) /\ ~j_open
             \/ /\ calls \in {Cons(SyncJ, Cons(ReadJ, <<Reader>>)), Cons(ReadJ, <<Reader>>)}
                /\ j_open /\ j_data = << >> /\ ~j_dirty

\* An unlock follows.
UnlockInv ==
    \/ calls = <<Unlock(reply)>> /\ ReaderInv
    \/ calls \in {<<Unlock("none")>>, <<Unlock("OK")>>} /\ LockedInv
    \/ /\ calls = <<Unlock("OK")>> /\ eState \in Writing /\ reply = "none" /\ Settled /\ image = recovered
       /\ Books
    \/ /\ calls \in {<<Unlock("none")>>, <<Unlock("ERROR")>>}
       /\ (Now("unlock") /\ Head(calls).answer = "ERROR" => before = recovered)
       /\ eState = "ERROR" /\ db_open /\ Ready /\ image = << >> /\ pInJournal \subseteq 1..dbOrigSize
       /\ dirty = {} /\ need_sync = {}
       /\ ValidNow => before \in {<< >>, recovered}
       /\ reply # "OK" /\ (reply = "ERROR" => before = recovered)

\* Between two functions of the pager.
IdleInv == Idle /\ ((OpenInv /\ ~j_open) \/ ReaderInv \/ LockedInv \/ WriterInv)

Phase == \/ IdleInv \/ OpeningInv \/ RecordingInv \/ SyncingInv \/ SpillingInv
         \/ CommittingInv \/ UndoInv \/ SharedLockInv \/ UnlockInv

-----------------------------------------------------------------------------

\* Whatever the pager is doing, recovery finds the committed database: the pages
\* that the calls left may overwrite are in the stored journal, and between two
\* functions the cache, file_size and the files agree.
Inv == TypeInv /\ HandlesInv /\ FilesInv /\ Phase
=============================================================================
