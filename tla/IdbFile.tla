------------------------------ MODULE IdbFile ------------------------------
(***************************************************************************)
(* One SQLite file as idbvfs stores it: a directory that holds one regular *)
(* file per page ("0", "1", ...) and a regular file "file_size" with the   *)
(* size in decimal digits; and the handle SQLite has open on it (IdbFile). *)
(*                                                                         *)
(* With IsDb the file is a database: every xWrite stores one page at once. *)
(* Otherwise it is a journal: xWrite fills journal_data, which xSync       *)
(* stores as page "0".                                                     *)
(*                                                                         *)
(* The client of Next is SQLite's pager on a single connection: it writes  *)
(* whole aligned pages of a database, deletes only closed files, and       *)
(* writes to a journal that already exists only after having read it (that *)
(* it may also write to one before is in Pager).                           *)
(* The process may be killed between two calls and inside any of them.     *)
(***************************************************************************)
EXTENDS Integers, Sequences

CONSTANTS
    IsDb,             \* is_db: MAIN_DB or TEMP_DB was in the xOpen flags
    Byte,             \* values of a byte; 0 is the one vector::resize writes
    Chunks,           \* the byte strings the client writes
    PageSize,         \* SQLite's page size
    HeaderLimit,      \* 512 in readDb: a read that ends below it is in page 0
    Radix,            \* base of std::to_string(file_size)
    MaxSize,          \* bound on the size of the file
    PageFaults,       \* may storing a page fail or be short?
    KeyFaults,        \* may storing "file_size" fail or be short?
    BufferedPages,    \* does stdio hold a whole page until its fclose?
    TruncatesJournal, \* journal_mode=TRUNCATE: commits with xTruncate(0)
    NoFile,           \* size_key: there is no "file_size"
    Unknown           \* a cell of a read buffer that nothing was copied to

ASSUME FlagsAssumption ==
    {IsDb, PageFaults, KeyFaults, BufferedPages, TruncatesJournal} \subseteq BOOLEAN

ASSUME SizesAssumption ==
    /\ PageSize \in Nat \ {0} /\ HeaderLimit \in 1..PageSize
    /\ MaxSize \in Nat /\ Radix \in Nat \ {0, 1}

ASSUME BytesAssumption ==
    /\ 0 \in Byte /\ Unknown \notin Byte
    /\ Chunks \subseteq Seq(Byte) \ {<< >>}
    /\ NoFile \notin Nat /\ NoFile \notin Seq(Byte \cup {Unknown})

VARIABLES
    page,          \* contents of the page files, by number
    size_key,      \* the number "file_size" reads as, or NoFile
    is_open,       \* is there a handle?
    file_size,     \* IdbFileSize::file_size of the handle
    is_dirty,      \* IdbFileSize::is_dirty of the handle
    journal_data,  \* IdbFile::journal_data of the handle
    rc             \* what the last call returned

disk   == <<page, size_key>>
handle == <<is_open, file_size, is_dirty, journal_data>>
vars   == <<disk, handle, rc>>

Pages == 0 .. MaxSize

ResultCode == {"OK", "IOERR_READ", "IOERR_SHORT_READ", "IOERR_WRITE",
               "IOERR_FSYNC", "IOERR_DELETE"}

-----------------------------------------------------------------------------
(* IdbPage and IdbFileSize                                                 *)

\* IdbPage::store, having written every byte.
PutPage(p, data) ==
    [q \in DOMAIN page \cup {p} |-> IF q = p THEN data ELSE page[q]]

\* IdbPage::store, cut short: by a full disk, or by the end of the process
\* between the fopen(.., "w") that empties the file and the fclose.
ShortPages(p, data) ==
    {PutPage(p, SubSeq(data, 1, k)) : k \in 0 .. Len(data) - 1}

\* The numbers the first digits of to_string(n) make, all digits excepted.
LeadingDigits(n) ==
    LET lead[m \in Nat] ==
          IF m < Radix THEN {} ELSE {m \div Radix} \cup lead[m \div Radix]
    IN  lead[n] \cap 1..n

\* page.load_into(journal_data, size): resize fills with zeros, then fread.
LoadedPage(size) ==
    [i \in 1..size |->
        IF 0 \in DOMAIN page /\ i <= Len(page[0]) THEN page[0][i] ELSE 0]

\* page.load_into(p, n, offset): the cells that fread fills.
PageCells(p, n, offset) ==
    [i \in 1..n |-> IF p \in DOMAIN page /\ offset + i <= Len(page[p])
                    THEN page[p][offset + i] ELSE Unknown]

-----------------------------------------------------------------------------
(* What a caller of the VFS sees                                           *)

Reply(code, cells) == [code |-> code, cells |-> cells]

Blank(n) == [i \in 1..n |-> Unknown]

ReadPage(p, n, offset) ==
    LET cells == PageCells(p, n, offset)
    IN  Reply(IF \E i \in 1..n : cells[i] = Unknown THEN "IOERR_SHORT_READ" ELSE "OK",
              cells)

\* Mutant: the header fields are read from the start of the page.
ReadDbFromStart(n, ofs) ==
    IF ofs + n < HeaderLimit THEN ReadPage(0, n, 0)
    ELSE IF ofs % n # 0 THEN Reply("IOERR_READ", Blank(n))
    ELSE ReadPage(ofs \div n, n, 0)

ReadDb(n, ofs) ==
    IF ofs + n < HeaderLimit THEN ReadPage(0, n, ofs)
    ELSE IF ofs % n # 0 THEN Reply("IOERR_READ", Blank(n))
    ELSE ReadPage(ofs \div n, n, 0)

LoadedJournal ==
    IF journal_data = << >> /\ file_size > 0 THEN LoadedPage(file_size) ELSE journal_data

ReadJournal(n, ofs) ==
    IF ofs + n > Len(LoadedJournal)
    THEN Reply("IOERR_SHORT_READ", Blank(n))
    ELSE Reply("OK", SubSeq(LoadedJournal, ofs + 1, ofs + n))

XRead(n, ofs) == IF IsDb THEN ReadDb(n, ofs) ELSE ReadJournal(n, ofs)

XFileSize == IF journal_data # << >> THEN Len(journal_data) ELSE file_size

-----------------------------------------------------------------------------

Init == /\ page = [p \in {} |-> << >>] /\ size_key = NoFile
        /\ is_open = FALSE /\ file_size = 0 /\ is_dirty = FALSE
        /\ journal_data = << >> /\ rc = "OK"

\* Mutant: load without the case of a missing "file_size".
StoredSizeUnchecked == size_key

\* IdbFileSize::load: a missing "file_size" leaves file_size as it was, 0.
StoredSize == IF size_key = NoFile THEN 0 ELSE size_key

Open == /\ ~is_open
        /\ is_open' = TRUE
        /\ file_size' = StoredSize
        /\ is_dirty' = FALSE /\ journal_data' = << >>
        /\ rc' = "OK"
        /\ UNCHANGED disk

\* The reads SQLite makes: header fields, whole pages, journal records.
ReadsOf(n, ofs) == IsDb => ofs + n < HeaderLimit \/ (n = PageSize /\ ofs % n = 0)

Read(n, ofs) ==
    /\ is_open /\ ReadsOf(n, ofs)
    /\ rc' = XRead(n, ofs).code
    /\ journal_data' = IF IsDb THEN journal_data ELSE LoadedJournal
    /\ UNCHANGED <<disk, is_open, file_size, is_dirty>>

\* Mutant: set takes the size for unchanged after a set to the same size.
SetSizeForgets(n) == file_size' = n /\ is_dirty' = (n # file_size)

\* IdbFileSize::set and update_if_greater.
SetSize(n) == file_size' = n /\ is_dirty' = (is_dirty \/ n # file_size)

\* Mutants: update that shrinks, and update that does not mark the size dirty.
UpdateAlways(n) == SetSize(n)

UpdateKeepsClean(n) ==
    file_size' = (IF n > file_size THEN n ELSE file_size) /\ is_dirty' = is_dirty

UpdateIfGreater(n) == SetSize(IF n > file_size THEN n ELSE file_size)

Aligned(data, ofs) == ofs % Len(data) = 0

\* Mutant: the number of the page after the one written.
WriteDbNextPage(data, ofs) ==
    /\ IsDb /\ is_open /\ Aligned(data, ofs) /\ ofs + Len(data) <= MaxSize
    /\ page' = PutPage((ofs + Len(data)) \div Len(data), data)
    /\ UpdateIfGreater(ofs + Len(data))
    /\ rc' = "OK"
    /\ UNCHANGED <<size_key, is_open, journal_data>>

WriteDb(data, ofs) ==
    /\ IsDb /\ is_open /\ Aligned(data, ofs) /\ ofs + Len(data) <= MaxSize
    /\ page' = PutPage(ofs \div Len(data), data)
    /\ UpdateIfGreater(ofs + Len(data))
    /\ rc' = "OK"
    /\ UNCHANGED <<size_key, is_open, journal_data>>

\* stored_bytes < iAmt: fopen fails, or a fwrite that stdio does not buffer.
WriteDbFails(data, ofs) ==
    /\ PageFaults
    /\ IsDb /\ is_open /\ Aligned(data, ofs) /\ ofs + Len(data) <= MaxSize
    /\ page' \in {page} \cup (IF BufferedPages THEN {} ELSE ShortPages(ofs \div Len(data), data))
    /\ rc' = "IOERR_WRITE"
    /\ UNCHANGED <<size_key, handle>>

\* A buffered page reaches the disk, or does not, in the fclose of
\* IdbPage::store, whose result is not looked at.
WriteDbUnnoticed(data, ofs) ==
    /\ PageFaults /\ BufferedPages
    /\ IsDb /\ is_open /\ Aligned(data, ofs) /\ ofs + Len(data) <= MaxSize
    /\ page' \in ShortPages(ofs \div Len(data), data)
    /\ UpdateIfGreater(ofs + Len(data))
    /\ rc' = "OK"
    /\ UNCHANGED <<size_key, is_open, journal_data>>

\* Mutant: resize also when the journal is longer than the write.
OverwrittenAndCut(old, data, ofs) ==
    [i \in 1 .. ofs + Len(data) |->
        IF i > ofs THEN data[i - ofs] ELSE IF i <= Len(old) THEN old[i] ELSE 0]

\* journal_data.resize, then memcpy: a journal that exists and was not read
\* starts from nothing.
Overwritten(old, data, ofs) ==
    LET end == ofs + Len(data)
    IN  [i \in 1..(IF end > Len(old) THEN end ELSE Len(old)) |->
            IF i \in ofs+1 .. end THEN data[i - ofs]
            ELSE IF i <= Len(old) THEN old[i] ELSE 0]

WriteJournal(data, ofs) ==
    /\ ~IsDb /\ is_open /\ ofs + Len(data) <= MaxSize
    /\ journal_data' = Overwritten(journal_data, data, ofs)
    /\ rc' = "OK"
    /\ UNCHANGED <<disk, is_open, file_size, is_dirty>>

Truncate(size) ==
    /\ is_open /\ (IsDb \/ (TruncatesJournal /\ size = 0))
    /\ SetSize(size)
    /\ rc' = "OK"
    /\ UNCHANGED <<disk, is_open, journal_data>>

-----------------------------------------------------------------------------
(* xSync: page "0" of a journal, then "file_size".                         *)

\* Mutant: a journal that has been stored is not stored again.
StoreJournalOnce ==
    IF journal_data = << >> \/ size_key # NoFile THEN page' = page
    ELSE page' = PutPage(0, journal_data)

\* The result of the first store is not looked at.
StoreJournal ==
    IF journal_data = << >> THEN page' = page
    ELSE \/ page' = PutPage(0, journal_data)
         \/ PageFaults /\ page' \in ShortPages(0, journal_data) \cup {page}

\* IdbFileSize::sync: only a fopen that fails is an error, because stdio
\* holds the digits until the fclose.
StoreSize ==
    IF ~is_dirty' THEN size_key' = size_key /\ rc' = "OK"
    ELSE \/ size_key' = file_size' /\ rc' = "OK"
         \/ KeyFaults /\ size_key' \in LeadingDigits(file_size') \cup {0} /\ rc' = "OK"
         \/ KeyFaults /\ size_key' = size_key /\ rc' = "IOERR_FSYNC"

Sync == /\ is_open
        /\ StoreJournal
        /\ SetSize(XFileSize)
        /\ StoreSize
        /\ UNCHANGED <<is_open, journal_data>>

Close == /\ is_open /\ is_open' = FALSE
         /\ file_size' = 0 /\ is_dirty' = FALSE /\ journal_data' = << >>
         /\ rc' = "OK"
         /\ UNCHANGED disk

-----------------------------------------------------------------------------
(* xDelete: "file_size", then pages 0, 1, ... up to the first missing one. *)

Unlinkable == {p \in DOMAIN page : 0..p \subseteq DOMAIN page}

WithoutPages(S) == [p \in DOMAIN page \ S |-> page[p]]

Delete == /\ ~is_open /\ size_key # NoFile
          /\ size_key' = NoFile /\ page' = WithoutPages(Unlinkable)
          /\ rc' = "OK"
          /\ UNCHANGED handle

DeleteFails == /\ ~is_open /\ size_key = NoFile
               /\ rc' = "IOERR_DELETE"
               /\ UNCHANGED <<disk, handle>>

-----------------------------------------------------------------------------
(* The process is killed: the handle is gone, the files stay.              *)

HandleLost == /\ is_open' = FALSE /\ file_size' = 0 /\ is_dirty' = FALSE
              /\ journal_data' = << >> /\ rc' = "OK"

Killed == is_open /\ HandleLost /\ UNCHANGED disk

KilledInWrite(data, ofs) ==
    /\ IsDb /\ is_open /\ Aligned(data, ofs) /\ ofs + Len(data) <= MaxSize
    /\ page' \in ShortPages(ofs \div Len(data), data)
    /\ HandleLost /\ UNCHANGED size_key

KilledInSync ==
    /\ is_open /\ HandleLost
    /\ \/ /\ journal_data # << >>
          /\ page' \in ShortPages(0, journal_data) \cup {PutPage(0, journal_data)}
          /\ UNCHANGED size_key
       \/ /\ is_dirty \/ XFileSize # file_size
          /\ page' = IF journal_data = << >> THEN page ELSE PutPage(0, journal_data)
          /\ size_key' \in LeadingDigits(XFileSize) \cup {0}

\* After "file_size", the first n pages are gone, or none.
KilledInDelete ==
    /\ ~is_open /\ size_key # NoFile
    /\ size_key' = NoFile
    /\ \E n \in Pages : page' = WithoutPages({p \in Unlinkable : p < n})
    /\ HandleLost

-----------------------------------------------------------------------------

\* The client has read an existing journal before it writes to it.
HasRead == journal_data # << >> \/ file_size = 0

Next == \/ Open \/ Sync \/ Close \/ Delete \/ DeleteFails
        \/ Killed \/ KilledInSync \/ KilledInDelete
        \/ \E n \in 1..MaxSize, ofs \in 0..MaxSize : Read(n, ofs)
        \/ \E data \in Chunks, ofs \in 0..MaxSize :
             \/ WriteDb(data, ofs) \/ WriteDbFails(data, ofs) \/ WriteDbUnnoticed(data, ofs)
             \/ HasRead /\ WriteJournal(data, ofs)
             \/ KilledInWrite(data, ofs)
        \/ \E size \in 0..MaxSize : Truncate(size)

Spec == Init /\ [][Next]_vars

-----------------------------------------------------------------------------
(* The linear file behind the pages.                                       *)

Contents(size) ==
    IF IsDb THEN [i \in 1..size |->
                    PageCells((i-1) \div PageSize, PageSize, 0)[((i-1) % PageSize) + 1]]
    ELSE LoadedPage(size)

Live == IF is_open THEN (IF journal_data # << >> THEN journal_data ELSE Contents(file_size))
        ELSE NoFile

Saved == IF size_key = NoFile THEN NoFile ELSE Contents(size_key)

\* The handle and the page files together are a file as SQLite expects one:
\* each xWrite, xTruncate, xSync, xDelete and each death of the process has
\* the effect VfsFile allows on what is read now and on what a later xOpen
\* will find.
Contract == INSTANCE VfsFile WITH live <- Live, saved <- Saved
FileContract == Contract!Spec

-----------------------------------------------------------------------------

IsPageFiles(files) ==
    DOMAIN files \subseteq Nat /\ files \in [DOMAIN files -> Seq(Byte)]

\* The variables hold what the C++ types and the page files can hold.
TypeOK ==
    /\ IsPageFiles(page)
    /\ size_key \in Nat \cup {NoFile}
    /\ is_open \in BOOLEAN /\ file_size \in Nat /\ is_dirty \in BOOLEAN
    /\ journal_data \in Seq(Byte) /\ rc \in ResultCode

\* xSync skips "file_size" when the handle is clean (IdbFileSize::sync), so a
\* clean handle must agree with the stored size.  Nothing clears is_dirty
\* before the handle goes, which is what makes this hold after a store of
\* "file_size" that failed or was short.
CleanMeansSaved ==
    is_open /\ ~is_dirty => file_size = StoredSize

\* What makes CleanMeansSaved and SyncOkMeansSaved inductive: only a journal
\* has journal_data.
DbHasNoJournal == IsDb => journal_data = << >>

IInv == TypeOK /\ DbHasNoJournal /\ CleanMeansSaved

\* The reads SQLite makes inside a database return the bytes of the linear
\* file, and report SQLITE_OK only if they found every one of them, though
\* readDb takes the page number from the size of the read (or 0 below 512).
\* (A journal has no other bytes than the ones it reads.)
ReadAgrees ==
    IsDb /\ is_open => \A n \in 1..MaxSize, ofs \in 0..MaxSize :
        LET reply == ReadDb(n, ofs)
            range == SubSeq(Live, ofs + 1, ofs + n)
        IN  ReadsOf(n, ofs) /\ ofs + n <= Len(Live) =>
              reply = Reply(IF \E i \in 1..n : range[i] = Unknown
                            THEN "IOERR_SHORT_READ" ELSE "OK", range)

\* When xSync answers SQLITE_OK, a process that opens the file afterwards
\* finds the bytes and the size the handle had.
SyncOkMeansSaved ==
    [][Sync /\ rc' = "OK" => Saved' = Live' \/ (Saved' = NoFile /\ Live' = << >>)]_vars

\* A write to a database, done or failed, changes no other page: every read,
\* of any page size SQLite uses, that lay outside the range and found its
\* bytes finds the same bytes afterwards (writeDb replaces a page file whole).
WriteLeavesOtherBytes ==
    [][\A data \in Chunks, ofs \in 0..MaxSize :
         WriteDb(data, ofs) \/ WriteDbFails(data, ofs) =>
           \A n \in {Len(c) : c \in Chunks}, at \in 0..MaxSize :
             /\ at % n = 0 /\ (at + n <= ofs \/ ofs + Len(data) <= at)
             /\ ReadDb(n, at).code = "OK"
             => ReadDb(n, at)' = ReadDb(n, at)]_vars

\* A read that answers SQLITE_IOERR_SHORT_READ has filled the cells it did not
\* read with zeros (sqlite3.h).
ShortReadZeroFills ==
    is_open => \A n \in 1..MaxSize, ofs \in 0..MaxSize :
        ReadsOf(n, ofs) /\ XRead(n, ofs).code = "IOERR_SHORT_READ"
        => \A i \in 1..n : XRead(n, ofs).cells[i] # Unknown

\* A write to a database that answers SQLITE_OK is read back as it was written.
WriteOkMeansRead ==
    [][\A data \in Chunks, ofs \in 0..MaxSize :
         WriteDb(data, ofs) \/ WriteDbUnnoticed(data, ofs) =>
           ReadDb(Len(data), ofs)' = Reply("OK", data)]_vars

\* After xTruncate the file has the size asked for.
TruncateSetsSize == [][\A size \in 0..MaxSize : Truncate(size) => XFileSize' = size]_vars
=============================================================================
