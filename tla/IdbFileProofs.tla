--------------------------- MODULE IdbFileProofs ---------------------------
(***************************************************************************)
(* Theorems about IdbFile for every page size, set of bytes, bound and     *)
(* combination of faults; then the theorem behind FileContract, that       *)
(* IdbFile implements VfsFile for every history of calls, failures and     *)
(* ends of the process.                                                    *)
(***************************************************************************)
EXTENDS IdbFile, TLAPS

\* IdbPage::store leaves numbered files of bytes.
LEMMA PutPageType ==
    ASSUME IsPageFiles(page),
           NEW p \in Nat, NEW data \in Seq(Byte)
    PROVE  IsPageFiles(PutPage(p, data))
BY DEF PutPage, IsPageFiles

\* A prefix of a page is a string of bytes.
LEMMA PrefixType ==
    ASSUME NEW data \in Seq(Byte), NEW k \in 0 .. Len(data) - 1
    PROVE  SubSeq(data, 1, k) \in Seq(Byte)
OBVIOUS

\* So does a store that was cut short.
LEMMA ShortPagesType ==
    ASSUME IsPageFiles(page),
           NEW p \in Nat, NEW data \in Seq(Byte), NEW short \in ShortPages(p, data)
    PROVE  IsPageFiles(short)
<1>1. PICK k \in 0 .. Len(data) - 1 : short = PutPage(p, SubSeq(data, 1, k))
  BY DEF ShortPages
<1>2. SubSeq(data, 1, k) \in Seq(Byte)
  BY PrefixType
<1> QED  BY <1>1, <1>2, PutPageType

\* So does xDelete.
LEMMA WithoutPagesType ==
    ASSUME IsPageFiles(page), NEW S
    PROVE  IsPageFiles(WithoutPages(S))
BY DEF WithoutPages, IsPageFiles

\* The contents of an empty file.
LEMMA EmptyType == << >> \in Seq(Byte)
OBVIOUS

\* A lost handle has typed fields.
LEMMA HandleLostType ==
    ASSUME HandleLost
    PROVE  /\ is_open' \in BOOLEAN /\ file_size' \in Nat /\ is_dirty' \in BOOLEAN
           /\ journal_data' \in Seq(Byte) /\ rc' \in ResultCode
BY EmptyType DEF HandleLost, ResultCode

\* The number of a page is a natural number.
LEMMA QuotientType ==
    ASSUME NEW ofs \in Nat, NEW n \in Nat \ {0}
    PROVE  ofs \div n \in Nat
OBVIOUS

\* A loaded journal has the size asked for.
LEMMA LoadedPageType ==
    ASSUME IsPageFiles(page), NEW size \in Nat
    PROVE  LoadedPage(size) \in Seq(Byte) /\ Len(LoadedPage(size)) = size
BY BytesAssumption DEF LoadedPage, IsPageFiles

\* journal_data stays a string of bytes.
LEMMA OverwrittenType ==
    ASSUME NEW old \in Seq(Byte), NEW data \in Seq(Byte), NEW ofs \in Nat
    PROVE  Overwritten(old, data, ofs) \in Seq(Byte)
BY BytesAssumption DEF Overwritten

\* xRead answers one of the result codes.
LEMMA ReadCode ==
    ASSUME NEW n, NEW ofs
    PROVE  XRead(n, ofs).code \in ResultCode
BY DEF XRead, ReadDb, ReadPage, ReadJournal, Reply, ResultCode

\* The client writes at least one byte.
LEMMA ChunkType ==
    ASSUME NEW data \in Chunks
    PROVE  data \in Seq(Byte) /\ Len(data) \in Nat \ {0}
BY BytesAssumption

-----------------------------------------------------------------------------

\* The variables have their types at the start.
LEMMA TypeInit == Init => TypeOK
<1> SUFFICES ASSUME Init PROVE TypeOK
  OBVIOUS
<1>1. IsPageFiles(page)
  BY DEF Init, IsPageFiles
<1> QED  BY <1>1, EmptyType DEF Init, TypeOK, ResultCode

\* Every variable keeps its type.
LEMMA TypeStep == TypeOK /\ [Next]_vars => TypeOK'
<1> SUFFICES ASSUME TypeOK, [Next]_vars PROVE TypeOK'
  OBVIOUS
<1> USE FlagsAssumption, SizesAssumption
<1>1. CASE Open
  BY <1>1, EmptyType DEF TypeOK, Open, StoredSize, disk, ResultCode
<1>2. CASE Sync
  <2>1. IsPageFiles(page')
    BY <1>2, PutPageType, ShortPagesType DEF TypeOK, Sync, StoreJournal
  <2>2. file_size' \in Nat /\ is_dirty' \in BOOLEAN
    BY <1>2 DEF TypeOK, Sync, SetSize, XFileSize
  <2>3. size_key' \in Nat \cup {NoFile} /\ rc' \in ResultCode
    BY <1>2, <2>2 DEF TypeOK, Sync, StoreSize, LeadingDigits, ResultCode
  <2> QED  BY <1>2, <2>1, <2>2, <2>3 DEF TypeOK, Sync
<1>3. CASE Close
  BY <1>3, EmptyType DEF TypeOK, Close, disk, ResultCode
<1>4. CASE Delete
  BY <1>4, WithoutPagesType DEF TypeOK, Delete, handle, ResultCode
<1>5. CASE DeleteFails
  BY <1>5 DEF TypeOK, DeleteFails, disk, handle, ResultCode
<1>6. CASE Killed
  BY <1>6, HandleLostType DEF TypeOK, Killed, disk
<1>7. CASE KilledInSync
  <2>1. IsPageFiles(page')
    BY <1>7, PutPageType, ShortPagesType DEF TypeOK, KilledInSync
  <2>2. size_key' \in Nat \cup {NoFile}
    BY <1>7 DEF TypeOK, KilledInSync, LeadingDigits
  <2> QED  BY <1>7, <2>1, <2>2, HandleLostType DEF TypeOK, KilledInSync
<1>8. CASE KilledInDelete
  BY <1>8, HandleLostType, WithoutPagesType DEF TypeOK, KilledInDelete
<1>9. ASSUME NEW n \in 1..MaxSize, NEW ofs \in 0..MaxSize, Read(n, ofs) PROVE TypeOK'
  <2>1. LoadedJournal \in Seq(Byte)
    BY LoadedPageType DEF TypeOK, LoadedJournal
  <2> QED  BY <1>9, <2>1, ReadCode DEF TypeOK, Read, disk
<1>10. ASSUME NEW data \in Chunks, NEW ofs \in 0..MaxSize, WriteDb(data, ofs)
       PROVE  TypeOK'
  <2>0. data \in Seq(Byte) /\ ofs \div Len(data) \in Nat
    BY ChunkType, QuotientType
  <2>1. IsPageFiles(page')
    BY <1>10, <2>0, PutPageType DEF TypeOK, WriteDb
  <2> QED
    BY <1>10, <2>1, ChunkType DEF TypeOK, WriteDb, UpdateIfGreater, SetSize, ResultCode
<1>11. ASSUME NEW data \in Chunks, NEW ofs \in 0..MaxSize, WriteDbFails(data, ofs)
       PROVE  TypeOK'
  <2>0. data \in Seq(Byte) /\ ofs \div Len(data) \in Nat
    BY ChunkType, QuotientType
  <2>1. IsPageFiles(page')
    BY <1>11, <2>0, ShortPagesType DEF TypeOK, WriteDbFails
  <2> QED  BY <1>11, <2>1 DEF TypeOK, WriteDbFails, handle, ResultCode
<1>12. ASSUME NEW data \in Chunks, NEW ofs \in 0..MaxSize, WriteJournal(data, ofs)
       PROVE  TypeOK'
  BY <1>12, OverwrittenType, ChunkType DEF TypeOK, WriteJournal, disk, ResultCode
<1>13. ASSUME NEW data \in Chunks, NEW ofs \in 0..MaxSize, KilledInWrite(data, ofs)
       PROVE  TypeOK'
  <2>0. data \in Seq(Byte) /\ ofs \div Len(data) \in Nat
    BY ChunkType, QuotientType
  <2>1. IsPageFiles(page')
    BY <1>13, <2>0, ShortPagesType DEF TypeOK, KilledInWrite
  <2> QED  BY <1>13, <2>1, HandleLostType DEF TypeOK, KilledInWrite
<1>14. ASSUME NEW size \in 0..MaxSize, Truncate(size) PROVE TypeOK'
  BY <1>14 DEF TypeOK, Truncate, SetSize, disk, ResultCode
<1>15. CASE UNCHANGED vars
  BY <1>15 DEF TypeOK, vars, disk, handle
<1>16. ASSUME NEW data \in Chunks, NEW ofs \in 0..MaxSize, WriteDbUnnoticed(data, ofs)
       PROVE  TypeOK'
  <2>0. data \in Seq(Byte) /\ ofs \div Len(data) \in Nat
    BY ChunkType, QuotientType
  <2>1. IsPageFiles(page')
    BY <1>16, <2>0, ShortPagesType DEF TypeOK, WriteDbUnnoticed
  <2> QED
    BY <1>16, <2>1, ChunkType
    DEF TypeOK, WriteDbUnnoticed, UpdateIfGreater, SetSize, ResultCode
<1> QED
  BY <1>1, <1>2, <1>3, <1>4, <1>5, <1>6, <1>7, <1>8, <1>9, <1>10, <1>11, <1>12,
     <1>13, <1>14, <1>15, <1>16 DEF Next

\* The variables always have their types, whatever the page size, the faults
\* and the crashes.
THEOREM TypeCorrect == Spec => []TypeOK
BY TypeInit, TypeStep, PTL DEF Spec

-----------------------------------------------------------------------------

\* The inductive invariant holds at the start.
LEMMA InvInit == Init => IInv
<1> SUFFICES ASSUME Init PROVE IInv
  OBVIOUS
<1>1. TypeOK
  BY TypeInit
<1>2. DbHasNoJournal /\ CleanMeansSaved
  BY DEF Init, DbHasNoJournal, CleanMeansSaved
<1> QED  BY <1>1, <1>2 DEF IInv

\* The handle stays as clean or dirty as the stored size makes it.
LEMMA InvStep == IInv /\ [Next]_vars => IInv'
<1> SUFFICES ASSUME IInv, [Next]_vars PROVE IInv'
  OBVIOUS
<1>1. TypeOK'
  BY TypeStep DEF IInv
<1> USE DEF IInv, DbHasNoJournal, CleanMeansSaved, StoredSize
<1>2. CASE Open
  BY <1>1, <1>2 DEF Open, disk, StoredSize
<1>3. CASE Sync
  <2>1. journal_data' = journal_data /\ is_open' = is_open
    BY <1>3 DEF Sync
  <2>2. CASE is_dirty'
    BY <1>1, <2>1, <2>2
  <2>3. CASE ~is_dirty'
    <3>1. ~is_dirty /\ file_size' = file_size
      BY <1>3, <2>3 DEF Sync, SetSize
    <3>2. size_key' = size_key
      BY <1>3, <2>3 DEF Sync, StoreSize
    <3> QED  BY <1>1, <1>3, <2>1, <3>1, <3>2 DEF Sync
  <2> QED  BY <2>2, <2>3
<1>4. CASE Close \/ Killed \/ KilledInSync \/ KilledInDelete
  BY <1>1, <1>4 DEF Close, Killed, KilledInSync, KilledInDelete, HandleLost
<1>5. CASE Delete \/ DeleteFails
  BY <1>1, <1>5 DEF Delete, DeleteFails, handle
<1>6. ASSUME NEW n \in 1..MaxSize, NEW ofs \in 0..MaxSize, Read(n, ofs) PROVE IInv'
  BY <1>1, <1>6 DEF Read, disk
<1>7. ASSUME NEW data \in Chunks, NEW ofs \in 0..MaxSize, WriteDb(data, ofs) PROVE IInv'
  BY <1>1, <1>7 DEF WriteDb, UpdateIfGreater, SetSize
<1>8. ASSUME NEW data \in Chunks, NEW ofs \in 0..MaxSize, WriteDbFails(data, ofs)
      PROVE  IInv'
  BY <1>1, <1>8 DEF WriteDbFails, handle
<1>9. ASSUME NEW data \in Chunks, NEW ofs \in 0..MaxSize, WriteJournal(data, ofs)
      PROVE  IInv'
  BY <1>1, <1>9 DEF WriteJournal, disk
<1>10. ASSUME NEW data \in Chunks, NEW ofs \in 0..MaxSize, KilledInWrite(data, ofs)
       PROVE  IInv'
  BY <1>1, <1>10 DEF KilledInWrite, HandleLost
<1>11. ASSUME NEW size \in 0..MaxSize, Truncate(size) PROVE IInv'
  BY <1>1, <1>11 DEF Truncate, SetSize, disk
<1>12. CASE UNCHANGED vars
  BY <1>1, <1>12 DEF vars, disk, handle
<1>13. ASSUME NEW data \in Chunks, NEW ofs \in 0..MaxSize, WriteDbUnnoticed(data, ofs)
       PROVE  IInv'
  BY <1>1, <1>13 DEF WriteDbUnnoticed, UpdateIfGreater, SetSize
<1> QED
  BY <1>2, <1>3, <1>4, <1>5, <1>6, <1>7, <1>8, <1>9, <1>10, <1>11, <1>12, <1>13
  DEF Next

\* The inductive invariant always holds.
LEMMA InvCorrect == Spec => []IInv
BY InvInit, InvStep, PTL DEF Spec

\* A clean handle agrees with the stored size, though a store of "file_size"
\* may fail or be short and the process may be killed at any point.
THEOREM CleanSaved == Spec => []CleanMeansSaved
<1>1. IInv => CleanMeansSaved
  BY DEF IInv
<1> QED  BY <1>1, InvCorrect, PTL

-----------------------------------------------------------------------------

\* A journal stored whole is loaded whole.
LEMMA StoredIsLoaded ==
    ASSUME NEW data \in Seq(Byte), page' = PutPage(0, data)
    PROVE  (LoadedPage(Len(data)))' = data
<1>1. 0 \in DOMAIN page' /\ page'[0] = data
  BY DEF PutPage
<1> QED  BY <1>1 DEF LoadedPage

\* A file of size 0 has no bytes.
LEMMA NoContents == (Contents(0))' = << >>
BY DEF Contents, LoadedPage

\* The step of SyncSaves.
LEMMA SyncStep ==
    ASSUME ~KeyFaults, IsDb \/ ~PageFaults, IInv, Sync
    PROVE  Saved' = Live' \/ (Saved' = NoFile /\ Live' = << >>)
<1> USE DEF IInv, TypeOK
<1>0. is_open' /\ journal_data' = journal_data
  BY DEF Sync
<1>1. CASE journal_data # << >>
  <2>1. ~IsDb /\ XFileSize = Len(journal_data) /\ Len(journal_data) \in Nat \ {0}
    BY <1>1 DEF DbHasNoJournal, XFileSize
  <2>2. page' = PutPage(0, journal_data)
    BY <1>1, <2>1 DEF Sync, StoreJournal
  <2>3. file_size' = Len(journal_data)
    BY <2>1 DEF Sync, SetSize
  <2>4. size_key' = Len(journal_data)
    BY <2>1, <2>3, BytesAssumption
    DEF Sync, SetSize, StoreSize, CleanMeansSaved, StoredSize
  <2>5. (LoadedPage(Len(journal_data)))' = journal_data'
    BY <1>0, <2>2, StoredIsLoaded
  <2>6. Saved' = (LoadedPage(size_key))'
    BY <2>1, <2>4, BytesAssumption DEF Saved, Contents
  <2>7. Saved' = journal_data'
    BY <1>0, <2>4, <2>5, <2>6
  <2> QED  BY <1>0, <1>1, <2>7 DEF Live
<1>2. CASE journal_data = << >>
  <2>1. file_size' = file_size /\ Live' = (Contents(file_size))'
    BY <1>0, <1>2 DEF Sync, SetSize, XFileSize, Live
  <2>2. size_key' = file_size' \/ (size_key' = NoFile /\ file_size' = 0)
    BY <1>2, <2>1 DEF Sync, SetSize, XFileSize, StoreSize, CleanMeansSaved, StoredSize
  <2>3. CASE size_key' = file_size'
    BY <2>1, <2>3, BytesAssumption DEF Saved
  <2>4. CASE size_key' = NoFile /\ file_size' = 0
    BY <2>1, <2>4, NoContents DEF Saved
  <2> QED  BY <2>2, <2>3, <2>4
<1> QED  BY <1>1, <1>2

\* Where stores do not fail (for a database, where that of "file_size" does
\* not), xSync answers SQLITE_OK only when what the handle holds is what a
\* later xOpen will find.
THEOREM SyncSaves ==
    ASSUME ~KeyFaults, IsDb \/ ~PageFaults
    PROVE  Spec => SyncOkMeansSaved
<1>1. IInv /\ [Next]_vars =>
        [Sync /\ rc' = "OK" => Saved' = Live' \/ (Saved' = NoFile /\ Live' = << >>)]_vars
  BY SyncStep
<1> QED  BY <1>1, InvCorrect, PTL DEF Spec, SyncOkMeansSaved

-----------------------------------------------------------------------------

\* Where a cell of an aligned page lies.
LEMMA CellOfPage ==
    ASSUME NEW n \in Nat \ {0}, NEW ofs \in Nat, ofs % n = 0, NEW k \in 0 .. n - 1
    PROVE  (ofs + k) \div n = ofs \div n /\ (ofs + k) % n = k
OBVIOUS

\* The length of the bytes that a database shows.
LEMMA ContentsLength ==
    ASSUME IsDb, NEW size \in Nat
    PROVE  /\ Len(Contents(size)) = size
           /\ \A i \in 1..size : Contents(size)[i] =
                PageCells((i-1) \div PageSize, PageSize, 0)[((i-1) % PageSize) + 1]
BY DEF Contents

\* A part of a file.
LEMMA PartOfFile ==
    ASSUME NEW n \in Nat \ {0}, NEW ofs \in Nat, NEW S, NEW file \in Seq(S),
           ofs + n <= Len(file)
    PROVE  SubSeq(file, ofs + 1, ofs + n) = [i \in 1..n |-> file[ofs + i]]
OBVIOUS

\* A read buffer holds bytes, and cells that nothing was copied to.
LEMMA PageCellsType ==
    ASSUME IsPageFiles(page), NEW p, NEW n \in Nat, NEW offset \in Nat
    PROVE  PageCells(p, n, offset) \in [1..n -> Byte \cup {Unknown}]
<1> SUFFICES ASSUME NEW i \in 1..n, p \in DOMAIN page, offset + i <= Len(page[p])
             PROVE  page[p][offset + i] \in Byte
  BY DEF PageCells
<1>1. page[p] \in Seq(Byte) /\ offset + i \in 1..Len(page[p])
  BY DEF IsPageFiles
<1> QED  BY <1>1

\* The header fields and the pages of a database read as the file has them.
LEMMA DbReadAgrees ==
    ASSUME IInv, IsDb, is_open, NEW n \in 1..MaxSize, NEW ofs \in 0..MaxSize,
           ReadsOf(n, ofs), ofs + n <= Len(Live)
    PROVE  LET range == SubSeq(Live, ofs + 1, ofs + n)
           IN  ReadDb(n, ofs) = Reply(IF \E i \in 1..n : range[i] = Unknown
                                      THEN "IOERR_SHORT_READ" ELSE "OK", range)
<1> DEFINE range == SubSeq(Live, ofs + 1, ofs + n)
           Cells == Byte \cup {Unknown}
<1> USE SizesAssumption
<1>1. Live = Contents(file_size) /\ file_size \in Nat
  BY DEF IInv, TypeOK, DbHasNoJournal, Live
<1>2. Live \in Seq(Cells)
  <2>1. \A i \in 1..file_size :
          PageCells((i-1) \div PageSize, PageSize, 0)[((i-1) % PageSize) + 1] \in Cells
    <3>1. ASSUME NEW i \in 1..file_size
          PROVE  ((i-1) % PageSize) + 1 \in 1..PageSize
      BY <1>1, <3>1
    <3> QED  BY <3>1, PageCellsType DEF IInv, TypeOK
  <2> QED  BY <1>1, <2>1 DEF Contents
<1>3. range = [i \in 1..n |-> Live[ofs + i]] /\ ofs + n <= file_size
  <2>1. Len(Live) = file_size
    BY <1>1, ContentsLength
  <2>2. n \in Nat \ {0} /\ ofs \in Nat
    OBVIOUS
  <2> QED  BY <1>2, <2>1, <2>2, PartOfFile
<1>4. \A i \in 1..n : range[i] =
        PageCells((ofs + i - 1) \div PageSize, PageSize, 0)[((ofs + i - 1) % PageSize) + 1]
  <2>1. ASSUME NEW i \in 1..n PROVE ofs + i \in 1..file_size /\ (ofs + i) - 1 = ofs + i - 1
    BY <1>1, <1>3
  <2>2. ASSUME NEW i \in 1..n PROVE range[i] = Contents(file_size)[ofs + i]
    BY <1>1, <1>3
  <2> HIDE DEF range
  <2>3. ASSUME NEW k \in 1..file_size
        PROVE  Contents(file_size)[k] =
                 PageCells((k-1) \div PageSize, PageSize, 0)[((k-1) % PageSize) + 1]
    BY <1>1, ContentsLength
  <2> QED  BY <2>1, <2>2, <2>3
<1>5. CASE ofs + n < HeaderLimit
  <2>1. \A i \in 1..n : (ofs + i - 1) \div PageSize = 0 /\ (ofs + i - 1) % PageSize = ofs + i - 1
    BY <1>5
  <2>2. \A i \in 1..n : range[i] = PageCells(0, n, ofs)[i]
    <3> SUFFICES ASSUME NEW i \in 1..n PROVE range[i] = PageCells(0, n, ofs)[i]
      OBVIOUS
    <3>1. range[i] = PageCells(0, PageSize, 0)[(ofs + i - 1) + 1]
      BY <1>4, <2>1
    <3>2. (ofs + i - 1) + 1 = ofs + i /\ ofs + i \in 1..PageSize
      BY <1>5
    <3> HIDE DEF range
    <3> QED  BY <3>1, <3>2 DEF PageCells
  <2>3. range = PageCells(0, n, ofs)
    BY <1>3, <2>2 DEF PageCells
  <2> QED  BY <1>5, <2>3 DEF ReadDb, ReadPage
<1>6. CASE ~(ofs + n < HeaderLimit)
  <2>1. n = PageSize /\ ofs % n = 0
    BY <1>6 DEF ReadsOf
  <2>2. ASSUME NEW i \in 1..n PROVE range[i] = PageCells(ofs \div n, n, 0)[i]
    <3>1. (ofs + (i - 1)) \div n = ofs \div n /\ (ofs + (i - 1)) % n = i - 1
      <4> DEFINE k == i - 1
      <4>1. n \in Nat \ {0} /\ ofs \in Nat /\ k \in 0 .. n - 1 /\ ofs % n = 0
        BY <2>1
      <4> HIDE DEF k
      <4>2. (ofs + k) \div n = ofs \div n /\ (ofs + k) % n = k
        BY <4>1, CellOfPage, Zenon
      <4> QED  BY <4>2 DEF k
    <3>2. ofs + (i - 1) = ofs + i - 1 /\ (i - 1) + 1 = i
      OBVIOUS
    <3> QED  BY <1>4, <2>1, <3>1, <3>2
  <2>3. range = PageCells(ofs \div n, n, 0)
    BY <1>3, <2>2 DEF PageCells
  <2> QED  BY <1>6, <2>1, <2>3 DEF ReadDb, ReadPage
<1> QED  BY <1>5, <1>6

\* Whatever the page size, the faults and the crashes, a read that SQLite makes
\* inside a database returns the bytes of the linear file.
THEOREM ReadsAgree == Spec => []ReadAgrees
<1>1. IInv => ReadAgrees
  <2> SUFFICES ASSUME IInv, IsDb, is_open,
                      NEW n \in 1..MaxSize, NEW ofs \in 0..MaxSize,
                      ReadsOf(n, ofs), ofs + n <= Len(Live)
               PROVE  LET range == SubSeq(Live, ofs + 1, ofs + n)
                      IN  ReadDb(n, ofs) = Reply(IF \E i \in 1..n : range[i] = Unknown
                                                 THEN "IOERR_SHORT_READ" ELSE "OK", range)
    BY DEF ReadAgrees
  <2> QED  BY DbReadAgrees
<1> QED  BY <1>1, InvCorrect, PTL

-----------------------------------------------------------------------------
(* Writes of pages of one size leave the other pages alone.                *)

UniformPages == Chunks \subseteq [1..PageSize -> Byte]

\* The pages that a database write touches.
LEMMA WriteTouches ==
    ASSUME NEW data \in Chunks, NEW ofs \in 0..MaxSize,
           WriteDb(data, ofs) \/ WriteDbFails(data, ofs),
           NEW p, p # ofs \div Len(data)
    PROVE  /\ p \in DOMAIN page' <=> p \in DOMAIN page
           /\ p \in DOMAIN page => page'[p] = page[p]
<1>1. \/ page' = page
      \/ \E d : page' = PutPage(ofs \div Len(data), d)
  BY DEF WriteDb, WriteDbFails, ShortPages
<1> QED  BY <1>1 DEF PutPage

\* Aligned ranges of one size that do not meet are pages of other numbers.
LEMMA DisjointPages ==
    ASSUME NEW n \in Nat \ {0}, NEW ofs \in Nat, NEW at \in Nat,
           at + n <= ofs \/ ofs + n <= at
    PROVE  at \div n # ofs \div n
OBVIOUS

\* While SQLite keeps to one page size, a write of a page, done or failed,
\* changes no byte that a read of another page finds, although it replaces a
\* page file whole: what VACUUM after PRAGMA page_size breaks.
THEOREM WritesKeepOthers ==
    ASSUME UniformPages PROVE Spec => WriteLeavesOtherBytes
<1> DEFINE Kept == \A data \in Chunks, ofs \in 0..MaxSize :
         WriteDb(data, ofs) \/ WriteDbFails(data, ofs) =>
           \A n \in {Len(c) : c \in Chunks}, at \in 0..MaxSize :
             /\ at % n = 0 /\ (at + n <= ofs \/ ofs + Len(data) <= at)
             /\ ReadDb(n, at).code = "OK"
             => ReadDb(n, at)' = ReadDb(n, at)
<1>1. Kept
  <2> SUFFICES ASSUME NEW data \in Chunks, NEW ofs \in 0..MaxSize,
                      WriteDb(data, ofs) \/ WriteDbFails(data, ofs),
                      NEW c \in Chunks, NEW at \in 0..MaxSize,
                      at % Len(c) = 0, at + Len(c) <= ofs \/ ofs + Len(data) <= at
               PROVE  ReadDb(Len(c), at)' = ReadDb(Len(c), at)
    OBVIOUS
  <2> DEFINE n == Len(c)
  <2>1. n = PageSize /\ Len(data) = PageSize /\ PageSize \in Nat \ {0} /\ HeaderLimit <= PageSize
    BY SizesAssumption, BytesAssumption DEF UniformPages
  <2>2. at \div n # ofs \div Len(data) /\ ~(at + n < HeaderLimit)
    <3>1. ofs \in Nat /\ at \in Nat /\ (at + PageSize <= ofs \/ ofs + PageSize <= at)
      BY <2>1, SizesAssumption
    <3>2. at \div PageSize # ofs \div PageSize
      BY <2>1, <3>1, DisjointPages
    <3>3. ~(at + PageSize < HeaderLimit)
      BY <2>1, <3>1, SizesAssumption
    <3> QED  BY <2>1, <3>2, <3>3
  <2> HIDE DEF n
  <2>3. PageCells(at \div n, n, 0)' = PageCells(at \div n, n, 0)
    BY <2>2, WriteTouches DEF PageCells
  <2>4. ReadPage(at \div n, n, 0)' = ReadPage(at \div n, n, 0)
    BY <2>3 DEF ReadPage
  <2>5. ReadDb(n, at)' = ReadDb(n, at)
    BY <2>2, <2>4 DEF ReadDb
  <2> QED  BY <2>5 DEF n
<1>2. [Next]_vars => [Kept]_vars
  BY <1>1
<1> QED  BY <1>2, PTL DEF Spec, WriteLeavesOtherBytes

-----------------------------------------------------------------------------
(* IdbFile implements VfsFile.                                             *)

\* What the contract promises nothing about: stores that fail unnoticed, two
\* page sizes in one database, a failing store of a journal, and a journal
\* that is truncated.
ContractAssumption ==
    /\ ~KeyFaults /\ ~BufferedPages
    /\ IsDb => UniformPages
    /\ ~IsDb => ~PageFaults /\ ~TruncatesJournal

Cells == Byte \cup {Unknown}

-----------------------------------------------------------------------------
(* Sizes stay within the bound.                                            *)

SizesInv ==
    /\ file_size <= MaxSize /\ Len(journal_data) <= MaxSize
    /\ size_key # NoFile => size_key <= MaxSize

\* A journal grows to the end of a write at most.
LEMMA OverwrittenLength ==
    ASSUME NEW old \in Seq(Byte), NEW data \in Seq(Byte), NEW ofs \in Nat
    PROVE  Len(Overwritten(old, data, ofs)) =
             IF ofs + Len(data) > Len(old) THEN ofs + Len(data) ELSE Len(old)
BY DEF Overwritten

\* Every step keeps the sizes within the bound.
LEMMA SizesStep ==
    ASSUME IInv, SizesInv, [Next]_vars
    PROVE  SizesInv'
<1> USE SizesAssumption DEF SizesInv, IInv, TypeOK
<1>0. Len(<< >>) = 0 /\ 0 <= MaxSize /\ NoFile \notin Nat
  BY BytesAssumption
<1>1. CASE Open
  BY <1>0, <1>1 DEF Open, StoredSize, disk
<1>2. CASE Sync
  <2>1. XFileSize \in Nat /\ XFileSize <= MaxSize
    BY DEF XFileSize
  <2>2. file_size' = XFileSize /\ journal_data' = journal_data
    BY <1>2 DEF Sync, SetSize
  <2>3. size_key' = size_key \/ size_key' = file_size' \/ size_key' \in 1..file_size' \cup {0}
    BY <1>2 DEF Sync, StoreSize, LeadingDigits
  <2> QED  BY <1>0, <2>1, <2>2, <2>3
<1>3. CASE Close
  BY <1>0, <1>3 DEF Close, disk
<1>4. CASE Delete \/ DeleteFails
  BY <1>0, <1>4 DEF Delete, DeleteFails, handle, disk
<1>5. CASE Killed
  BY <1>0, <1>5 DEF Killed, HandleLost, disk
<1>6. CASE KilledInSync
  <2>1. XFileSize \in Nat /\ XFileSize <= MaxSize
    BY DEF XFileSize
  <2>2. size_key' = size_key \/ size_key' \in 1..XFileSize \cup {0}
    BY <1>6 DEF KilledInSync, LeadingDigits
  <2> QED  BY <1>0, <1>6, <2>1, <2>2 DEF KilledInSync, HandleLost
<1>7. CASE KilledInDelete
  BY <1>0, <1>7 DEF KilledInDelete, HandleLost
<1>8. ASSUME NEW n \in 1..MaxSize, NEW ofs \in 0..MaxSize, Read(n, ofs) PROVE SizesInv'
  <2>1. Len(LoadedJournal) <= MaxSize
    BY LoadedPageType DEF LoadedJournal
  <2> QED  BY <1>8, <2>1 DEF Read, disk
<1>9. ASSUME NEW data \in Chunks, NEW ofs \in 0..MaxSize,
             WriteDb(data, ofs) \/ WriteDbUnnoticed(data, ofs)
      PROVE  SizesInv'
  BY <1>9, ChunkType DEF WriteDb, WriteDbUnnoticed, UpdateIfGreater, SetSize
<1>10. ASSUME NEW data \in Chunks, NEW ofs \in 0..MaxSize, WriteDbFails(data, ofs)
       PROVE  SizesInv'
  BY <1>10 DEF WriteDbFails, handle
<1>11. ASSUME NEW data \in Chunks, NEW ofs \in 0..MaxSize, WriteJournal(data, ofs)
       PROVE  SizesInv'
  BY <1>11, ChunkType, OverwrittenLength DEF WriteJournal, disk
<1>12. ASSUME NEW data \in Chunks, NEW ofs \in 0..MaxSize, KilledInWrite(data, ofs)
       PROVE  SizesInv'
  BY <1>0, <1>12 DEF KilledInWrite, HandleLost
<1>13. ASSUME NEW size \in 0..MaxSize, Truncate(size) PROVE SizesInv'
  BY <1>13 DEF Truncate, SetSize, disk
<1>14. CASE UNCHANGED vars
  BY <1>14 DEF vars, disk, handle
<1> QED
  BY <1>1, <1>2, <1>3, <1>4, <1>5, <1>6, <1>7, <1>8, <1>9, <1>10, <1>11, <1>12, <1>13, <1>14
  DEF Next

\* The sizes are within the bound at the start.
LEMMA SizesInit == Init => SizesInv
BY BytesAssumption, SizesAssumption DEF Init, SizesInv

-----------------------------------------------------------------------------
(* The cells of a database.                                                *)

\* Cell i of the file that some page files make.
CellIn(files, i) ==
    LET p == (i - 1) \div PageSize
        k == ((i - 1) % PageSize) + 1
    IN  IF p \in DOMAIN files /\ k <= Len(files[p]) THEN files[p][k] ELSE Unknown

\* The place of a cell in its page.
LEMMA PlaceOfCell ==
    ASSUME NEW n \in Nat \ {0}, NEW i \in Nat \ {0}
    PROVE  /\ (i - 1) \div n \in Nat
           /\ ((i - 1) % n) + 1 \in 1..n
OBVIOUS

\* A cell holds a byte or nothing.
LEMMA CellType ==
    ASSUME NEW files, IsPageFiles(files), NEW i \in Nat \ {0}
    PROVE  CellIn(files, i) \in Cells
<1> DEFINE p == (i - 1) \div PageSize
           k == ((i - 1) % PageSize) + 1
<1>1. k \in 1..PageSize /\ PageSize \in Nat
  BY PlaceOfCell, SizesAssumption
<1> HIDE DEF p, k
<1>2. ASSUME p \in DOMAIN files, k <= Len(files[p]) PROVE files[p][k] \in Byte
  <2>1. files[p] \in Seq(Byte)
    BY <1>2 DEF IsPageFiles
  <2> QED  BY <1>1, <1>2, <2>1
<1> QED  BY <1>2 DEF CellIn, Cells, p, k

\* A database is the function of its cells, before and after a step.
LEMMA ContentsOfDb ==
    ASSUME IsDb, IsPageFiles(page), IsPageFiles(page'), NEW size \in Nat
    PROVE  /\ Contents(size) = [i \in 1..size |-> CellIn(page, i)]
           /\ Contents(size)' = [i \in 1..size |-> CellIn(page', i)]
           /\ Contents(size) \in [1..size -> Cells] /\ Contents(size)' \in [1..size -> Cells]
           /\ Len(Contents(size)) = size /\ Len(Contents(size)') = size
           /\ Contents(size) # NoFile /\ Contents(size)' # NoFile
<1>1. \A i \in 1..size : ((i - 1) % PageSize) + 1 \in 1..PageSize /\ i \in Nat \ {0}
  BY PlaceOfCell, SizesAssumption
<1>2. Contents(size) = [i \in 1..size |-> CellIn(page, i)]
  BY <1>1 DEF Contents, PageCells, CellIn
<1>3. Contents(size)' = [i \in 1..size |-> CellIn(page', i)]
  BY <1>1 DEF Contents, PageCells, CellIn
<1>4. Contents(size) \in [1..size -> Cells] /\ Contents(size)' \in [1..size -> Cells]
  BY <1>1, <1>2, <1>3, CellType
<1>5. Len(Contents(size)) = size /\ Len(Contents(size)') = size
  BY <1>2, <1>3
<1>6. Contents(size) \in Seq(Cells) /\ Contents(size)' \in Seq(Cells)
  BY <1>4
<1> QED  BY <1>2, <1>3, <1>4, <1>5, <1>6, BytesAssumption DEF Cells

\* A cell outside an aligned range lies in another page.
LEMMA OtherPage ==
    ASSUME NEW n \in Nat \ {0}, NEW ofs \in Nat, ofs % n = 0, NEW i \in Nat \ {0},
           i \notin ofs + 1 .. ofs + n
    PROVE  (i - 1) \div n # ofs \div n
OBVIOUS

\* A store of a page, whole or short, changes the cells of that page only.
LEMMA CellStored ==
    ASSUME NEW ofs \in Nat, ofs % PageSize = 0, NEW d \in Seq(Byte), Len(d) <= PageSize,
           page' = PutPage(ofs \div PageSize, d)
    PROVE  /\ \A i \in Nat \ {0} : i \notin ofs + 1 .. ofs + PageSize =>
                CellIn(page', i) = CellIn(page, i)
           /\ \A k \in 1..Len(d) : CellIn(page', ofs + k) = d[k]
<1> USE SizesAssumption
<1>1. ASSUME NEW i \in Nat \ {0}, i \notin ofs + 1 .. ofs + PageSize
      PROVE  CellIn(page', i) = CellIn(page, i)
  <2>1. (i - 1) \div PageSize # ofs \div PageSize
    BY <1>1, OtherPage
  <2> QED  BY <2>1 DEF CellIn, PutPage
<1>2. ASSUME NEW k \in 1..Len(d) PROVE CellIn(page', ofs + k) = d[k]
  <2>1. k - 1 \in 0 .. PageSize - 1 /\ (ofs + k) - 1 = ofs + (k - 1) /\ (k - 1) + 1 = k
    OBVIOUS
  <2>2. (ofs + (k - 1)) \div PageSize = ofs \div PageSize /\ (ofs + (k - 1)) % PageSize = k - 1
    BY <2>1, CellOfPage
  <2>3. CellIn(page', ofs + k) =
          IF ofs \div PageSize \in DOMAIN page' /\ k <= Len(page'[ofs \div PageSize])
          THEN page'[ofs \div PageSize][k] ELSE Unknown
    BY <2>1, <2>2 DEF CellIn
  <2> QED  BY <2>3 DEF PutPage
<1> QED  BY <1>1, <1>2

-----------------------------------------------------------------------------
(* The steps of a database.                                                *)

\* The cells outside a range stay as they are.
OthersStay(ofs) ==
    \A i \in Nat \ {0} : i \notin ofs + 1 .. ofs + PageSize => CellIn(page', i) = CellIn(page, i)

\* Then the files that the cells make agree outside the range, of any sizes.
LEMMA FilesAgree ==
    ASSUME IsDb, IsPageFiles(page), IsPageFiles(page'), NEW ofs \in Nat, OthersStay(ofs),
           NEW a \in Nat, NEW b \in Nat
    PROVE  Contract!AgreeOutside(Contents(b)', Contents(a), ofs, PageSize)
<1>1. /\ Contents(a) = [i \in 1..a |-> CellIn(page, i)]
      /\ Contents(b)' = [i \in 1..b |-> CellIn(page', i)]
  BY ContentsOfDb
<1>2. \A i \in 1..b \cap 1..a : i \in Nat \ {0}
  OBVIOUS
<1> QED  BY <1>1, <1>2 DEF OthersStay, Contract!AgreeOutside

\* What a store of a page, whole, short or not made, does to the cells.
LEMMA StoreFacts ==
    ASSUME UniformPages, TypeOK, NEW data \in Chunks, NEW ofs \in 0..MaxSize,
           Aligned(data, ofs),
           page' \in {page, PutPage(ofs \div Len(data), data)} \cup ShortPages(ofs \div Len(data), data)
    PROVE  /\ OthersStay(ofs) /\ Len(data) = PageSize /\ ofs \in Nat /\ IsPageFiles(page')
           /\ page' = PutPage(ofs \div Len(data), data) =>
                \A k \in 1..PageSize : CellIn(page', ofs + k) = data[k]
<1> USE SizesAssumption
<1>1. /\ Len(data) = PageSize /\ data \in Seq(Byte) /\ ofs \in Nat /\ ofs % PageSize = 0
      /\ ofs \div PageSize \in Nat
  BY BytesAssumption, QuotientType DEF UniformPages, Aligned
<1>2. ASSUME NEW d \in Seq(Byte), Len(d) <= PageSize, page' = PutPage(ofs \div PageSize, d)
      PROVE  OthersStay(ofs) /\ IsPageFiles(page')
             /\ \A k \in 1..Len(d) : CellIn(page', ofs + k) = d[k]
  BY <1>1, <1>2, CellStored, PutPageType DEF OthersStay, TypeOK
<1>3. page' = PutPage(ofs \div Len(data), data) =>
        \A k \in 1..PageSize : CellIn(page', ofs + k) = data[k]
  <2> SUFFICES ASSUME page' = PutPage(ofs \div PageSize, data)
               PROVE  \A k \in 1..PageSize : CellIn(page', ofs + k) = data[k]
    BY <1>1
  <2>1. data \in Seq(Byte) /\ Len(data) <= PageSize
    BY <1>1
  <2>2. \A k \in 1..Len(data) : CellIn(page', ofs + k) = data[k]
    BY <1>2, <2>1
  <2> QED  BY <1>1, <2>2
<1>4. CASE page' = page
  BY <1>1, <1>3, <1>4 DEF OthersStay, TypeOK
<1>5. CASE page' = PutPage(ofs \div Len(data), data)
  BY <1>1, <1>2, <1>3, <1>5
<1>6. CASE page' \in ShortPages(ofs \div Len(data), data)
  <2>1. PICK k \in 0 .. Len(data) - 1 : page' = PutPage(ofs \div Len(data), SubSeq(data, 1, k))
    BY <1>6 DEF ShortPages
  <2>2. SubSeq(data, 1, k) \in Seq(Byte) /\ Len(SubSeq(data, 1, k)) <= PageSize
    BY <1>1
  <2>3. OthersStay(ofs) /\ IsPageFiles(page')
    BY <1>1, <1>2, <2>1, <2>2
  <2> QED  BY <1>1, <1>3, <2>3
<1> QED  BY <1>4, <1>5, <1>6

\* What an open database shows, and what is saved of it.
LEMMA FilesOfDb ==
    ASSUME IsDb, IInv, IInv'
    PROVE  /\ Live = IF is_open THEN Contents(file_size) ELSE NoFile
           /\ Live' = IF is_open' THEN Contents(file_size)' ELSE NoFile
           /\ Saved = IF size_key = NoFile THEN NoFile ELSE Contents(size_key)
           /\ Saved' = IF size_key' = NoFile THEN NoFile ELSE Contents(size_key)'
           /\ file_size \in Nat /\ file_size' \in Nat
           /\ size_key # NoFile => size_key \in Nat
           /\ IsPageFiles(page) /\ IsPageFiles(page')
BY DEF IInv, TypeOK, DbHasNoJournal, Live, Saved

\* The saved bytes outside the range of a write stay.
LEMMA SavedScrambled ==
    ASSUME IsDb, IInv, IInv', NEW ofs \in Nat, OthersStay(ofs), size_key' = size_key,
           size_key # NoFile
    PROVE  Saved # NoFile /\ Saved' \in Contract!Scrambled(Saved, ofs, PageSize)
<1>1. /\ Saved = Contents(size_key) /\ Saved' = Contents(size_key)' /\ size_key \in Nat
      /\ IsPageFiles(page) /\ IsPageFiles(page')
  BY FilesOfDb
<1>2. Contract!AgreeOutside(Contents(size_key)', Contents(size_key), ofs, PageSize)
  BY <1>1, FilesAgree
<1>3. /\ Contents(size_key)' \in [1..size_key -> Cells] /\ Len(Contents(size_key)) = size_key
      /\ Contents(size_key) # NoFile
  BY <1>1, ContentsOfDb
<1> QED  BY <1>1, <1>2, <1>3 DEF Contract!Scrambled, Contract!Cell, Cells

\* xWrite on a database is a write of the contract.
LEMMA DbWrites ==
    ASSUME ContractAssumption, IsDb, IInv, IInv', NEW data \in Chunks, NEW ofs \in 0..MaxSize,
           WriteDb(data, ofs)
    PROVE  Contract!Write(ofs, data)
<1> USE SizesAssumption
<1>1. /\ OthersStay(ofs) /\ Len(data) = PageSize /\ ofs \in Nat
      /\ \A k \in 1..PageSize : CellIn(page', ofs + k) = data[k]
  BY StoreFacts DEF WriteDb, ContractAssumption, IInv
<1>2. /\ file_size' = IF ofs + PageSize > file_size THEN ofs + PageSize ELSE file_size
      /\ size_key' = size_key /\ is_open /\ is_open'
  BY <1>1 DEF WriteDb, UpdateIfGreater, SetSize, IInv, TypeOK
<1>3. /\ Live = Contents(file_size) /\ Live' = Contents(file_size)'
      /\ file_size \in Nat /\ file_size' \in Nat /\ IsPageFiles(page) /\ IsPageFiles(page')
  BY <1>2, FilesOfDb
<1>4. /\ Live # NoFile /\ Len(Live) = file_size /\ Live' \in [1..file_size' -> Cells]
      /\ Live' = [i \in 1..file_size' |-> CellIn(page', i)]
  BY <1>3, ContentsOfDb
<1>5. Contract!AgreeOutside(Live', Live, ofs, PageSize)
  BY <1>1, <1>3, FilesAgree
<1>6. \A k \in 1..PageSize : Live'[ofs + k] = data[k]
  BY <1>1, <1>2, <1>3, <1>4
<1>7. file_size' = Contract!Larger(Len(Live), ofs + Len(data))
  BY <1>1, <1>2, <1>3, <1>4 DEF Contract!Larger
<1>8. CASE size_key = NoFile
  <2>1. Saved = NoFile /\ Saved' = NoFile
    BY <1>2, <1>8, FilesOfDb
  <2> QED
    BY <1>1, <1>4, <1>5, <1>6, <1>7, <2>1 DEF Contract!Write, Contract!Cell, Cells
<1>9. CASE size_key # NoFile
  <2>1. Saved # NoFile /\ Saved' \in Contract!Scrambled(Saved, ofs, PageSize)
    BY <1>1, <1>2, <1>9, SavedScrambled
  <2>2. /\ Saved = Contents(size_key) /\ Saved' = Contents(size_key)' /\ size_key \in Nat
    BY <1>2, <1>9, FilesOfDb
  <2>3. /\ Len(Saved) = size_key /\ Saved' = [i \in 1..size_key |-> CellIn(page', i)]
    BY <1>2, <1>3, <2>2, ContentsOfDb
  <2>4. \A k \in 1..PageSize : ofs + k <= Len(Saved) => Saved'[ofs + k] = data[k]
    BY <1>1, <2>2, <2>3
  <2> QED
    BY <1>1, <1>4, <1>5, <1>6, <1>7, <2>1, <2>4 DEF Contract!Write, Contract!Cell, Cells
<1> QED  BY <1>8, <1>9

\* A page that was stored in part, or not at all, is a failed write of the
\* contract; so is the end of the process inside the store.
LEMMA DbFails ==
    ASSUME ContractAssumption, IsDb, IInv, IInv', NEW data \in Chunks, NEW ofs \in 0..MaxSize
    PROVE  /\ WriteDbFails(data, ofs) => Contract!FailedWrite(ofs, data)
           /\ KilledInWrite(data, ofs) => Contract!KilledInWrite(ofs, data)
<1>1. ASSUME WriteDbFails(data, ofs) \/ KilledInWrite(data, ofs)
      PROVE  /\ OthersStay(ofs) /\ Len(data) = PageSize /\ ofs \in Nat
             /\ size_key' = size_key /\ is_open
  <2>1. /\ Aligned(data, ofs) /\ size_key' = size_key /\ is_open
        /\ page' \in {page} \cup ShortPages(ofs \div Len(data), data)
    BY <1>1 DEF WriteDbFails, KilledInWrite
  <2> QED  BY <2>1, StoreFacts DEF ContractAssumption, IInv
<1>2. ASSUME WriteDbFails(data, ofs) \/ KilledInWrite(data, ofs)
      PROVE  /\ Live # NoFile
             /\ IF Saved = NoFile THEN Saved' = NoFile
                ELSE Saved' \in Contract!Scrambled(Saved, ofs, Len(data))
  <2>1. Live # NoFile
    BY <1>1, <1>2, FilesOfDb, ContentsOfDb
  <2>2. CASE size_key = NoFile
    BY <1>1, <1>2, <2>1, <2>2, FilesOfDb
  <2>3. CASE size_key # NoFile
    BY <1>1, <1>2, <2>1, <2>3, SavedScrambled
  <2> QED  BY <2>2, <2>3
<1>3. ASSUME WriteDbFails(data, ofs) PROVE Contract!FailedWrite(ofs, data)
  <2>1. is_open' /\ file_size' = file_size
    BY <1>1, <1>3 DEF WriteDbFails, handle
  <2>2. /\ Live = Contents(file_size) /\ Live' = Contents(file_size)'
        /\ file_size \in Nat /\ IsPageFiles(page) /\ IsPageFiles(page')
    BY <1>1, <1>3, <2>1, FilesOfDb
  <2>3. Len(Live) = file_size /\ Live' \in [1..file_size -> Cells]
    BY <2>1, <2>2, ContentsOfDb
  <2>4. Contract!AgreeOutside(Live', Live, ofs, Len(data))
    BY <1>1, <1>3, <2>1, <2>2, FilesAgree
  <2> QED
    BY <1>2, <1>3, <2>3, <2>4
    DEF Contract!FailedWrite, Contract!Scrambled, Contract!Cell, Cells
<1>4. ASSUME KilledInWrite(data, ofs) PROVE Contract!KilledInWrite(ofs, data)
  <2>1. Live' = NoFile
    BY <1>4 DEF KilledInWrite, HandleLost, Live
  <2> QED  BY <1>2, <1>4, <2>1 DEF Contract!KilledInWrite
<1> QED  BY <1>3, <1>4

\* xTruncate on a database is a truncation of the contract.
LEMMA DbTruncates ==
    ASSUME IsDb, IInv, IInv', NEW size \in 0..MaxSize, Truncate(size)
    PROVE  Contract!Truncate(size)
<1> USE SizesAssumption
<1>1. /\ is_open /\ is_open' /\ file_size' = size /\ size_key' = size_key /\ page' = page
      /\ size \in Nat
  BY DEF Truncate, SetSize, disk
<1>2. /\ Live = Contents(file_size) /\ Live' = Contents(size)' /\ file_size \in Nat
      /\ IsPageFiles(page) /\ IsPageFiles(page')
  BY <1>1, FilesOfDb
<1>3. /\ Live # NoFile /\ Live = [i \in 1..file_size |-> CellIn(page, i)]
      /\ Live' = [i \in 1..size |-> CellIn(page, i)] /\ Live' \in [1..size -> Cells]
  BY <1>1, <1>2, ContentsOfDb
<1>4. Contract!AgreeOutside(Live', Live, 0, 0)
  BY <1>3 DEF Contract!AgreeOutside
<1>5. Saved' = Saved
  <2>1. CASE size_key = NoFile
    BY <1>1, <2>1, FilesOfDb
  <2>2. CASE size_key # NoFile
    BY <1>1, <1>2, <2>2, FilesOfDb, ContentsOfDb
  <2> QED  BY <2>1, <2>2
<1> QED  BY <1>3, <1>4, <1>5 DEF Contract!Truncate, Contract!Cell, Cells

\* Killed while it stores file_size, a database is some of its first pages.
LEMMA DbKilledInSync ==
    ASSUME IsDb, IInv, IInv', SizesInv, KilledInSync
    PROVE  Contract!KilledInSync
<1> USE SizesAssumption
<1>1. /\ journal_data = << >> /\ is_open /\ page' = page /\ is_open' = FALSE
      /\ size_key' \in 1..file_size \cup {0} /\ file_size \in Nat /\ file_size <= MaxSize
  BY DEF KilledInSync, IInv, DbHasNoJournal, XFileSize, LeadingDigits, HandleLost, SizesInv, TypeOK
<1>2. size_key' \in 0..MaxSize /\ size_key' \in 0..file_size /\ size_key' # NoFile
  BY <1>1, BytesAssumption
<1>3. /\ Live = Contents(file_size) /\ Live' = NoFile /\ Saved' = Contents(size_key)'
      /\ IsPageFiles(page) /\ IsPageFiles(page')
  BY <1>1, <1>2, FilesOfDb
<1>4. /\ Live # NoFile /\ Live = [i \in 1..file_size |-> CellIn(page, i)]
      /\ Saved' = [i \in 1..size_key' |-> CellIn(page, i)] /\ Saved' \in [1..size_key' -> Cells]
  BY <1>1, <1>2, <1>3, ContentsOfDb
<1>5. \A i \in 1..size_key' : Saved'[i] \in Contract!CellsAt(Live, i)
  BY <1>1, <1>2, <1>4 DEF Contract!CellsAt
<1> QED
  BY <1>2, <1>3, <1>4, <1>5 DEF Contract!KilledInSync, Contract!Cell, Cells

-----------------------------------------------------------------------------
(* The steps of a journal.                                                 *)

\* The journal that some page files make.
LoadedIn(files, size) ==
    [i \in 1..size |-> IF 0 \in DOMAIN files /\ i <= Len(files[0]) THEN files[0][i] ELSE 0]

\* The type of a loaded journal.
LEMMA LoadedType ==
    ASSUME NEW files, IsPageFiles(files), NEW size \in Nat
    PROVE  /\ LoadedIn(files, size) \in [1..size -> Byte] /\ LoadedIn(files, size) \in Seq(Byte)
           /\ Len(LoadedIn(files, size)) = size
BY BytesAssumption DEF LoadedIn, IsPageFiles

\* What a journal shows, and what is saved of it.
LEMMA FilesOfJournal ==
    ASSUME ~IsDb, IInv, IInv'
    PROVE  /\ Live = IF is_open THEN (IF journal_data # << >> THEN journal_data
                                      ELSE LoadedIn(page, file_size)) ELSE NoFile
           /\ Live' = IF is_open' THEN (IF journal_data' # << >> THEN journal_data'
                                        ELSE LoadedIn(page', file_size')) ELSE NoFile
           /\ Saved = IF size_key = NoFile THEN NoFile ELSE LoadedIn(page, size_key)
           /\ Saved' = IF size_key' = NoFile THEN NoFile ELSE LoadedIn(page', size_key')
           /\ file_size \in Nat /\ file_size' \in Nat
           /\ size_key # NoFile => size_key \in Nat
           /\ IsPageFiles(page) /\ IsPageFiles(page') /\ journal_data \in Seq(Byte)
BY DEF IInv, TypeOK, Live, Saved, Contents, LoadedPage, LoadedIn

\* A string of bytes is a file.
LEMMA BytesAreAFile ==
    ASSUME NEW c \in Seq(Byte) PROVE c # NoFile
<1>1. c \in Seq(Byte \cup {Unknown})
  OBVIOUS
<1> QED  BY <1>1, BytesAssumption

\* xWrite on a journal that has been read is a write of the contract, which
\* reaches nothing that is saved.
LEMMA JournalWrites ==
    ASSUME ~IsDb, IInv, IInv', NEW data \in Chunks, NEW ofs \in 0..MaxSize,
           HasRead, WriteJournal(data, ofs)
    PROVE  Contract!Write(ofs, data)
<1> USE SizesAssumption
<1>1. /\ is_open /\ is_open' /\ page' = page /\ size_key' = size_key
      /\ journal_data' = Overwritten(journal_data, data, ofs)
      /\ data \in Seq(Byte) /\ Len(data) \in Nat \ {0} /\ ofs \in Nat /\ journal_data \in Seq(Byte)
  BY ChunkType DEF WriteJournal, disk, IInv, TypeOK
<1>2. /\ Live = journal_data
  <2>1. CASE journal_data # << >>
    BY <1>1, <2>1, FilesOfJournal
  <2>2. CASE journal_data = << >>
    <3>1. file_size = 0
      BY <2>2 DEF HasRead
    <3> QED  BY <1>1, <2>2, <3>1, FilesOfJournal DEF LoadedIn
  <2> QED  BY <2>1, <2>2
<1>3. /\ Live' = Overwritten(Live, data, ofs) /\ Live' \in Seq(Byte)
      /\ Len(Live') = Contract!Larger(Len(Live), ofs + Len(data))
  <2>1. /\ Overwritten(Live, data, ofs) \in Seq(Byte)
        /\ Len(Overwritten(Live, data, ofs)) = Contract!Larger(Len(Live), ofs + Len(data))
    <3>1. Live \in Seq(Byte) /\ data \in Seq(Byte) /\ ofs \in Nat
      BY <1>1, <1>2
    <3>2. Overwritten(Live, data, ofs) \in Seq(Byte)
      BY <3>1, OverwrittenType
    <3>3. Len(Overwritten(Live, data, ofs)) =
            IF ofs + Len(data) > Len(Live) THEN ofs + Len(data) ELSE Len(Live)
      BY <3>1, OverwrittenLength
    <3> QED  BY <3>1, <3>2, <3>3 DEF Contract!Larger
  <2>2. Len(Overwritten(Live, data, ofs)) # 0
    BY <1>1, <1>2, OverwrittenLength
  <2>3. journal_data' # << >>
    BY <1>1, <1>2, <2>2
  <2> QED  BY <1>1, <1>2, <2>1, <2>3, FilesOfJournal
<1>4. Contract!AgreeOutside(Live', Live, ofs, Len(data))
  BY <1>1, <1>2, <1>3 DEF Contract!AgreeOutside, Overwritten
<1>5. \A k \in 1..Len(data) : Live'[ofs + k] = data[k]
  BY <1>1, <1>2, <1>3 DEF Overwritten
<1>6. Live # NoFile /\ Live' \in [1..Contract!Larger(Len(Live), ofs + Len(data)) -> Cells]
  BY <1>1, <1>2, <1>3, BytesAreAFile DEF Cells
<1>7. CASE size_key = NoFile
  <2>1. Saved = NoFile /\ Saved' = NoFile
    BY <1>1, <1>7, FilesOfJournal
  <2> QED
    BY <1>4, <1>5, <1>6, <2>1 DEF Contract!Write, Contract!Cell, Cells
<1>8. CASE size_key # NoFile
  <2>1. Saved' = Saved /\ Saved = LoadedIn(page, size_key) /\ size_key \in Nat /\ IsPageFiles(page)
    BY <1>1, <1>8, FilesOfJournal
  <2>2. /\ Saved \in [1..size_key -> Byte] /\ Saved \in Seq(Byte) /\ Len(Saved) = size_key
    BY <2>1, LoadedType
  <2>3. Saved # NoFile /\ Saved' \in Contract!Scrambled(Saved, ofs, Len(data))
    BY <2>1, <2>2, BytesAreAFile DEF Contract!Scrambled, Contract!AgreeOutside, Contract!Cell
  <2>4. \A k \in 1..Len(data) : ofs + k <= Len(Saved) => Saved'[ofs + k] \in {Saved[ofs + k], data[k]}
    BY <2>1
  <2> QED
    BY <1>4, <1>5, <1>6, <2>3, <2>4 DEF Contract!Write, Contract!Cell, Cells
<1> QED  BY <1>7, <1>8

\* Killed while it stores, a journal is of bytes that were being stored, of
\* bytes that were there, and of zeros.
LEMMA JournalKilledInSync ==
    ASSUME ~IsDb, IInv, IInv', SizesInv, KilledInSync
    PROVE  Contract!KilledInSync
<1> USE SizesAssumption
<1>1. /\ is_open /\ is_open' = FALSE /\ journal_data \in Seq(Byte) /\ file_size \in Nat
      /\ IsPageFiles(page) /\ IsPageFiles(page')
  BY FilesOfJournal DEF KilledInSync, HandleLost
<1>2. Live' = NoFile /\ Live # NoFile
        /\ Live = IF journal_data # << >> THEN journal_data ELSE LoadedIn(page, file_size)
  BY <1>1, FilesOfJournal, LoadedType, BytesAreAFile
<1>3. ASSUME NEW size \in 0..MaxSize, Saved' = LoadedIn(page', size),
             \A i \in 1..size : LoadedIn(page', size)[i] \in Contract!CellsAt(Live, i) \cup {0}
      PROVE  Contract!KilledInSync
  <2>1. LoadedIn(page', size) \in [1..size -> Byte]
    BY <1>1, LoadedType
  <2> QED
    BY <1>2, <1>3, <2>1 DEF Contract!KilledInSync, Contract!Cell
<1>4. CASE /\ journal_data # << >> /\ size_key' = size_key
           /\ page' \in ShortPages(0, journal_data) \cup {PutPage(0, journal_data)}
  <2>1. CASE size_key = NoFile
    <3>1. Saved = NoFile /\ Saved' = NoFile
      BY <1>4, <2>1, FilesOfJournal
    <3> QED  BY <1>2, <3>1 DEF Contract!KilledInSync
  <2>2. CASE size_key # NoFile
    <3>1. size_key \in 0..MaxSize /\ Saved' = LoadedIn(page', size_key)
      BY <1>4, <2>2, FilesOfJournal DEF SizesInv
    <3>2. PICK k \in 0 .. Len(journal_data) : page' = PutPage(0, SubSeq(journal_data, 1, k))
      <4>1. CASE page' = PutPage(0, journal_data)
        <5>1. SubSeq(journal_data, 1, Len(journal_data)) = journal_data
          BY <1>1
        <5>2. page' = PutPage(0, SubSeq(journal_data, 1, Len(journal_data)))
          BY <4>1, <5>1
        <5>3. Len(journal_data) \in 0 .. Len(journal_data)
          BY <1>1
        <5> QED  BY <5>2, <5>3
      <4>2. CASE page' \in ShortPages(0, journal_data)
        BY <1>1, <4>2 DEF ShortPages
      <4> QED  BY <1>4, <4>1, <4>2
    <3>3. /\ 0 \in DOMAIN page' /\ Len(page'[0]) = k
          /\ \A i \in 1..k : page'[0][i] = journal_data[i] /\ i \in DOMAIN journal_data
      BY <1>1, <3>2 DEF PutPage
    <3>4. \A i \in 1..size_key : LoadedIn(page', size_key)[i] \in Contract!CellsAt(Live, i) \cup {0}
      BY <1>2, <1>4, <3>1, <3>3 DEF LoadedIn, Contract!CellsAt
    <3> QED  BY <1>3, <3>1, <3>4
  <2> QED  BY <2>1, <2>2
<1>5. CASE /\ page' = IF journal_data = << >> THEN page ELSE PutPage(0, journal_data)
           /\ size_key' \in LeadingDigits(XFileSize) \cup {0}
  <2>1. /\ XFileSize = Len(Live) /\ XFileSize \in Nat /\ XFileSize <= MaxSize
        /\ Live \in Seq(Byte)
    BY <1>1, <1>2, LoadedType DEF XFileSize, SizesInv
  <2>2. size_key' \in 0..MaxSize /\ size_key' \in 0..Len(Live) /\ size_key' # NoFile
    BY <1>5, <2>1, BytesAssumption DEF LeadingDigits
  <2>3. Saved' = LoadedIn(page', size_key')
    BY <2>2, FilesOfJournal
  <2>4. \A i \in 1..size_key' : LoadedIn(page', size_key')[i] = Live[i] /\ i \in DOMAIN Live
    <3>1. CASE journal_data = << >>
      <4>1. page' = page /\ Live = LoadedIn(page, file_size)
        BY <1>2, <1>5, <3>1
      <4> QED  BY <1>1, <2>1, <2>2, <4>1 DEF LoadedIn
    <3>2. CASE journal_data # << >>
      <4>1. 0 \in DOMAIN page' /\ page'[0] = journal_data /\ Live = journal_data
        BY <1>2, <1>5, <3>2 DEF PutPage
      <4> QED  BY <2>1, <2>2, <4>1 DEF LoadedIn
    <3> QED  BY <3>1, <3>2
  <2>5. \A i \in 1..size_key' : LoadedIn(page', size_key')[i] \in Contract!CellsAt(Live, i) \cup {0}
    BY <1>2, <2>4 DEF Contract!CellsAt
  <2> QED  BY <1>3, <2>2, <2>3, <2>5
<1> QED  BY <1>4, <1>5 DEF KilledInSync

-----------------------------------------------------------------------------
(* The steps of both.                                                      *)

\* An open file and a stored file are no NoFile.
LEMMA FilesExist ==
    ASSUME IInv, IInv'
    PROVE  (is_open <=> Live # NoFile) /\ (size_key = NoFile <=> Saved = NoFile)
<1>1. CASE IsDb
  BY <1>1, FilesOfDb, ContentsOfDb
<1>2. CASE ~IsDb
  BY <1>2, FilesOfJournal, LoadedType, BytesAreAFile
<1> QED  BY <1>1, <1>2

\* What is saved depends on the disk alone, and what is shown on the disk and
\* the handle.
LEMMA FilesStay ==
    /\ UNCHANGED disk => Saved' = Saved
    /\ page' = page /\ is_open' = is_open /\ file_size' = file_size /\ journal_data' = journal_data
         => Live' = Live
<1>1. ASSUME page' = page
      PROVE  \A size : (Contents(size))' = Contents(size)
  <2>1. \A p, n, offset : (PageCells(p, n, offset))' = PageCells(p, n, offset)
    BY <1>1 DEF PageCells
  <2>2. \A size : (LoadedPage(size))' = LoadedPage(size)
    BY <1>1 DEF LoadedPage
  <2> QED  BY <2>1, <2>2 DEF Contents
<1>2. UNCHANGED disk => Saved' = Saved
  BY <1>1 DEF disk, Saved
<1>3. page' = page /\ is_open' = is_open /\ file_size' = file_size /\ journal_data' = journal_data
        => Live' = Live
  BY <1>1 DEF Live
<1> QED  BY <1>2, <1>3

\* xOpen finds what is saved.
LEMMA OpenStep ==
    ASSUME IInv, IInv', Open PROVE Contract!Open
<1>1. /\ ~is_open /\ Live' = (Contents(file_size))' /\ file_size' = StoredSize
      /\ UNCHANGED disk
  BY DEF Open, Live
<1>2. CASE size_key = NoFile
  <2>1. Live' = << >> /\ Saved = NoFile
    BY <1>1, <1>2, NoContents DEF StoredSize, Saved
  <2> QED  BY <1>1, <2>1, FilesExist, FilesStay DEF Contract!Open
<1>3. CASE size_key # NoFile
  <2>1. size_key' = size_key /\ file_size' = size_key
    BY <1>1, <1>3 DEF StoredSize, disk
  <2>2. Saved' = (Contents(size_key))'
    BY <1>3, <2>1 DEF Saved
  <2>3. Live' = Saved' /\ Saved' = Saved
    BY <1>1, <2>1, <2>2, FilesStay
  <2> QED  BY <1>1, <1>3, <2>3, FilesExist DEF Contract!Open
<1> QED  BY <1>2, <1>3

\* xSync saves what the handle shows, and shows the same afterwards.
LEMMA SyncImplements ==
    ASSUME ContractAssumption, IInv, IInv', Sync PROVE Contract!Sync
<1>1. /\ is_open /\ is_open' = is_open /\ journal_data' = journal_data /\ file_size' = XFileSize
  BY DEF Sync, SetSize
<1>2. Live' = Live
  <2>1. CASE journal_data # << >>
    BY <1>1, <2>1 DEF Live
  <2>2. CASE journal_data = << >>
    BY <1>1, <2>2, FilesStay DEF Sync, StoreJournal, XFileSize
  <2> QED  BY <2>1, <2>2
<1>3. Saved' = Live' \/ (Saved' = NoFile /\ Live' = << >>)
  BY SyncStep DEF ContractAssumption
<1>4. Saved' = NoFile => Saved = NoFile \/ Saved' = Live'
  <2>1. ASSUME Saved' = NoFile, Saved # NoFile PROVE FALSE
    <3>1. size_key # NoFile
      BY <2>1, FilesExist
    <3>2. size_key' \in {size_key, file_size'}
      BY DEF Sync, StoreSize, ContractAssumption
    <3>3. size_key' \in Nat /\ size_key' # NoFile
      BY <3>1, <3>2, BytesAssumption DEF IInv, TypeOK
    <3>4. Saved' # NoFile
      <4>1. CASE IsDb
        BY <3>3, <4>1, FilesOfDb, ContentsOfDb
      <4>2. CASE ~IsDb
        BY <3>3, <4>2, FilesOfJournal, LoadedType, BytesAreAFile
      <4> QED  BY <4>1, <4>2
    <3> QED  BY <2>1, <3>4
  <2> QED  BY <2>1
<1> QED  BY <1>1, <1>2, <1>3, <1>4, FilesExist DEF Contract!Sync

\* Every step of the file is a step of the contract, or none.
LEMMA ContractStep ==
    ASSUME ContractAssumption, IInv, IInv', SizesInv, [Next]_vars
    PROVE  Contract!Next \/ UNCHANGED <<Live, Saved>>
<1>1. CASE Open
  BY <1>1, OpenStep DEF Contract!Next
<1>2. CASE Sync
  BY <1>2, SyncImplements DEF Contract!Next
<1>3. CASE Close
  <2>1. Live # NoFile /\ Live' = NoFile /\ Saved' = Saved
    BY <1>3, FilesExist, FilesStay DEF Close, Live
  <2> QED  BY <2>1 DEF Contract!Next, Contract!Close
<1>4. CASE Delete \/ KilledInDelete
  <2>1. ~is_open /\ ~is_open' /\ size_key' = NoFile
    BY <1>4 DEF Delete, KilledInDelete, HandleLost, handle
  <2>2. Live = NoFile /\ Live' = NoFile /\ Saved' = NoFile
    BY <2>1 DEF Live, Saved
  <2> QED  BY <2>2 DEF Contract!Next, Contract!Delete
<1>5. CASE DeleteFails \/ UNCHANGED vars
  BY <1>5, FilesStay DEF DeleteFails, vars, disk, handle
<1>6. CASE Killed
  <2>1. Live # NoFile /\ Live' = NoFile /\ Saved' = Saved
    BY <1>6, FilesExist, FilesStay DEF Killed, HandleLost, Live
  <2> QED  BY <2>1 DEF Contract!Next, Contract!KilledInSync
<1>7. CASE KilledInSync
  BY <1>7, DbKilledInSync, JournalKilledInSync DEF Contract!Next
<1>8. ASSUME NEW n \in 1..MaxSize, NEW ofs \in 0..MaxSize, Read(n, ofs)
      PROVE  UNCHANGED <<Live, Saved>>
  <2>1. /\ UNCHANGED disk /\ page' = page /\ is_open' = is_open /\ file_size' = file_size
        /\ journal_data' = IF IsDb THEN journal_data ELSE LoadedJournal
    BY <1>8 DEF Read, disk
  <2>2. CASE journal_data' = journal_data
    BY <2>1, <2>2, FilesStay
  <2>3. CASE journal_data' # journal_data
    <3>1. ~IsDb /\ journal_data = << >> /\ journal_data' = LoadedPage(file_size) /\ file_size > 0
      BY <2>1, <2>3 DEF LoadedJournal
    <3>2. journal_data' # << >>
      BY <3>1, LoadedPageType DEF IInv, TypeOK
    <3>3. Live' = Live
      BY <2>1, <3>1, <3>2 DEF Live, Contents
    <3> QED  BY <2>1, <3>3, FilesStay
  <2> QED  BY <2>2, <2>3
<1>9. ASSUME NEW data \in Chunks, NEW ofs \in 0..MaxSize, WriteDb(data, ofs) PROVE Contract!Next
  <2>1. IsDb
    BY <1>9 DEF WriteDb
  <2> QED  BY <1>9, <2>1, DbWrites DEF Contract!Next
<1>10. ASSUME NEW data \in Chunks, NEW ofs \in 0..MaxSize,
              WriteDbFails(data, ofs) \/ KilledInWrite(data, ofs)
       PROVE  Contract!Next
  <2>1. IsDb
    BY <1>10 DEF WriteDbFails, KilledInWrite
  <2> QED  BY <1>10, <2>1, DbFails DEF Contract!Next
<1>11. ASSUME NEW data \in Chunks, NEW ofs \in 0..MaxSize, HasRead, WriteJournal(data, ofs)
       PROVE  Contract!Next
  <2>1. ~IsDb
    BY <1>11 DEF WriteJournal
  <2> QED  BY <1>11, <2>1, JournalWrites DEF Contract!Next
<1>12. ASSUME NEW size \in 0..MaxSize, Truncate(size) PROVE Contract!Next
  <2>1. IsDb
    BY <1>12 DEF Truncate, ContractAssumption
  <2> QED  BY <1>12, <2>1, DbTruncates DEF Contract!Next
<1>13. ASSUME NEW data \in Chunks, NEW ofs \in 0..MaxSize, WriteDbUnnoticed(data, ofs) PROVE FALSE
  BY <1>13 DEF WriteDbUnnoticed, ContractAssumption
<1> QED
  BY <1>1, <1>2, <1>3, <1>4, <1>5, <1>6, <1>7, <1>8, <1>9, <1>10, <1>11, <1>12, <1>13 DEF Next

\* Page files, "file_size" and journal_data together are the file that SQLite
\* expects: with one page size, and stores that fail only where idbvfs looks,
\* every history of calls, failed page stores and ends of the process, between
\* calls and inside them, is one that the contract allows.
THEOREM FileImplementsContract ==
    ASSUME ContractAssumption PROVE Spec => FileContract
<1>1. Init => Contract!Init
  BY DEF Init, Contract!Init, Live, Saved
<1>2. IInv /\ IInv' /\ SizesInv /\ [Next]_vars => [Contract!Next]_<<Live, Saved>>
  BY ContractStep
<1>3. Spec => []SizesInv
  <2>1. IInv /\ SizesInv /\ [Next]_vars => SizesInv'
    BY SizesStep
  <2> QED  BY <2>1, SizesInit, InvCorrect, PTL DEF Spec
<1> QED  BY <1>1, <1>2, <1>3, InvCorrect, PTL DEF Spec, FileContract, Contract!Spec, Contract!vars
=============================================================================
