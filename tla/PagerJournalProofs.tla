------------------------ MODULE PagerJournalProofs ------------------------
(***************************************************************************)
(* Inv of PagerInvariant is kept while a transaction writes its journal:   *)
(* by pager_open_journal, pagerAddPageToRollbackJournal, sqlite3PagerWrite *)
(* and syncJournal, and by the beginning of a spill and of COMMIT.         *)
(*                                                                         *)
(* First what a VFS call or a kill does to a file, and the lists of calls; *)
(* then each function of the pager with its calls, one lemma a call.       *)
(***************************************************************************)
EXTENDS PagerInvariant, SequenceTheorems, FiniteSetTheorems

\* The pages of a file are these cells.
Reads(file, cells, size) ==
    \E T : /\ file \in [1..size -> T]
           /\ \A p \in 1..size : p <= MaxPages => file[p] = cells[p]

\* What a process that opens the files finds: the base of the files.
LEMMA FilesRecover ==
    ASSUME NEW base \in Seq(Nat), Len(base) <= MaxPages, NEW cells, NEW size \in Nat,
           NEW s \in Seq(Nat), Files(base, cells, size, s),
           NEW file, Reads(file, cells, size)
    PROVE  Recovery(file, s) = base
<1>0. Len(base) \in Nat /\ MaxPages \in Nat /\ Len(s) \in Nat
  BY BoundsAssumption
<1>a. PICK T : file \in [1..size -> T]
  BY DEF Reads
<1>b. \A p \in 1..size : p <= MaxPages => file[p] = cells[p]
  BY DEF Reads
<1>1. Len(file) = size /\ file = [p \in 1..size |-> file[p]]
  BY <1>a
<1>2. CASE Hot(base, cells, size, s)
  <2>1. Valid(s) /\ s[2] = Len(base) /\ Len(base) <= size
    BY <1>2 DEF Hot
  <2>2. CASE size = 0
    <3>1. ~IsHot(Len(file), s)
      BY <1>1, <2>2 DEF IsHot
    <3>2. base = << >> /\ file = << >>
      BY <1>0, <1>a, <2>1, <2>2
    <3> QED  BY <3>1, <3>2 DEF Recovery
  <2>3. CASE size > 0
    <3>1. Len(s) >= 3 /\ s[1] > MaxPages
      BY <1>0, <2>1 DEF Valid, HasHeader, IsMagic, NoHeader, Sector
    <3>2. IsHot(Len(file), s)
      BY <1>0, <1>1, <2>3, <3>1 DEF IsHot
    <3>3. Sound(s, base) /\ Same(base, cells, PlayedPages(s, NoHeader))
      BY <1>2 DEF Hot
    <3>4. \A at \in Played(s, NoHeader) : s[at + 2] = base[s[at + 1]]
      BY <2>1, <3>3, PlayedSound
    <3>5. \A p \in 1..Len(base) : p \in PagesAt(s, Played(s, NoHeader)) \/ (p <= Len(file) /\ file[p] = base[p])
      <4>1. \A p \in 1..Len(base) : p \in 1..size /\ p <= MaxPages
        BY <1>0, <2>1
      <4>2. \A p \in 1..Len(base) : file[p] = cells[p]
        BY <1>b, <4>1
      <4>3. \A p \in 1..Len(base) : cells[p] = base[p] \/ p \in PagesAt(s, Played(s, NoHeader))
        BY <3>3 DEF Same, PlayedPages
      <4>4. Len(file) = size
        BY <1>1
      <4>5. ASSUME NEW p \in 1..Len(base), p \notin PagesAt(s, Played(s, NoHeader))
            PROVE  p <= Len(file) /\ file[p] = base[p]
        <5>1. p \in 1..size /\ file[p] = cells[p] /\ cells[p] = base[p]
          BY <4>1, <4>2, <4>3, <4>5
        <5> QED  BY <4>4, <5>1
      <4> QED  BY <4>5
    <3>6. Restored(file, Len(base), s, Played(s, NoHeader)) = base
      BY <3>4, <3>5, RestoresBase
    <3> QED  BY <2>1, <3>2, <3>6 DEF Recovery, Valid
  <2> QED  BY <2>2, <2>3
<1>3. CASE Clean(base, cells, size, s)
  <2>1. /\ size = Len(base) /\ \A p \in 1..Len(base) : cells[p] = base[p]
        /\ Valid(s) => size = 0
    BY <1>3 DEF Clean, Same
  <2>2. file = base
    <3>1. \A p \in 1..size : p <= MaxPages
      BY <1>0, <2>1
    <3>2. \A p \in 1..size : file[p] = base[p]
      BY <1>b, <2>1, <3>1
    <3>3. base = [p \in 1..size |-> base[p]]
      BY <2>1
    <3> QED  BY <1>1, <3>2, <3>3
  <2>3. ~ (IsHot(Len(file), s) /\ HasHeader(s, 0, NoHeader))
    BY <1>1, <2>1 DEF IsHot, Valid
  <2> QED  BY <2>2, <2>3 DEF Recovery
<1> QED  BY <1>2, <1>3 DEF Files

\* A header that is read is live.
LEMMA ValidFacts ==
    ASSUME NEW s \in Seq(Nat)
    PROVE  /\ Valid(s) <=> Len(s) >= 3 /\ IsMagic(s[1]) /\ s[3] # 0
           /\ Valid(s) => ~Dead(s)
           /\ Dead(s) <=> s = << >> \/ s[1] = 0
           /\ \A n \in Nat : n > 0 => (IsHot(n, s) <=> ~Dead(s))
           /\ ~IsHot(0, s)
<1>1. Len(s) \in Nat /\ (s # << >> => s[1] \in Nat) /\ MaxPages \in Nat
  BY BoundsAssumption
<1>2. Valid(s) <=> Len(s) >= 3 /\ IsMagic(s[1]) /\ s[3] # 0
  BY DEF Valid, HasHeader, NoHeader, Sector
<1>3. Valid(s) => s # << >> /\ s[1] # 0
  BY <1>1, <1>2 DEF IsMagic
<1> QED  BY <1>2, <1>3 DEF Dead, IsHot

\* The journal of a transaction that has not synced it is no header to read.
LEMMA SafeClean ==
    ASSUME NEW base \in Seq(Nat), NEW cells, NEW size, NEW s, NEW d,
           Safe(base, cells, size, s, d, 0)
    PROVE  Clean(base, cells, size, s) /\ ~Valid(s)
BY DEF Safe, Clean

\* Files that are base are safe to begin a journal over.
LEMMA CleanSafe ==
    ASSUME NEW base \in Seq(Nat), NEW cells, NEW size, NEW s, NEW d,
           Clean(base, cells, size, s), ~Valid(s)
    PROVE  Safe(base, cells, size, s, d, 0)
BY DEF Safe, Clean

\* The stored journal of a transaction that may have written to the database
\* file restores it.
LEMMA SafeHot ==
    ASSUME NEW base \in Seq(Nat), Len(base) <= MaxPages, NEW cells, NEW size,
           NEW s \in Seq(Nat), NEW d \in Seq(Nat), NEW h \in Nat, h > 0,
           NEW seed \in Nat \ {0},
           Safe(base, cells, size, s, d, h), Begun(d, base, seed), Chained(d, h)
    PROVE  Hot(base, cells, size, s)
<1>1. /\ size = Len(base) /\ h <= Len(s) /\ Sound(s, base) /\ \A i \in 1..h : s[i] = d[i]
      /\ Same(base, cells, Recorded(d, h))
  <2>1. h # 0
    OBVIOUS
  <2> QED  BY <2>1, Zenon DEF Safe
<1>2. OnSector(h) /\ IsMagic(d[1]) /\ d[2] = Len(base) /\ d[3] = seed
  BY DEF Chained, Begun, Sector, OnSector
<1>3. h >= 3
  <2>1. OnSector(0)
    BY DEF OnSector
  <2>2. 0 + 3 <= h \/ 0 >= h + 3
    BY <1>2, <2>1, Apart
  <2> QED  BY <2>2
<1>4. 1 \in 1..h /\ 2 \in 1..h /\ 3 \in 1..h
  BY <1>3
<1>5. IsMagic(s[1]) /\ s[2] = Len(base) /\ s[3] = seed
  BY <1>1, <1>2, <1>4
<1>6. Len(s) >= 3
  <2>1. Len(s) \in Nat
    OBVIOUS
  <2> QED  BY <1>1, <1>3, <2>1
<1>7. Valid(s)
  BY <1>5, <1>6, ValidFacts
<1>8. Chained(s, h) /\ Recorded(s, h) = Recorded(d, h)
  BY <1>1, ChainedSame
<1>9. ASSUME NEW p \in 1..Len(base), p \in Recorded(d, h)
      PROVE  p \in PlayedPages(s, NoHeader)
  <2>1. PICK at \in Places(s) : at < h /\ s[at + 1] \in 1 .. MaxPages /\ p = s[at + 1]
    BY <1>8, <1>9 DEF Recorded, PagesAt
  <2>2. NoHeader \notin 0 .. h - 1
    BY DEF NoHeader
  <2>3. s[at + 1] <= s[2]
    BY <1>5, <1>9, <2>1
  <2>4. s[3] # 0
    BY <1>5
  <2>5. at \in Played(s, NoHeader)
    BY <1>8, <2>1, <2>2, <2>3, <2>4, ChainPlayed
  <2> QED  BY <2>1, <2>5 DEF PlayedPages, PagesAt
<1>10. Same(base, cells, PlayedPages(s, NoHeader))
  BY <1>1, <1>9 DEF Same
<1>11. Len(base) <= size
  BY <1>1
<1> QED  BY <1>1, <1>5, <1>7, <1>10, <1>11 DEF Hot

\* Writes behind h.
LEMMA SafeKept ==
    ASSUME NEW base \in Seq(Nat), NEW cells, NEW size, NEW s, NEW d \in Seq(Nat),
           NEW h \in Nat, Safe(base, cells, size, s, d, h), Chained(d, h),
           NEW new \in Seq(Nat), h <= Len(new), \A i \in 1..h : new[i] = d[i]
    PROVE  Safe(base, cells, size, s, new, h)
<1>1. Recorded(new, h) = Recorded(d, h)
  BY ChainedSame
<1> QED  BY <1>1 DEF Safe

\* A sync of the journal.
LEMMA SafeSynced ==
    ASSUME NEW base \in Seq(Nat), NEW cells, NEW size, NEW s, NEW d \in Seq(Nat), NEW h \in Nat,
           Safe(base, cells, size, s, d, h), NEW end \in Nat \ {0}, NEW seed, NEW pages,
           Sealed(d, base, seed, end, pages), Recorded(d, h) \subseteq pages
    PROVE  Safe(base, cells, size, d, d, end)
<1>1. Sound(d, base) /\ end <= Len(d) /\ pages = Recorded(d, end)
  BY DEF Sealed, Begun, Chained
<1>2. size = Len(base) /\ Same(base, cells, Recorded(d, h) \cup {})
  BY DEF Safe, Same
<1>3. Same(base, cells, Recorded(d, end))
  BY <1>1, <1>2 DEF Same
<1> QED  BY <1>1, <1>2, <1>3 DEF Safe

\* xSync of a journal whose last section is not sealed keeps the pages safe.
LEMMA SafeStored ==
    ASSUME NEW base \in Seq(Nat), NEW cells, NEW size, NEW s, NEW d \in Seq(Nat), NEW h \in Nat,
           Safe(base, cells, size, s, d, h), NEW n, NEW seed, NEW pages,
           Unsealed(d, base, seed, h, n, pages)
    PROVE  Safe(base, cells, size, d, d, h)
<1>1. Sound(d, base) /\ h <= Len(d) /\ d[h + 1] = 0
  BY DEF Unsealed, Begun, Chained
<1>2. CASE h = 0
  <2>1. ~Valid(d)
    <3>1. d[1] = 0 /\ MaxPages \in Nat
      BY <1>1, <1>2, BoundsAssumption
    <3> QED  BY <3>1, ValidFacts DEF IsMagic
  <2> QED  BY <1>1, <1>2, <2>1 DEF Safe
<1>3. CASE h # 0
  BY <1>1, <1>3 DEF Safe
<1> QED  BY <1>2, <1>3

\* Another journal beside a database file that is whole.
LEMMA SafeWith ==
    ASSUME NEW base \in Seq(Nat), NEW cells, NEW size, NEW s, NEW d,
           Safe(base, cells, size, s, d, 0),
           NEW new \in Seq(Nat), Dead(new) \/ Sound(new, base), Valid(new) => new[2] = Len(base)
    PROVE  Files(base, cells, size, new)
<1>1. size = Len(base) /\ Same(base, cells, {})
  BY DEF Safe
<1>2. CASE Valid(new)
  <2>1. Same(base, cells, PlayedPages(new, NoHeader)) /\ Len(base) <= size
    BY <1>1 DEF Same
  <2>2. ~Dead(new)
    BY <1>2, ValidFacts
  <2> QED  BY <1>2, <2>1, <2>2 DEF Files, Hot
<1>3. CASE ~Valid(new)
  BY <1>1, <1>3 DEF Files, Clean
<1> QED  BY <1>2, <1>3

\* What is left of a journal whose store was interrupted.
Remains(d, s) == \E k, n \in Nat : s = Padded(Padded(d, k), n)

\* A journal that a kill cut short holds nothing that xSync did not write.
LEMMA RemainsFacts ==
    ASSUME NEW d \in Seq(Nat), NEW s, Remains(d, s)
    PROVE  /\ s \in Seq(Nat)
           /\ \A i \in 1..Len(s) : s[i] = 0 \/ (i <= Len(d) /\ s[i] = d[i])
           /\ \A base \in Seq(Nat) : Sound(d, base) => Sound(s, base)
           /\ Valid(s) => s[2] = d[2]
           /\ d[1] = 0 => Dead(s)
<1>1. PICK k \in Nat, n \in Nat : s = Padded(Padded(d, k), n)
  BY DEF Remains
<1>2. PICK cut \in Seq(Nat) : cut = Padded(d, k)
  BY PaddedFacts
<1>3. /\ Len(cut) = k /\ \A i \in 1..k : cut[i] = IF i <= Len(d) THEN d[i] ELSE 0
  BY <1>2, PaddedFacts
<1>4. s = Padded(cut, n)
  BY <1>1, <1>2
<1>5. /\ s \in Seq(Nat) /\ Len(s) = n /\ \A i \in 1..n : s[i] = IF i <= Len(cut) THEN cut[i] ELSE 0
  BY <1>4, PaddedFacts
<1>6. \A i \in 1..n : s[i] = IF i <= k /\ i <= Len(d) THEN d[i] ELSE 0
  BY <1>3, <1>5
<1>7. \A base \in Seq(Nat) : Sound(d, base) => Sound(s, base)
  BY <1>2, <1>4, SoundPadded
<1>8. Valid(s) => s[2] = d[2]
  <2>1. SUFFICES ASSUME Valid(s) PROVE s[2] = d[2]
    OBVIOUS
  <2>2. n >= 3 /\ s[3] # 0
    BY <1>5, <2>1, ValidFacts
  <2>3. 3 <= k /\ 3 <= Len(d)
    BY <1>6, <2>2
  <2>4. 2 \in 1..n /\ 2 <= k /\ 2 <= Len(d)
    BY <2>2, <2>3
  <2> QED  BY <1>6, <2>4
<1>9. d[1] = 0 => Dead(s)
  <2>1. CASE n = 0
    <3>1. s = << >>
      BY <1>5, <2>1
    <3> QED  BY <3>1 DEF Dead
  <2>2. CASE n > 0
    <3>1. 1 \in 1..n
      BY <2>2
    <3> QED  BY <1>6, <3>1 DEF Dead
  <2> QED  BY <2>1, <2>2
<1> QED  BY <1>5, <1>6, <1>7, <1>8, <1>9

\* xSync itself, and a store that ends before file_size, are such remains.
LEMMA RemainsAll ==
    ASSUME NEW d \in Seq(Nat)
    PROVE  Remains(d, d) /\ \A n \in Nat : Remains(d, Padded(d, n))
<1>1. \A n \in Nat : Padded(d, n) = Padded(Padded(d, Len(d)), n)
  <2>1. d = Padded(d, Len(d))
    BY DEF Padded
  <2> QED  BY <2>1
<1>2. d = Padded(Padded(d, Len(d)), Len(d))
  BY DEF Padded
<1>3. Len(d) \in Nat
  OBVIOUS
<1> QED  BY <1>1, <1>2, <1>3 DEF Remains

\* The process is killed in the first sync of the journal.
LEMMA SafeRemains ==
    ASSUME NEW base \in Seq(Nat), NEW cells, NEW size, NEW s, NEW d \in Seq(Nat),
           Safe(base, cells, size, s, d, 0), NEW seed, Begun(d, base, seed),
           NEW new, Remains(d, new)
    PROVE  Files(base, cells, size, new) /\ new \in Seq(Nat)
<1>1. Sound(d, base) /\ d[2] = Len(base)
  BY DEF Begun
<1>2. new \in Seq(Nat) /\ Sound(new, base) /\ (Valid(new) => new[2] = Len(base))
  BY <1>1, RemainsFacts
<1> QED  BY <1>2, SafeWith

\* The process is killed in another one, before it has stored file_size.
LEMMA SafeResized ==
    ASSUME NEW base \in Seq(Nat), NEW cells, NEW size, NEW s \in Seq(Nat), NEW d \in Seq(Nat),
           NEW h \in Nat \ {0}, Safe(base, cells, size, s, d, h), NEW seed, Begun(d, base, seed),
           h <= Len(d), NEW n \in Nat, n = Len(s)
    PROVE  Safe(base, cells, size, Padded(d, n), d, h) /\ Padded(d, n) \in Seq(Nat)
<1>1. PICK new \in Seq(Nat) : new = Padded(d, n)
  BY PaddedFacts
<1>2. /\ Len(new) = n /\ \A i \in 1..n : new[i] = IF i <= Len(d) THEN d[i] ELSE 0
  BY <1>1, PaddedFacts
<1>3. Sound(new, base)
  BY <1>1, SoundPadded DEF Begun
<1>4. /\ size = Len(base) /\ h <= Len(s) /\ Same(base, cells, Recorded(d, h))
  BY DEF Safe
<1>5. h <= Len(new) /\ \A i \in 1..h : new[i] = d[i]
  <2>1. \A i \in 1..h : i \in 1..n /\ i <= Len(d)
    BY <1>4
  <2> QED  BY <1>2, <1>4, <2>1
<1> QED  BY <1>1, <1>3, <1>4, <1>5 DEF Safe

\* A page of the database file is written, whole or not.
LEMMA SafeOverwritten ==
    ASSUME NEW base \in Seq(Nat), NEW cells, NEW size, NEW s, NEW d, NEW h, h # 0,
           Safe(base, cells, size, s, d, h), NEW p, NEW new,
           p \in Recorded(d, h) \/ p \notin 1..Len(base),
           \A q \in 1..Len(base) : q # p => new[q] = cells[q]
    PROVE  Safe(base, new, size, s, d, h)
BY DEF Safe, Same

\* Writing a page that the stored journal plays back leaves the journal hot.
LEMMA HotOverwritten ==
    ASSUME NEW base \in Seq(Nat), NEW cells, NEW size, NEW s,
           Hot(base, cells, size, s), NEW p, NEW new,
           p \in PlayedPages(s, NoHeader) \/ p \notin 1..Len(base),
           \A q \in 1..Len(base) : q # p => new[q] = cells[q]
    PROVE  Hot(base, new, size, s)
BY DEF Hot, Same

\* The pages in a journal that is stored are played.
LEMMA SafePlayed ==
    ASSUME NEW base \in Seq(Nat), Len(base) <= MaxPages, NEW cells, NEW size,
           NEW s \in Seq(Nat), NEW d \in Seq(Nat), NEW h \in Nat, h > 0,
           NEW seed \in Nat \ {0},
           Safe(base, cells, size, s, d, h), Begun(d, base, seed), Chained(d, h),
           NEW p \in 1..Len(base), p \in Recorded(d, h)
    PROVE  p \in PlayedPages(s, NoHeader)
<1>1. Hot(base, [q \in 1..Len(base) |-> IF q = p THEN base[p] + 1 ELSE base[q]], size, s)
  <2> DEFINE new == [q \in 1..Len(base) |-> IF q = p THEN base[p] + 1 ELSE base[q]]
  <2>1. \A q \in 1..Len(base) : new[q] = base[q] \/ q = p
    OBVIOUS
  <2> HIDE DEF new
  <2>2. Same(base, new, Recorded(d, h))
    BY <2>1 DEF Same
  <2>3. Safe(base, new, size, s, d, h)
    BY <2>2 DEF Safe
  <2>4. Hot(base, new, size, s)
    BY <2>3, SafeHot
  <2> QED  BY <2>4 DEF new
<1> DEFINE new == [q \in 1..Len(base) |-> IF q = p THEN base[p] + 1 ELSE base[q]]
<1>2. new[p] # base[p]
  <2>1. base[p] \in Nat
    OBVIOUS
  <2>2. new[p] = base[p] + 1
    OBVIOUS
  <2> HIDE DEF new
  <2> QED  BY <2>1, <2>2
<1> HIDE DEF new
<1>3. Hot(base, new, size, s)
  BY <1>1 DEF new
<1> QED  BY <1>2, <1>3 DEF Hot, Same

-----------------------------------------------------------------------------
(* The calls on the database file.                                         *)

\* What the files of the database and their handle are made of.
LEMMA DbSame ==
    ASSUME UNCHANGED D_vars
    PROVE  /\ Cells' = Cells /\ DbSize' = DbSize /\ (DbHandle => DbHandle')
           /\ db_size' = db_size /\ db_open' = db_open /\ db_dirty' = db_dirty
<1>1. Cells' = Cells
  BY DEF D_vars, Cells, D!PageCells
<1>2. DbSize' = DbSize
  BY DEF D_vars, DbSize, D!StoredSize
<1> QED  BY <1>1, <1>2 DEF D_vars, DbHandle

\* The page files hold what they held.
LEMMA DbFileSame ==
    ASSUME UNCHANGED <<db_page, db_key>>
    PROVE  Cells' = Cells /\ DbSize' = DbSize
BY DEF Cells, D!PageCells, DbSize, D!StoredSize

\* xOpen of the database: IdbFileSize::load reads what is stored.
LEMMA DbOpen ==
    ASSUME D!Open, DbHandle
    PROVE  /\ ~db_open /\ db_open' /\ Cells' = Cells /\ DbSize' = DbSize
           /\ db_size' = DbSize /\ DbHandle'
<1>1. Cells' = Cells /\ DbSize' = DbSize
  BY DbFileSame DEF D!Open, D!disk
<1> QED  BY <1>1 DEF D!Open, DbSize, DbHandle

\* xClose of the database: the files stay.
LEMMA DbClose ==
    ASSUME D!Close, DbHandle
    PROVE  db_open /\ ~db_open' /\ Cells' = Cells /\ DbSize' = DbSize /\ db_size' = 0 /\ DbHandle'
<1>1. Cells' = Cells /\ DbSize' = DbSize
  BY DbFileSame DEF D!Close, D!disk
<1> QED  BY <1>1 DEF D!Close, DbHandle

\* The handle is gone with the process.
LEMMA DbLost ==
    ASSUME D!HandleLost, DbSize' \in Nat
    PROVE  ~db_open' /\ db_size' = 0 /\ DbHandle'
BY DEF D!HandleLost, DbHandle

\* A page file that is written, whole or not.
LEMMA CellPut ==
    ASSUME NEW p \in 1..MaxPages, NEW data, db_page' = D!PutPage(p - 1, data)
    PROVE  /\ Cells'[p] = IF 1 <= Len(data) THEN data[1] ELSE Unknown
           /\ \A q \in 1..MaxPages : q # p => Cells'[q] = Cells[q]
<1>1. p - 1 \in DOMAIN db_page' /\ db_page'[p - 1] = data
  BY DEF D!PutPage
<1>2. Cells'[p] = IF 1 <= Len(data) THEN data[1] ELSE Unknown
  BY <1>1 DEF Cells, D!PageCells
<1>3. ASSUME NEW q \in 1..MaxPages, q # p PROVE Cells'[q] = Cells[q]
  <2>1. q - 1 # p - 1
    BY <1>3
  <2>2. /\ q - 1 \in DOMAIN db_page' <=> q - 1 \in DOMAIN db_page
        /\ q - 1 \in DOMAIN db_page => db_page'[q - 1] = db_page[q - 1]
    BY <2>1 DEF D!PutPage
  <2> QED  BY <2>2 DEF Cells, D!PageCells
<1> QED  BY <1>2, <1>3

\* xWrite of a page stores it, and grows file_size.
LEMMA DbWrite ==
    ASSUME NEW p \in 1..MaxPages, NEW cell, D!WriteDb(<<cell>>, p - 1), DbHandle
    PROVE  /\ Cells'[p] = cell /\ \A q \in 1..MaxPages : q # p => Cells'[q] = Cells[q]
           /\ db_open /\ db_open' /\ DbSize' = DbSize
           /\ db_size' = (IF p > db_size THEN p ELSE db_size) /\ DbHandle'
<1>0. MaxPages \in Nat /\ Len(<<cell>>) = 1 /\ (p - 1) \div 1 = p - 1 /\ (p - 1) + 1 = p
  BY BoundsAssumption
<1>1. db_page' = D!PutPage(p - 1, <<cell>>)
  BY <1>0 DEF D!WriteDb
<1>2. Cells'[p] = cell /\ \A q \in 1..MaxPages : q # p => Cells'[q] = Cells[q]
  BY <1>1, CellPut
<1>3. /\ db_open /\ db_open' = db_open /\ db_key' = db_key
      /\ db_size' = (IF p > db_size THEN p ELSE db_size)
      /\ db_dirty' = (db_dirty \/ db_size' # db_size)
  BY <1>0 DEF D!WriteDb, D!UpdateIfGreater, D!SetSize
<1>4. DbSize' = DbSize
  BY <1>3 DEF DbSize, D!StoredSize
<1>5. DbHandle'
  <2>1. db_size' \in Nat /\ db_dirty' \in BOOLEAN
    BY <1>0, <1>3 DEF DbHandle
  <2>2. ~db_dirty' => db_size' = DbSize'
    BY <1>3, <1>4 DEF DbHandle
  <2>3. DbSize' \in Nat /\ db_open' = TRUE
    BY <1>3, <1>4 DEF DbHandle
  <2> QED  BY <2>1, <2>2, <2>3 DEF DbHandle
<1> QED  BY <1>2, <1>3, <1>4, <1>5

\* What a write that failed, or that the process was killed in, leaves.
LEMMA CellCut ==
    ASSUME NEW p \in 1..MaxPages, NEW cell, db_page' \in D!ShortPages(p - 1, <<cell>>)
    PROVE  \A q \in 1..MaxPages : q # p => Cells'[q] = Cells[q]
<1>1. PICK k \in 0 .. Len(<<cell>>) - 1 : db_page' = D!PutPage(p - 1, SubSeq(<<cell>>, 1, k))
  BY DEF D!ShortPages
<1> QED  BY <1>1, CellPut

\* xWrite that fails leaves every other page and file_size.
LEMMA DbWriteFails ==
    ASSUME NEW p \in 1..MaxPages, NEW cell, D!WriteDbFails(<<cell>>, p - 1), DbHandle
    PROVE  /\ \A q \in 1..MaxPages : q # p => Cells'[q] = Cells[q]
           /\ db_open /\ db_open' /\ DbSize' = DbSize /\ db_size' = db_size /\ DbHandle'
<1>0. MaxPages \in Nat /\ Len(<<cell>>) = 1 /\ (p - 1) \div 1 = p - 1
  BY BoundsAssumption
<1>1. db_page' = db_page \/ db_page' \in D!ShortPages(p - 1, <<cell>>)
  BY <1>0 DEF D!WriteDbFails
<1>2. \A q \in 1..MaxPages : q # p => Cells'[q] = Cells[q]
  <2>1. CASE db_page' = db_page
    BY <2>1 DEF Cells, D!PageCells
  <2> QED  BY <1>1, <2>1, CellCut
<1>3. /\ db_open /\ db_open' = db_open /\ db_key' = db_key
      /\ db_size' = db_size /\ db_dirty' = db_dirty
  BY DEF D!WriteDbFails, D!handle
<1>4. DbSize' = DbSize
  BY <1>3 DEF DbSize, D!StoredSize
<1> QED  BY <1>2, <1>3, <1>4 DEF DbHandle

\* A kill inside xWrite leaves every other page.
LEMMA DbKilledInWrite ==
    ASSUME NEW p \in 1..MaxPages, NEW cell, D!KilledInWrite(<<cell>>, p - 1), DbHandle
    PROVE  /\ \A q \in 1..MaxPages : q # p => Cells'[q] = Cells[q]
           /\ DbSize' = DbSize
<1>0. MaxPages \in Nat /\ Len(<<cell>>) = 1 /\ (p - 1) \div 1 = p - 1
  BY BoundsAssumption
<1>1. db_page' \in D!ShortPages(p - 1, <<cell>>) /\ db_key' = db_key
  BY <1>0 DEF D!KilledInWrite
<1>2. \A q \in 1..MaxPages : q # p => Cells'[q] = Cells[q]
  BY <1>1, CellCut
<1>3. DbSize' = DbSize
  BY <1>1 DEF DbSize, D!StoredSize
<1> QED  BY <1>2, <1>3

\* xTruncate of the database changes file_size of the handle only.
LEMMA DbTruncate ==
    ASSUME NEW n \in Nat, Shrink(n), DbHandle, db_open
    PROVE  /\ Cells' = Cells /\ DbSize' = DbSize /\ db_open' /\ DbHandle'
           /\ db_size' = IF db_size > n THEN n ELSE db_size
<1>1. CASE db_size > n
  <2>1. /\ UNCHANGED <<db_page, db_key>> /\ db_open' = db_open /\ db_size' = n
        /\ db_dirty' = (db_dirty \/ n # db_size)
    BY <1>1 DEF Shrink, D!Truncate, D!SetSize, D!disk
  <2>2. Cells' = Cells /\ DbSize' = DbSize
    BY <2>1, DbFileSame
  <2> QED  BY <1>1, <2>1, <2>2 DEF DbHandle
<1>2. CASE ~ (db_size > n)
  <2>1. UNCHANGED D_vars
    BY <1>2 DEF Shrink
  <2> QED  BY <1>2, <2>1, DbSame
<1> QED  BY <1>1, <1>2

\* xSync of the database stores file_size.
LEMMA DbSync ==
    ASSUME D!Sync, DbHandle
    PROVE  /\ Cells' = Cells /\ DbSize' = db_size /\ db_size' = db_size /\ db_open /\ db_open'
           /\ DbHandle'
<1>1. /\ db_page' = db_page /\ db_open /\ db_open' = db_open
      /\ db_size' = db_size /\ db_dirty' = (db_dirty \/ db_size # db_size)
  BY DEF D!Sync, D!StoreJournal, D!SetSize, D!XFileSize
<1>2. IF ~db_dirty' THEN db_key' = db_key ELSE db_key' = db_size'
  BY DEF D!Sync, D!StoreSize
<1>3. Cells' = Cells
  BY <1>1 DEF Cells, D!PageCells
<1>4. DbSize' = db_size
  <2>1. CASE db_dirty'
    <3>1. db_key' = db_size /\ db_size \in Nat /\ NoFile \notin Nat
      BY <1>1, <1>2, <2>1, PagerAssumption DEF DbHandle
    <3> QED  BY <3>1 DEF DbSize, D!StoredSize
  <2>2. CASE ~db_dirty'
    <3>1. db_key' = db_key /\ ~db_dirty
      BY <1>1, <1>2, <2>2 DEF DbHandle
    <3> QED  BY <1>1, <3>1 DEF DbSize, D!StoredSize, DbHandle
  <2> QED  BY <2>1, <2>2
<1> QED  BY <1>1, <1>3, <1>4 DEF DbHandle

-----------------------------------------------------------------------------
(* The calls on the journal.                                               *)

\* The journal and its handle are left alone.
LEMMA JournalSame ==
    ASSUME UNCHANGED J_vars
    PROVE  /\ StoredJournal' = StoredJournal /\ JournalExists' = JournalExists
           /\ j_open' = j_open /\ j_dirty' = j_dirty /\ j_data' = j_data
           /\ (JournalHandle => JournalHandle')
<1>1. StoredJournal' = StoredJournal /\ JournalExists' = JournalExists
  BY DEF J_vars, StoredJournal, JournalExists, J!LoadedPage
<1> QED  BY <1>1 DEF J_vars, JournalHandle

\* The stored journal is left alone.
LEMMA JournalFileSame ==
    ASSUME UNCHANGED <<j_page, j_key>>
    PROVE  StoredJournal' = StoredJournal /\ JournalExists' = JournalExists
BY DEF StoredJournal, JournalExists, J!LoadedPage

\* As long as its file_size says.
LEMMA StoredLen ==
    ASSUME JournalHandle
    PROVE  /\ JournalExists <=> j_key # NoFile
           /\ JournalExists => j_key \in Nat /\ Len(StoredJournal) = j_key
           /\ ~JournalExists => StoredJournal = << >>
<1>1. JournalExists <=> j_key # NoFile
  BY DEF JournalExists
<1>2. JournalExists => j_key \in Nat /\ Len(StoredJournal) = j_key
  <2>1. SUFFICES ASSUME JournalExists PROVE j_key \in Nat /\ Len(StoredJournal) = j_key
    OBVIOUS
  <2>2. j_key \in Nat
    BY <1>1, <2>1 DEF JournalHandle
  <2>3. StoredJournal = J!LoadedPage(j_key)
    BY <2>1 DEF StoredJournal
  <2> QED  BY <2>2, <2>3 DEF J!LoadedPage
<1> QED  BY <1>1, <1>2 DEF StoredJournal

\* xOpen of the journal: nothing is loaded yet.
LEMMA JournalOpen ==
    ASSUME J!Open, JournalHandle
    PROVE  /\ ~j_open /\ j_open' /\ ~j_dirty' /\ j_data' = << >>
           /\ StoredJournal' = StoredJournal /\ JournalExists' = JournalExists /\ JournalHandle'
<1>1. /\ ~j_open /\ j_open' /\ j_dirty' = FALSE /\ j_data' = << >>
      /\ UNCHANGED <<j_page, j_key>>
      /\ j_size' = IF j_key = NoFile THEN 0 ELSE j_key
  BY DEF J!Open, J!disk, J!StoredSize
<1>2. StoredJournal' = StoredJournal /\ JournalExists' = JournalExists
  BY <1>1, JournalFileSame
<1>3. j_size' = Len(StoredJournal) /\ j_size' \in Nat
  BY <1>1, StoredLen
<1> QED  BY <1>1, <1>2, <1>3 DEF JournalHandle

\* xClose of the journal: the file stays.
LEMMA JournalClose ==
    ASSUME J!Close, JournalHandle
    PROVE  /\ ~j_open' /\ j_data' = << >>
           /\ StoredJournal' = StoredJournal /\ JournalExists' = JournalExists /\ JournalHandle'
<1>1. /\ j_open' = FALSE /\ j_size' = 0 /\ j_dirty' = FALSE /\ j_data' = << >>
      /\ UNCHANGED <<j_page, j_key>>
  BY DEF J!Close, J!disk
<1>2. StoredJournal' = StoredJournal /\ JournalExists' = JournalExists
  BY <1>1, JournalFileSame
<1>3. << >> \in Seq(Nat)
  OBVIOUS
<1> QED  BY <1>1, <1>2, <1>3 DEF JournalHandle

\* The handle is gone with the process.
LEMMA JournalLost ==
    ASSUME J!HandleLost, StoredJournal' \in Seq(Nat), j_key' \in Nat \cup {NoFile}
    PROVE  ~j_open' /\ j_data' = << >> /\ JournalHandle'
<1>1. << >> \in Seq(Nat)
  OBVIOUS
<1> QED  BY <1>1 DEF J!HandleLost, JournalHandle

\* xWrite to the journal changes journal_data only.
LEMMA JournalWrite ==
    ASSUME NEW data \in Seq(Nat), NEW ofs \in Nat, J!WriteJournal(data, ofs), JournalHandle
    PROVE  /\ j_open /\ j_open' /\ j_data' = Patched(j_data, data, Len(data), ofs)
           /\ StoredJournal' = StoredJournal /\ JournalExists' = JournalExists
           /\ j_data' \in Seq(Nat) => JournalHandle'
<1>1. /\ j_open /\ j_open' = j_open /\ j_size' = j_size /\ j_dirty' = j_dirty
      /\ UNCHANGED <<j_page, j_key>>
      /\ j_data' = J!Overwritten(j_data, data, ofs)
  BY DEF J!WriteJournal, J!disk
<1>2. StoredJournal' = StoredJournal /\ JournalExists' = JournalExists
  BY <1>1, JournalFileSame
<1>3. j_data' = Patched(j_data, data, Len(data), ofs)
  BY <1>1 DEF J!Overwritten, Patched
<1> QED  BY <1>1, <1>2, <1>3 DEF JournalHandle

\* page "0" holds those cells.
LEMMA StoredPut ==
    ASSUME NEW data \in Seq(Nat), j_page' = J!PutPage(0, data), j_key' \in Nat
    PROVE  JournalExists' /\ StoredJournal' = Padded(data, j_key')
<1>1. 0 \in DOMAIN j_page' /\ j_page'[0] = data
  BY DEF J!PutPage
<1>2. j_key' # NoFile
  BY PagerAssumption
<1>3. StoredJournal' = (J!LoadedPage(j_key))'
  BY <1>2 DEF StoredJournal, JournalExists
<1>4. (J!LoadedPage(j_key))' = Padded(data, j_key')
  BY <1>1 DEF J!LoadedPage, Padded
<1> QED  BY <1>2, <1>3, <1>4 DEF JournalExists

\* xSync of the journal stores journal_data, if there is any.
LEMMA JournalSync ==
    ASSUME J!Sync, JournalHandle, j_data # << >> \/ ~j_dirty
    PROVE  /\ j_open /\ j_open' /\ j_data' = j_data /\ JournalHandle'
           /\ j_data # << >> => StoredJournal' = j_data /\ JournalExists'
           /\ j_data = << >> /\ ~j_dirty =>
                /\ StoredJournal' = StoredJournal /\ JournalExists' = JournalExists
                /\ ~j_dirty'
<1>1. /\ j_open /\ j_open' = j_open /\ j_data' = j_data
      /\ j_page' = IF j_data = << >> THEN j_page ELSE J!PutPage(0, j_data)
  BY DEF J!Sync, J!StoreJournal
<1>2. /\ j_size' = J!XFileSize
      /\ j_dirty' = (j_dirty \/ J!XFileSize # j_size)
      /\ IF ~j_dirty' THEN j_key' = j_key ELSE j_key' = j_size'
  BY DEF J!Sync, J!SetSize, J!StoreSize
<1>3. NoFile \notin Nat /\ Len(j_data) \in Nat /\ j_size \in Nat
  BY PagerAssumption DEF JournalHandle
<1>4. CASE j_data # << >>
  <2>1. J!XFileSize = Len(j_data) /\ Len(j_data) > 0
    BY <1>3, <1>4 DEF J!XFileSize, JournalHandle
  <2>2. j_key' = Len(j_data)
    <3>1. CASE ~j_dirty'
      <4>1. ~j_dirty /\ j_size = Len(j_data) /\ j_key' = j_key
        BY <1>2, <2>1, <3>1 DEF JournalHandle
      <4>2. j_size = Len(StoredJournal)
        BY <1>1, <4>1 DEF JournalHandle
      <4>3. StoredJournal # << >>
        BY <2>1, <4>1, <4>2
      <4> QED  BY <4>1, <4>2, <4>3, StoredLen
    <3> QED  BY <1>2, <2>1, <3>1
  <2>3. JournalExists' /\ StoredJournal' = Padded(j_data, j_key')
    <3>1. j_data \in Seq(Nat) /\ j_key' \in Nat
      BY <1>3, <2>2 DEF JournalHandle
    <3> QED  BY <1>1, <1>4, <3>1, StoredPut
  <2>4. StoredJournal' = j_data
    <3>1. Padded(j_data, Len(j_data)) = j_data
      BY DEF Padded, JournalHandle
    <3> QED  BY <2>2, <2>3, <3>1
  <2>5. j_dirty' \in BOOLEAN
    BY <1>2 DEF JournalHandle
  <2>6. JournalHandle'
    BY <1>1, <1>2, <1>3, <2>1, <2>2, <2>4, <2>5 DEF JournalHandle
  <2> QED  BY <1>1, <1>4, <2>3, <2>4, <2>6
<1>5. CASE j_data = << >>
  <2>1. J!XFileSize = j_size /\ j_size' = j_size
    BY <1>2, <1>5 DEF J!XFileSize
  <2>2. ~j_dirty
    BY <1>5
  <2>3. ~j_dirty' /\ UNCHANGED <<j_page, j_key>>
    BY <1>1, <1>2, <1>5, <2>1, <2>2
  <2>4. StoredJournal' = StoredJournal /\ JournalExists' = JournalExists
    BY <2>3, JournalFileSame
  <2>5. j_dirty' = j_dirty
    BY <2>2, <2>3, <1>2, <2>1 DEF JournalHandle
  <2>6. JournalHandle'
    BY <1>1, <2>1, <2>3, <2>4, <2>5 DEF JournalHandle
  <2> QED  BY <1>1, <1>5, <2>3, <2>4, <2>6
<1> QED  BY <1>4, <1>5

\* xDelete of the journal leaves no journal.
LEMMA JournalDelete ==
    ASSUME J!Delete, JournalHandle
    PROVE  /\ ~j_open /\ ~j_open' /\ j_data' = j_data /\ JournalExists
           /\ StoredJournal' = << >> /\ ~JournalExists' /\ JournalHandle'
<1>1. /\ ~j_open /\ j_key # NoFile /\ j_key' = NoFile
      /\ j_open' = j_open /\ j_size' = j_size /\ j_dirty' = j_dirty /\ j_data' = j_data
  BY DEF J!Delete, J!handle
<1>2. ~JournalExists' /\ StoredJournal' = << >> /\ JournalExists
  BY <1>1 DEF JournalExists, StoredJournal
<1>3. << >> \in Seq(Nat)
  OBVIOUS
<1> QED  BY <1>1, <1>2, <1>3 DEF JournalHandle

\* xDelete of a journal that was never stored changes nothing.
LEMMA JournalDeleteFails ==
    ASSUME J!DeleteFails, JournalHandle
    PROVE  /\ ~j_open /\ ~j_open' /\ j_data' = j_data /\ ~JournalExists /\ ~JournalExists'
           /\ StoredJournal' = StoredJournal /\ JournalHandle'
<1>1. /\ ~j_open /\ j_key = NoFile /\ UNCHANGED <<j_page, j_key>>
      /\ j_open' = j_open /\ j_size' = j_size /\ j_dirty' = j_dirty /\ j_data' = j_data
  BY DEF J!DeleteFails, J!disk, J!handle
<1>2. StoredJournal' = StoredJournal /\ JournalExists' = JournalExists /\ ~JournalExists
  BY <1>1, JournalFileSame DEF JournalExists
<1> QED  BY <1>1, <1>2 DEF JournalHandle

\* The first xRead loads the whole stored journal.
LEMMA JournalRead ==
    ASSUME J!Read(1, 0), JournalHandle, j_data = << >>, ~j_dirty
    PROVE  /\ j_open /\ j_open' /\ j_data' = StoredJournal
           /\ StoredJournal' = StoredJournal /\ JournalExists' = JournalExists /\ JournalHandle'
<1>1. /\ j_open /\ j_open' = j_open /\ j_size' = j_size /\ j_dirty' = j_dirty
      /\ UNCHANGED <<j_page, j_key>> /\ j_data' = J!LoadedJournal
  BY DEF J!Read, J!disk
<1>2. StoredJournal' = StoredJournal /\ JournalExists' = JournalExists
  BY <1>1, JournalFileSame
<1>3. j_size = Len(StoredJournal) /\ StoredJournal \in Seq(Nat)
  BY <1>1 DEF JournalHandle
<1>4. j_data' = StoredJournal
  <2>1. CASE JournalExists
    <3>1. StoredJournal = J!LoadedPage(j_size)
      BY <1>3, <2>1, StoredLen DEF StoredJournal
    <3>2. CASE j_size > 0
      BY <1>1, <3>1, <3>2 DEF J!LoadedJournal
    <3>3. CASE ~ (j_size > 0)
      <4>1. j_data' = << >>
        BY <1>1, <3>3 DEF J!LoadedJournal
      <4>2. StoredJournal = << >>
        BY <1>3, <3>3
      <4> QED  BY <4>1, <4>2
    <3> QED  BY <3>2, <3>3
  <2>2. CASE ~JournalExists
    <3>1. StoredJournal = << >> /\ j_size = 0
      BY <1>3, <2>2, StoredLen
    <3> QED  BY <1>1, <3>1 DEF J!LoadedJournal
  <2> QED  BY <2>1, <2>2
<1> QED  BY <1>1, <1>2, <1>3, <1>4 DEF JournalHandle

\* The process is killed between the store of the journal and that of its size.
LEMMA JournalKilledInSync ==
    ASSUME j_page' = J!PutPage(0, j_data), j_key' = j_key, JournalHandle
    PROVE  /\ JournalExists' = JournalExists
           /\ JournalExists => StoredJournal' = Padded(j_data, Len(StoredJournal))
           /\ ~JournalExists => StoredJournal' = << >>
<1>1. JournalExists' = JournalExists
  BY DEF JournalExists
<1>2. JournalExists => StoredJournal' = Padded(j_data, Len(StoredJournal))
  BY StoredLen, StoredPut DEF JournalHandle
<1> QED  BY <1>1, <1>2 DEF StoredJournal

\* It is killed inside one of the stores.
LEMMA JournalTorn ==
    ASSUME J!KilledInSync, JournalHandle, j_data # << >>
    PROVE  Remains(j_data, StoredJournal') /\ j_key' \in Nat \cup {NoFile}
<1>1. PICK size : size = J!XFileSize
  OBVIOUS
<1>2. \/ /\ j_page' \in J!ShortPages(0, j_data) \cup {J!PutPage(0, j_data)}
         /\ j_key' = j_key
      \/ j_page' = J!PutPage(0, j_data) /\ j_key' \in J!LeadingDigits(size) \cup {0}
  BY <1>1 DEF J!KilledInSync
<1>3. j_data \in Seq(Nat) /\ Len(j_data) \in Nat
  BY DEF JournalHandle
<1>4. \E k \in Nat : j_page' = J!PutPage(0, Padded(j_data, k))
  <2>1. CASE j_page' = J!PutPage(0, j_data)
    <3>1. j_data = Padded(j_data, Len(j_data))
      BY <1>3 DEF Padded
    <3> QED  BY <1>3, <2>1, <3>1
  <2>2. CASE j_page' \in J!ShortPages(0, j_data)
    <3>1. PICK k \in 0 .. Len(j_data) - 1 : j_page' = J!PutPage(0, SubSeq(j_data, 1, k))
      BY <2>2 DEF J!ShortPages
    <3>2. k \in 0 .. Len(j_data)
      BY <1>3
    <3>3. SubSeq(j_data, 1, k) = Padded(j_data, k)
      BY <1>3, <3>2, PrefixIsPadded
    <3>4. j_page' = J!PutPage(0, Padded(j_data, k))
      BY <3>1, <3>3, Zenon
    <3>5. k \in Nat
      BY <3>2
    <3> QED  BY <3>4, <3>5
  <2> QED  BY <1>2, <2>1, <2>2
<1>5. PICK k \in Nat : j_page' = J!PutPage(0, Padded(j_data, k))
  BY <1>4
<1>6. j_key' \in Nat \cup {NoFile}
  <2>1. J!LeadingDigits(size) \subseteq Nat
    BY DEF J!LeadingDigits
  <2> QED  BY <1>2, <2>1 DEF JournalHandle
<1>7. CASE j_key' \in Nat
  <2>1. StoredJournal' = Padded(Padded(j_data, k), j_key')
    <3>1. Padded(j_data, k) \in Seq(Nat)
      BY <1>3, PaddedFacts
    <3> QED  BY <1>5, <1>7, <3>1, StoredPut
  <2> QED  BY <1>6, <1>7, <2>1 DEF Remains
<1>8. CASE j_key' = NoFile
  <2>1. StoredJournal' = << >>
    BY <1>8 DEF StoredJournal, JournalExists
  <2>2. << >> = Padded(Padded(j_data, 0), 0)
    BY DEF Padded
  <2> QED  BY <1>6, <2>1, <2>2 DEF Remains
<1> QED  BY <1>6, <1>7, <1>8

\* A kill inside xDelete leaves no journal: file_size goes first.
LEMMA JournalKilledInDelete ==
    ASSUME J!KilledInDelete
    PROVE  StoredJournal' = << >> /\ j_key' = NoFile
BY DEF J!KilledInDelete, StoredJournal, JournalExists

\* In those modes the pager syncs.
LEMMA ModeFacts ==
    ASSUME Modes, pragma \in Pragmas
    PROVE  /\ ~noSync /\ pragma.journal_mode \in {"DELETE", "PERSIST"}
           /\ pragma.journal_mode = "DELETE" \/ pragma.journal_mode = "PERSIST"
BY DEF Modes, noSync

-----------------------------------------------------------------------------
(* Lists of calls.                                                         *)

IsList(s) == \E T : s \in Seq(T)

\* The first and the other calls of a list.
LEMMA ConsFacts ==
    ASSUME NEW a, NEW s, IsList(s)
    PROVE  /\ Cons(a, s) # << >> /\ Head(Cons(a, s)) = a /\ Tail(Cons(a, s)) = s
           /\ IsList(Cons(a, s)) /\ Len(Cons(a, s)) = Len(s) + 1
<1>1. PICK T : s \in Seq(T)
  BY DEF IsList
<1>2. PICK U : U = T \cup {a}
  OBVIOUS
<1>3. s \in Seq(U) /\ <<a>> \in Seq(U)
  BY <1>1, <1>2
<1>4. Cons(a, s) \in Seq(U)
  BY <1>3 DEF Cons
<1>5. Cons(a, s) # << >> /\ Head(Cons(a, s)) = a /\ Tail(Cons(a, s)) = s /\ Len(Cons(a, s)) = Len(s) + 1
  BY <1>3 DEF Cons
<1> QED  BY <1>4, <1>5 DEF IsList

\* Lists of no call and of one.
LEMMA ListFacts ==
    /\ IsList(<< >>)
    /\ \A z : IsList(<<z>>) /\ <<z>> # << >> /\ Head(<<z>>) = z /\ Tail(<<z>>) = << >>
<1>1. << >> \in Seq({})
  OBVIOUS
<1>2. \A z : <<z>> \in Seq({z})
  OBVIOUS
<1>3. \A z : <<z>> # << >> /\ Head(<<z>>) = z /\ Tail(<<z>>) = << >>
  OBVIOUS
<1> QED  BY <1>1, <1>2, <1>3 DEF IsList

\* The lists that are written with \o.
LEMMA ConcatFacts ==
    ASSUME NEW s, IsList(s)
    PROVE  /\ << >> \o s = s /\ s \o << >> = s
           /\ \A a : <<a>> \o s = Cons(a, s)
           /\ \A a, b : <<a, b>> \o s = Cons(a, Cons(b, s))
           /\ \A a, t : IsList(t) => Cons(a, t) \o s = Cons(a, t \o s)
           /\ \A t : IsList(t) => IsList(t \o s)
<1>1. PICK T : s \in Seq(T)
  BY DEF IsList
<1>2. << >> \o s = s /\ s \o << >> = s
  BY <1>1
<1>3. ASSUME NEW a, NEW b PROVE <<a, b>> \o s = Cons(a, Cons(b, s))
  <2>1. PICK U : U = T \cup {a, b}
    OBVIOUS
  <2>2. s \in Seq(U) /\ <<a>> \in Seq(U) /\ <<b>> \in Seq(U) /\ <<a, b>> \in Seq(U)
    BY <1>1, <2>1
  <2>3. <<a, b>> \o s \in Seq(U) /\ Len(<<a, b>> \o s) = Len(s) + 2
    BY <2>2
  <2>4. /\ (<<a, b>> \o s)[1] = a /\ (<<a, b>> \o s)[2] = b
        /\ \A i \in 3..Len(s) + 2 : (<<a, b>> \o s)[i] = s[i - 2]
    BY <2>2
  <2>5. PICK t : t = <<b>> \o s
    OBVIOUS
  <2>6. t \in Seq(U) /\ Len(t) = Len(s) + 1 /\ t[1] = b /\ \A i \in 2..Len(s) + 1 : t[i] = s[i - 1]
    BY <2>2, <2>5
  <2>7. /\ <<a>> \o t \in Seq(U) /\ Len(<<a>> \o t) = Len(s) + 2
        /\ (<<a>> \o t)[1] = a /\ \A i \in 2..Len(s) + 2 : (<<a>> \o t)[i] = t[i - 1]
    BY <2>2, <2>6
  <2>8. (<<a>> \o t)[2] = b /\ \A i \in 3..Len(s) + 2 : (<<a>> \o t)[i] = s[i - 2]
    <3>1. Len(s) \in Nat
      BY <2>2
    <3>2. (<<a>> \o t)[2] = t[1]
      <4>1. 2 \in 2..Len(s) + 2 /\ 2 - 1 = 1
        BY <3>1
      <4> QED  BY <2>7, <4>1
    <3>3. ASSUME NEW i \in 3..Len(s) + 2 PROVE (<<a>> \o t)[i] = s[i - 2]
      <4>1. i \in 2..Len(s) + 2 /\ i - 1 \in 2..Len(s) + 1 /\ (i - 1) - 1 = i - 2
        BY <3>1
      <4>2. (<<a>> \o t)[i] = t[i - 1]
        BY <2>7, <4>1
      <4>3. t[i - 1] = s[i - 2]
        BY <2>6, <4>1
      <4> QED  BY <4>2, <4>3
    <3> QED  BY <2>6, <3>2, <3>3
  <2>9. \A i \in 1..Len(s) + 2 : (<<a, b>> \o s)[i] = (<<a>> \o t)[i]
    BY <2>2, <2>4, <2>7, <2>8
  <2>10. <<a, b>> \o s = <<a>> \o t
    BY <2>2, <2>3, <2>7, <2>9, SeqEqual
  <2> QED  BY <2>5, <2>10, Zenon DEF Cons
<1>4. ASSUME NEW a, NEW t, IsList(t)
      PROVE  Cons(a, t) \o s = Cons(a, t \o s) /\ IsList(t \o s)
  <2>1. PICK V : t \in Seq(V)
    BY <1>4 DEF IsList
  <2>2. PICK U : U = T \cup V \cup {a}
    OBVIOUS
  <2>3. s \in Seq(U) /\ <<a>> \in Seq(U) /\ t \in Seq(U)
    BY <1>1, <2>1, <2>2
  <2>4. (<<a>> \o t) \o s = <<a>> \o (t \o s) /\ t \o s \in Seq(U)
    BY <2>3
  <2> QED  BY <2>4 DEF Cons, IsList
<1>5. \A a : <<a>> \o s = Cons(a, s)
  BY DEF Cons
<1> QED  BY <1>2, <1>3, <1>4, <1>5

\* Concatenation is associative.
LEMMA ListsAssociate ==
    ASSUME NEW a, NEW b, NEW c, IsList(a), IsList(b), IsList(c)
    PROVE  (a \o b) \o c = a \o (b \o c)
<1>1. PICK S : a \in Seq(S)
  BY DEF IsList
<1>2. PICK T : b \in Seq(T)
  BY DEF IsList
<1>3. PICK U : c \in Seq(U)
  BY DEF IsList
<1>4. PICK V : V = S \cup T \cup U
  OBVIOUS
<1>5. a \in Seq(V) /\ b \in Seq(V) /\ c \in Seq(V)
  BY <1>1, <1>2, <1>3, <1>4
<1> QED  BY <1>5, ConcatAssociative

\* Two calls before a list.
LEMMA TwoConcat ==
    ASSUME NEW a, NEW b, NEW s, IsList(s)
    PROVE  <<a, b>> \o s = Cons(a, Cons(b, s))
<1>1. \A x, y : <<x, y>> \o s = Cons(x, Cons(y, s))
  BY ConcatFacts
<1> QED  BY <1>1, Zenon

\* A list of one call is its first call and nothing after it.
LEMMA SingleList == \A z : <<z>> = Cons(z, << >>)
<1> SUFFICES ASSUME NEW z PROVE <<z>> = Cons(z, << >>)
  OBVIOUS
<1>1. IsList(<< >>) /\ IsList(<<z>>)
  BY ListFacts
<1>2. <<z>> \o << >> = Cons(z, << >>) /\ <<z>> \o << >> = <<z>>
  BY <1>1, ConcatFacts
<1> QED  BY <1>2

\* The first call of a concatenation.
LEMMA ConsConcat ==
    ASSUME NEW a, NEW t, NEW s, IsList(t), IsList(s)
    PROVE  Cons(a, t) \o s = Cons(a, t \o s) /\ IsList(t \o s)
<1>1. \A b, r : IsList(r) => Cons(b, r) \o s = Cons(b, r \o s)
  BY ConcatFacts
<1>2. \A r : IsList(r) => IsList(r \o s)
  BY ConcatFacts
<1> QED  BY <1>1, <1>2, Zenon

\* What each call is.
LEMMA OpFacts ==
    /\ OpenJ.op = "open_journal" /\ SyncJ.op = "sync_journal" /\ ReadJ.op = "read_journal"
    /\ CloseJ.op = "close_journal" /\ DeleteJ.op = "delete_journal"
    /\ SyncD.op = "sync_db" /\ Reader.op = "reader"
    /\ \A at, data : /\ WriteJ(at, data).op = "write_journal"
                     /\ WriteJ(at, data).at = at /\ WriteJ(at, data).data = data
    /\ \A at : CheckJ(at).op = "check_next_header" /\ CheckJ(at).at = at
    /\ \A todo, c : /\ WriteD(todo, c).op = "write_db" /\ WriteD(todo, c).todo = todo
                    /\ WriteD(todo, c).committing = c
    /\ \A n : TruncateD(n).op = "truncate_db" /\ TruncateD(n).pages = n
    /\ \A answer : Unlock(answer).op = "unlock" /\ Unlock(answer).answer = answer
BY DEF OpenJ, SyncJ, ReadJ, CloseJ, DeleteJ, SyncD, Reader, WriteJ, CheckJ, WriteD, TruncateD, Unlock

-----------------------------------------------------------------------------
(* One step while a function of the pager is running.                      *)

JournalStep(s) == calls' = s /\ PagerUnchanged /\ UNCHANGED D_vars

Recovers == recovered' = Recovery(StoredDb', StoredJournal')

\* While a function of the pager is running there are only its calls, and kills.
LEMMA OnlyCall ==
    ASSUME Next, calls # << >>
    PROVE  (Call \/ Kill) /\ UNCHANGED pragma /\ Recovers
<1>1. ~Idle
  BY DEF Idle
<1>2. ~Connect /\ Step /\ UNCHANGED pragma /\ Recovers
  BY <1>1 DEF Next, Connect, Recovers
<1> QED  BY <1>1, <1>2 DEF Step, Disconnect, SharedLock, EndRead, Begin, Write, Spill,
       CommitUnchanged, Commit, RollbackUnchanged, Rollback

\* What the next step does is settled by the first call of the list.
LEMMA CallIs ==
    ASSUME NEW a, NEW s, calls = Cons(a, s), IsList(s), Call
    PROVE  /\ a.op = "open_journal" => J!Open /\ JournalStep(s)
           /\ a.op = "write_journal" => J!WriteJournal(a.data, a.at) /\ JournalStep(s)
           /\ a.op = "check_next_header" =>
                /\ JournalStep(s)
                /\ IF StaleHeader(a.at) THEN J!WriteJournal(<<0>>, a.at) ELSE UNCHANGED J_vars
           /\ a.op = "sync_journal" => J!Sync /\ JournalStep(s)
           /\ a.op = "close_journal" => J!Close /\ JournalStep(s)
           /\ a.op = "delete_journal" => (J!Delete /\ JournalStep(s)) \/ DeleteJournalFails
           /\ a.op = "read_journal" => ReadHotJournal
           /\ a.op = "write_db" =>
                \/ /\ D!WriteDb(<<PageToWrite.cell>>, PageToWrite.pgno - 1)
                   /\ ContinueWriting /\ PagerUnchanged /\ UNCHANGED J_vars
                \/ WriteDatabaseFails
           /\ a.op = "truncate_db" =>
                Shrink(a.pages) /\ calls' = s /\ PagerUnchanged /\ UNCHANGED J_vars
           /\ a.op = "sync_db" => D!Sync /\ calls' = s /\ PagerUnchanged /\ UNCHANGED J_vars
           /\ a.op = "reader" => BecomeReader
           /\ a.op = "unlock" => UnlockPager
<1>1. Head(calls) = a /\ Tail(calls) = s /\ calls # << >>
  BY ConsFacts
<1>2. \A op : Now(op) <=> op = a.op
  BY <1>1 DEF Now
<1>3. CASE CallJournal
  BY <1>1, <1>2, <1>3 DEF CallJournal, Continue, JournalStep
<1>4. CASE DeleteJournalFails
  BY <1>1, <1>2, <1>4 DEF DeleteJournalFails
<1>5. CASE ReadHotJournal
  BY <1>1, <1>2, <1>5 DEF ReadHotJournal
<1>6. CASE CallDatabase
  BY <1>1, <1>2, <1>6 DEF CallDatabase, Continue
<1>7. CASE WriteDatabaseFails
  BY <1>1, <1>2, <1>7 DEF WriteDatabaseFails
<1>8. CASE BecomeReader
  BY <1>1, <1>2, <1>8 DEF BecomeReader
<1>9. CASE UnlockPager
  BY <1>1, <1>2, <1>9 DEF UnlockPager
<1> QED  BY <1>3, <1>4, <1>5, <1>6, <1>7, <1>8, <1>9 DEF Call

-----------------------------------------------------------------------------
(* What recovery finds after a step.                                       *)

\* The stored database, page by page.
LEMMA StoredCells ==
    ASSUME DbSize' \in Nat
    PROVE  /\ StoredDb' \in [1..DbSize' -> {StoredDb'[p] : p \in 1..DbSize'}]
           /\ \A p \in 1..DbSize' : p <= MaxPages => StoredDb'[p] = Cells'[p]
<1>1. PICK n \in Nat : n = DbSize'
  OBVIOUS
<1>2. StoredDb' = [i \in 1..n |-> (D!PageCells((i - 1) \div 1, 1, 0))'[((i - 1) % 1) + 1]]
  BY <1>1 DEF StoredDb, D!Contents, DbSize
<1>3. ASSUME NEW p \in 1..n, p <= MaxPages PROVE StoredDb'[p] = Cells'[p]
  <2>1. (p - 1) \div 1 = p - 1 /\ ((p - 1) % 1) + 1 = 1
    OBVIOUS
  <2>2. p \in 1..MaxPages
    BY <1>3, BoundsAssumption
  <2>3. Cells'[p] = (D!PageCells(p - 1, 1, 0))'[1]
    BY <2>2 DEF Cells
  <2> QED  BY <1>2, <2>1, <2>3
<1>4. StoredDb' \in [1..n -> {StoredDb'[p] : p \in 1..n}]
  BY <1>2
<1> QED  BY <1>1, <1>3, <1>4

\* The files decide what a recovery finds.
LEMMA Recovered ==
    ASSUME Recovers, NEW base \in Seq(Nat), Len(base) <= MaxPages,
           DbSize' \in Nat, StoredJournal' \in Seq(Nat),
           Files(base, Cells', DbSize', StoredJournal')
    PROVE  recovered' = base /\ FilesInv'
<1>1. ASSUME NEW file, file = StoredDb', NEW cells, cells = Cells', NEW T,
             T = {StoredDb'[p] : p \in 1..DbSize'},
             NEW s, s = StoredJournal', NEW size, size = DbSize'
      PROVE  Recovery(file, s) = base
  <2>1. size \in Nat /\ s \in Seq(Nat) /\ Files(base, cells, size, s)
    BY <1>1
  <2>2. file \in [1..size -> T] /\ \A p \in 1..size : p <= MaxPages => file[p] = cells[p]
    BY <1>1, StoredCells, Zenon
  <2>3. Reads(file, cells, size)
    BY <2>2 DEF Reads
  <2> QED  BY <2>1, <2>3, FilesRecover
<1>5. Recovery(StoredDb', StoredJournal') = base
  BY <1>1, Zenon
<1>6. recovered' = base
  BY <1>5, Zenon DEF Recovers
<1> QED  BY <1>6 DEF FilesInv

Refined == Transaction!Next \/ UNCHANGED <<recovered, Tx>>

\* A step that leaves what recovery finds begins, changes or aborts a transaction.
LEMMA KeepsRecovered ==
    ASSUME recovered' = recovered, Tx' = Tx \/ Tx' = NoTx \/ (Tx # NoTx /\ Tx' \in Seq(Nat))
    PROVE  Refined
BY DEF Refined, Transaction!Next, Transaction!Update, Transaction!Abort

\* The transaction of a state is its image.
LEMMA TxFacts ==
    ASSUME image \in Seq(Nat)
    PROVE  /\ eState \in Writing /\ ~Now("unlock") => Tx = image /\ Tx # NoTx
           /\ ~(eState \in Writing /\ ~Now("unlock")) => Tx = NoTx
BY PagerAssumption DEF Tx

\* The same after a step.
LEMMA TxFactsNext ==
    ASSUME (image \in Seq(Nat))'
    PROVE  /\ eState' \in Writing /\ ~Now("unlock")' => Tx' = image' /\ Tx' \in Seq(Nat)
           /\ ~(eState' \in Writing /\ ~Now("unlock")') => Tx' = NoTx
BY DEF Tx

-----------------------------------------------------------------------------
(* The process is killed.                                                  *)

\* What a kill leaves of the files: at most one page is torn, or the journal.
LEMMA KillFiles ==
    ASSUME Kill, HandlesInv, TornStores \subseteq {"journal"},
           Now("write_db") => PageToWrite.pgno \in 1..MaxPages,
           Now("sync_journal") => j_data # << >> \/ ~j_dirty
    PROVE  /\ PagerLost /\ DbSize' = DbSize
           /\ StoredJournal' \in Seq(Nat) /\ j_key' \in Nat \cup {NoFile}
           /\ \/ Cells' = Cells /\ StoredJournal' = StoredJournal
              \/ /\ Now("write_db") /\ StoredJournal' = StoredJournal
                 /\ \A q \in 1..MaxPages : q # PageToWrite.pgno => Cells'[q] = Cells[q]
              \/ /\ Now("sync_journal") /\ j_data # << >> /\ Cells' = Cells
                 /\ Remains(j_data, StoredJournal')
                 /\ ~Dead(StoredJournal) => StoredJournal' = Padded(j_data, Len(StoredJournal))
              \/ Now("delete_journal") /\ Cells' = Cells /\ StoredJournal' = << >>
<1>0. /\ StoredJournal \in Seq(Nat) /\ j_data \in Seq(Nat) /\ j_key \in Nat \cup {NoFile}
      /\ JournalHandle /\ DbHandle
  BY DEF HandlesInv, JournalHandle
<1>1. CASE Killed
  <2>1. UNCHANGED <<db_page, db_key>> /\ UNCHANGED <<j_page, j_key>> /\ PagerLost
    BY <1>1 DEF Killed, disk
  <2> QED  BY <1>0, <2>1, DbFileSame, JournalFileSame
<1>2. CASE KilledInWrite
  <2>1. /\ Now("write_db") /\ PagerLost /\ UNCHANGED <<j_page, j_key>>
        /\ D!KilledInWrite(<<PageToWrite.cell>>, PageToWrite.pgno - 1)
    BY <1>2 DEF KilledInWrite
  <2>2. PICK p \in 1..MaxPages : p = PageToWrite.pgno
    BY <2>1
  <2>3. D!KilledInWrite(<<PageToWrite.cell>>, p - 1)
    BY <2>1, <2>2
  <2>4. DbSize' = DbSize /\ \A q \in 1..MaxPages : q # p => Cells'[q] = Cells[q]
    BY <1>0, <2>3, DbKilledInWrite
  <2>5. StoredJournal' = StoredJournal /\ j_key' = j_key
    BY <2>1, JournalFileSame
  <2> QED  BY <1>0, <2>1, <2>2, <2>4, <2>5
<1>3. CASE KilledInSync
  <2>1. /\ Now("sync_journal") /\ j_data # << >> /\ PagerLost
        /\ j_page' = J!PutPage(0, j_data)
        /\ UNCHANGED <<db_page, db_key>> /\ j_key' = j_key
    BY <1>3 DEF KilledInSync
  <2>2. Cells' = Cells /\ DbSize' = DbSize
    BY <2>1, DbFileSame
  <2>3. /\ JournalExists => StoredJournal' = Padded(j_data, Len(StoredJournal))
        /\ ~JournalExists => StoredJournal' = << >>
    BY <1>0, <2>1, JournalKilledInSync
  <2>4. ~JournalExists => Dead(StoredJournal)
    BY DEF StoredJournal, Dead
  <2>5. StoredJournal' = Padded(j_data, 0) \/ StoredJournal' = Padded(j_data, Len(StoredJournal))
    <3>1. << >> = Padded(j_data, 0)
      BY DEF Padded
    <3> QED  BY <2>3, <3>1
  <2>6. Len(StoredJournal) \in Nat
    BY <1>0
  <2>7. Remains(j_data, StoredJournal')
    BY <1>0, <2>5, <2>6, RemainsAll
  <2>8. StoredJournal' \in Seq(Nat)
    BY <1>0, <2>7, RemainsFacts
  <2> QED  BY <1>0, <2>1, <2>2, <2>3, <2>4, <2>7, <2>8
<1>4. CASE KilledInDelete
  <2>1. Now("delete_journal") /\ PagerLost /\ J!KilledInDelete /\ UNCHANGED <<db_page, db_key>>
    BY <1>4 DEF KilledInDelete
  <2>2. StoredJournal' = << >> /\ j_key' = NoFile
    BY <2>1, JournalKilledInDelete
  <2>3. << >> \in Seq(Nat)
    OBVIOUS
  <2> QED  BY <2>1, <2>2, <2>3, DbFileSame
<1>5. CASE KilledInStore
  <2>1. PagerLost
    BY <1>5 DEF KilledInStore
  <2>2. /\ Now("sync_journal") /\ J!KilledInSync /\ ~IsHot(1, StoredJournal)
        /\ UNCHANGED <<db_page, db_key>>
    BY <1>5 DEF KilledInStore
  <2>3. Cells' = Cells /\ DbSize' = DbSize
    BY <2>2, DbFileSame
  <2>4. Dead(StoredJournal)
    BY <1>0, <2>2, ValidFacts
  <2>5. CASE j_data # << >>
    <3>1. Remains(j_data, StoredJournal') /\ j_key' \in Nat \cup {NoFile}
      BY <1>0, <2>2, <2>5, JournalTorn
    <3>2. StoredJournal' \in Seq(Nat)
      BY <1>0, <3>1, RemainsFacts
    <3> QED  BY <2>1, <2>2, <2>3, <2>4, <2>5, <3>1, <3>2
  <2>6. CASE j_data = << >>
    <3>1. ~j_dirty /\ J!XFileSize = j_size
      BY <2>2, <2>6 DEF J!XFileSize
    <3>2. FALSE
      BY <2>2, <2>6, <3>1 DEF J!KilledInSync
    <3> QED  BY <3>2
  <2> QED  BY <2>5, <2>6
<1> QED  BY <1>1, <1>2, <1>3, <1>4, <1>5 DEF Kill

\* The process is gone, and the files hold base.
LEMMA Dies ==
    ASSUME TypeInv, HandlesInv, PagerLost, UNCHANGED pragma, Recovers, DbSize' = DbSize,
           StoredJournal' \in Seq(Nat), j_key' \in Nat \cup {NoFile},
           NEW base \in Seq(Nat), Len(base) <= MaxPages,
           Files(base, Cells', DbSize', StoredJournal')
    PROVE  Inv' /\ recovered' = base /\ Tx' = NoTx
<1>1. /\ D!HandleLost /\ J!HandleLost
      /\ eState' = "OPEN" /\ image' = << >> /\ dirty' = {} /\ need_sync' = {}
      /\ pInJournal' = {} /\ nRec' = 0 /\ journalOff' = 0 /\ journalHdr' = 0
      /\ dbOrigSize' = 0 /\ calls' = << >> /\ before' = << >> /\ reply' = "none" /\ txs' = txs
  BY DEF PagerLost
<1>2. DbSize \in Nat
  BY DEF HandlesInv, DbHandle
<1>3. recovered' = base /\ FilesInv'
  BY <1>2, Recovered
<1>4. ~db_open' /\ DbHandle'
  BY <1>1, <1>2, DbLost
<1>5. ~j_open' /\ JournalHandle'
  BY <1>1, JournalLost
<1>6. TypeInv'
  <2>1. << >> \in Seq(Nat) /\ Len(<< >>) = 0 /\ MaxPages \in Nat /\ MaxJournal \in Nat
    BY BoundsAssumption
  <2>2. txs \in Nat /\ pragma \in Pragmas
    BY DEF TypeInv
  <2>3. txs' \in Nat /\ pragma' \in Pragmas
    BY <1>1, <2>2
  <2>4. recovered' \in Seq(Nat) /\ Len(recovered') <= MaxPages
    BY <1>3
  <2>5. /\ (image \in Seq(Nat) /\ Len(image) <= MaxPages)'
        /\ (before \in Seq(Nat) /\ Len(before) <= MaxPages)'
    BY <1>1, <2>1
  <2>6. /\ (journalHdr \in Nat /\ journalOff \in Nat /\ nRec \in Nat)'
        /\ (journalHdr <= journalOff /\ journalOff <= MaxJournal)'
        /\ (reply \in {"none", "OK", "ERROR"})'
    BY <1>1, <2>1
  <2> QED  BY <2>3, <2>4, <2>5, <2>6 DEF TypeInv
<1>7. Phase'
  <2>1. (Forgotten /\ Idle)'
    BY <1>1 DEF Forgotten, Idle
  <2>2. OpenInv'
    BY <1>1, <1>4, <2>1 DEF OpenInv
  <2> QED  BY <1>5, <2>1, <2>2 DEF Phase, IdleInv
<1>8. Tx' = NoTx
  BY <1>1 DEF Tx, Writing
<1> QED  BY <1>3, <1>4, <1>5, <1>6, <1>7, <1>8 DEF Inv, HandlesInv

\* Killed where no call has anything half done.
LEMMA DiesUntouched ==
    ASSUME Modes, Inv, Kill, UNCHANGED pragma, Recovers,
           ~Now("write_db"), ~Now("delete_journal"),
           Now("sync_journal") => j_data = << >> /\ ~j_dirty
    PROVE  Inv' /\ Refined
<1>0. TypeInv /\ HandlesInv /\ FilesInv /\ TornStores \subseteq {"journal"}
  BY DEF Inv, Modes
<1>1. /\ PagerLost /\ DbSize' = DbSize /\ Cells' = Cells /\ StoredJournal' = StoredJournal
      /\ StoredJournal' \in Seq(Nat) /\ j_key' \in Nat \cup {NoFile}
  BY <1>0, KillFiles
<1>2. recovered \in Seq(Nat) /\ Len(recovered) <= MaxPages
  BY <1>0 DEF TypeInv
<1>3. Files(recovered, Cells', DbSize', StoredJournal')
  BY <1>0, <1>1 DEF FilesInv
<1>4. Inv' /\ recovered' = recovered /\ Tx' = NoTx
  BY <1>0, <1>1, <1>2, <1>3, Dies
<1> QED  BY <1>4, KeepsRecovered

\* A call that leaves the stored files as they are.
LEMMA FilesUntouched ==
    ASSUME Inv, Recovers, Cells' = Cells, DbSize' = DbSize, StoredJournal' = StoredJournal
    PROVE  recovered' = recovered /\ FilesInv'
<1>1. /\ recovered \in Seq(Nat) /\ Len(recovered) <= MaxPages /\ DbSize \in Nat
      /\ StoredJournal \in Seq(Nat) /\ Files(recovered, Cells, DbSize, StoredJournal)
  BY DEF Inv, TypeInv, HandlesInv, DbHandle, JournalHandle, FilesInv
<1>2. /\ DbSize' \in Nat /\ StoredJournal' \in Seq(Nat)
      /\ Files(recovered, Cells', DbSize', StoredJournal')
  BY <1>1
<1> QED  BY <1>1, <1>2, Recovered

\* A call that changes neither the cache nor the journal's fields.
LEMMA TypesKept ==
    ASSUME TypeInv, UNCHANGED <<image, before, jrnl, txs, reply, pragma>>,
           recovered' \in Seq(Nat), Len(recovered') <= MaxPages
    PROVE  TypeInv'
<1>1. /\ UNCHANGED <<image, before, txs, reply, pragma>>
      /\ UNCHANGED <<journalHdr, journalOff, nRec>>
  BY DEF jrnl
<1>2. (image \in Seq(Nat) /\ Len(image) <= MaxPages)'
  BY <1>1 DEF TypeInv
<1>3. (before \in Seq(Nat) /\ Len(before) <= MaxPages)'
  BY <1>1 DEF TypeInv
<1>4. (txs \in Nat /\ pragma \in Pragmas /\ reply \in {"none", "OK", "ERROR"})'
  BY <1>1 DEF TypeInv
<1>5. (/\ journalHdr \in Nat /\ journalOff \in Nat /\ nRec \in Nat
       /\ journalHdr <= journalOff /\ journalOff <= MaxJournal)'
  BY <1>1 DEF TypeInv
<1> QED  BY <1>2, <1>3, <1>4, <1>5 DEF TypeInv

-----------------------------------------------------------------------------
(* What the calls write to the journal.                                    *)

\* xWrite of a header or of a record.
LEMMA WritesThree ==
    ASSUME NEW x \in Nat, NEW y \in Nat, NEW z \in Nat, NEW ofs \in Nat,
           ofs <= Len(j_data), J!WriteJournal(<<x, y, z>>, ofs), JournalHandle
    PROVE  /\ j_open /\ j_open' /\ PutThree(j_data', j_data, x, y, z, ofs)
           /\ StoredJournal' = StoredJournal /\ JournalExists' = JournalExists /\ JournalHandle'
<1>1. PICK data : data = <<x, y, z>>
  OBVIOUS
<1>2. data \in Seq(Nat) /\ Len(data) = 3 /\ data[1] = x /\ data[2] = y /\ data[3] = z
  BY <1>1
<1>3. J!WriteJournal(data, ofs)
  BY <1>1
<1>4. /\ j_open /\ j_open' /\ j_data' = Patched(j_data, data, Len(data), ofs)
      /\ StoredJournal' = StoredJournal /\ JournalExists' = JournalExists
      /\ j_data' \in Seq(Nat) => JournalHandle'
  BY <1>2, <1>3, JournalWrite
<1>5. j_data' = Patched(j_data, data, 3, ofs)
  BY <1>2, <1>4
<1>6. j_data \in Seq(Nat) /\ ofs \in 0 .. Len(j_data)
  BY DEF JournalHandle
<1>7. PutThree(j_data', j_data, data[1], data[2], data[3], ofs)
  BY <1>2, <1>5, <1>6, PatchedThree
<1>8. PutThree(j_data', j_data, x, y, z, ofs)
  BY <1>2, <1>7
<1>9. j_data' \in Seq(Nat)
  BY <1>8 DEF PutThree
<1> QED  BY <1>4, <1>8, <1>9

\* xWrite of the record count, or of the zero over a stale header.
LEMMA WritesOne ==
    ASSUME NEW x \in Nat, NEW ofs \in Nat, ofs < Len(j_data),
           J!WriteJournal(<<x>>, ofs), JournalHandle
    PROVE  /\ j_open /\ j_open' /\ PutOne(j_data', j_data, x, ofs)
           /\ StoredJournal' = StoredJournal /\ JournalExists' = JournalExists /\ JournalHandle'
<1>1. PICK data : data = <<x>>
  OBVIOUS
<1>2. data \in Seq(Nat) /\ Len(data) = 1 /\ data[1] = x
  BY <1>1
<1>3. J!WriteJournal(data, ofs)
  BY <1>1
<1>4. /\ j_open /\ j_open' /\ j_data' = Patched(j_data, data, Len(data), ofs)
      /\ StoredJournal' = StoredJournal /\ JournalExists' = JournalExists
      /\ j_data' \in Seq(Nat) => JournalHandle'
  BY <1>2, <1>3, JournalWrite
<1>5. j_data' = Patched(j_data, data, 1, ofs)
  BY <1>2, <1>4
<1>6. j_data \in Seq(Nat) /\ ofs \in 0 .. Len(j_data) - 1
  BY DEF JournalHandle
<1>7. PutOne(j_data', j_data, data[1], ofs)
  BY <1>2, <1>5, <1>6, PatchedOne
<1>8. PutOne(j_data', j_data, x, ofs)
  BY <1>2, <1>7
<1>9. j_data' \in Seq(Nat)
  BY <1>8 DEF PutOne
<1> QED  BY <1>4, <1>8, <1>9

\* An empty journal holds no wrong page.
LEMMA NothingSound ==
    ASSUME NEW base \in Seq(Nat)
    PROVE  Sound(<< >>, base)
<1>1. << >> \in Seq(Nat) /\ ~(\E x \in Nat : x + 3 <= Len(<< >>))
  OBVIOUS
<1>2. Places(<< >>) = {}
  BY <1>1, PlaceFacts
<1> QED  BY <1>2 DEF Sound

-----------------------------------------------------------------------------
(* What a call on the journal leaves alone.                                *)

\* A call that leaves the pager and the database leaves what was said of them.
LEMMA PagerSame ==
    ASSUME PagerUnchanged, UNCHANGED D_vars, UNCHANGED pragma, recovered' = recovered
    PROVE  /\ TxInv' <=> TxInv
           /\ ModeInv' <=> ModeInv
           /\ Room' <=> Room
           /\ \A pages : CacheInv(pages)' <=> CacheInv(pages)
           /\ dbOrigSize' = dbOrigSize /\ txs' = txs /\ before' = before /\ image' = image
           /\ eState' = eState /\ nRec' = nRec /\ pInJournal' = pInJournal
           /\ need_sync' = need_sync /\ dirty' = dirty /\ reply' = reply
           /\ journalHdr' = journalHdr /\ journalOff' = journalOff
           /\ db_open' = db_open /\ db_size' = db_size /\ db_dirty' = db_dirty
           /\ Cells' = Cells /\ DbSize' = DbSize
<1>1. /\ Cells' = Cells /\ DbSize' = DbSize /\ db_size' = db_size /\ db_open' = db_open
      /\ db_dirty' = db_dirty
  BY DbSame
<1>2. /\ dbOrigSize' = dbOrigSize /\ txs' = txs /\ before' = before /\ image' = image
      /\ eState' = eState /\ nRec' = nRec /\ pInJournal' = pInJournal
      /\ need_sync' = need_sync /\ dirty' = dirty /\ reply' = reply
      /\ journalHdr' = journalHdr /\ journalOff' = journalOff
  BY DEF PagerUnchanged, cache, jrnl
<1>3. TxInv' <=> TxInv
  BY <1>1, <1>2 DEF TxInv
<1>4. ModeInv' <=> ModeInv
  BY <1>2 DEF ModeInv
<1>5. Room' <=> Room
  BY <1>2 DEF Room
<1>6. ASSUME NEW pages PROVE CacheInv(pages)' <=> CacheInv(pages)
  BY <1>1, <1>2 DEF CacheInv, Filed, Entry
<1> QED  BY <1>1, <1>2, <1>3, <1>4, <1>5, <1>6

\* The calls that a function has still to make are the same.
LEMMA CallsSame ==
    ASSUME UNCHANGED <<pragma, txs, before, image, dbOrigSize, journalHdr, journalOff>>
    PROVE  /\ FirstHeader' = FirstHeader
           /\ \A at, p : OrigRecord(at, p)' = OrigRecord(at, p)
<1>1. noSync' = noSync
  BY DEF noSync
<1> QED  BY <1>1 DEF FirstHeader, OrigRecord, Header

\* A step inside a write transaction is allowed by Transactions.
LEMMA StaysTx ==
    ASSUME recovered' = recovered, eState \in Writing, ~Now("unlock"), image \in Seq(Nat),
           (image \in Seq(Nat))'
    PROVE  Refined
BY TxFacts, TxFactsNext, KeepsRecovered

\* So is one that ends in no write transaction.
LEMMA StaysOut ==
    ASSUME recovered' = recovered, ~(eState' \in Writing /\ ~Now("unlock")')
    PROVE  Refined
<1>1. Tx' = NoTx
  BY DEF Tx
<1> QED  BY <1>1, KeepsRecovered

\* A call on the journal that stores nothing.
LEMMA JournalCall ==
    ASSUME Inv, Recovers, UNCHANGED pragma, NEW s, JournalStep(s),
           StoredJournal' = StoredJournal, JournalHandle'
    PROVE  recovered' = recovered /\ TypeInv' /\ HandlesInv' /\ FilesInv'
<1>1. UNCHANGED D_vars /\ PagerUnchanged
  BY DEF JournalStep
<1>2. Cells' = Cells /\ DbSize' = DbSize /\ DbHandle'
  BY <1>1, DbSame DEF Inv, HandlesInv
<1>3. recovered' = recovered /\ FilesInv'
  BY <1>2, FilesUntouched
<1>4. UNCHANGED <<image, before, jrnl, txs, reply, pragma>>
  BY <1>1 DEF PagerUnchanged, cache
<1>5. TypeInv'
  <2>1. recovered' \in Seq(Nat) /\ Len(recovered') <= MaxPages /\ TypeInv
    BY <1>3 DEF Inv, TypeInv
  <2> QED  BY <1>4, <2>1, TypesKept
<1> QED  BY <1>2, <1>3, <1>5 DEF HandlesInv

\* Settled, as what may be recorded over.
LEMMA SettledSafe ==
    ASSUME Settled, recovered \in Seq(Nat), NEW d
    PROVE  Safe(recovered, Cells, DbSize, StoredJournal, d, 0) /\ db_size = DbSize
BY CleanSafe DEF Settled, CleanNow, ValidNow

\* The files and file_size stay settled while nothing touches them.
LEMMA SettledKept ==
    ASSUME Settled, recovered' = recovered, Cells' = Cells, DbSize' = DbSize,
           StoredJournal' = StoredJournal, db_size' = db_size, db_open' = db_open
    PROVE  Settled'
BY DEF Settled, CleanNow, ValidNow

\* pager_open_journal: opening the journal, and writing its first header.
LEMMA OpeningStep ==
    ASSUME Modes, Inv, OpeningInv, Next
    PROVE  Inv' /\ Refined
<1>0. PICK rest : /\ IF rest = << >> THEN nRec = 0 /\ pInJournal = {}
                     ELSE nRec = 1 /\ pInJournal \subseteq need_sync /\ \E p \in 1..dbOrigSize :
                            rest = <<OrigRecord(Sector, p)>> /\ pInJournal = {p}
                  /\ \/ calls = Cons(OpenJ, Cons(FirstHeader, rest)) /\ ~j_open
                     \/ calls = Cons(FirstHeader, rest) /\ j_open
  BY DEF OpeningInv
<1>1. /\ TxInv /\ ModeInv /\ CacheInv({}) /\ Room /\ journalHdr = 0
      /\ Settled /\ KeepsSound(before)
  BY DEF OpeningInv
<1>2. /\ TypeInv /\ JournalHandle /\ FilesInv
      /\ recovered \in Seq(Nat) /\ Len(recovered) <= MaxPages /\ image \in Seq(Nat)
      /\ before = recovered /\ before \in Seq(Nat) /\ txs \in Nat /\ txs > 0 /\ eState \in Writing
      /\ dbOrigSize = Len(before) /\ j_data \in Seq(Nat)
  BY <1>1 DEF Inv, HandlesInv, TypeInv, TxInv, JournalHandle
<1>3. IsList(rest)
  <2>1. CASE rest = << >>
    BY <2>1, ListFacts
  <2>2. CASE rest # << >>
    BY <1>0, <2>2, ListFacts
  <2> QED  BY <2>1, <2>2
<1>4. IsList(Cons(FirstHeader, rest)) /\ calls # << >>
  BY <1>0, <1>3, ConsFacts
<1>5. Head(calls) \in {OpenJ, FirstHeader} /\ FirstHeader.op = "write_journal"
  BY <1>0, <1>3, <1>4, ConsFacts, OpFacts DEF FirstHeader
<1>6. ~Now("write_db") /\ ~Now("delete_journal") /\ ~Now("sync_journal") /\ ~Now("unlock")
  BY <1>5, OpFacts DEF Now
<1>7. (Call \/ Kill) /\ UNCHANGED pragma /\ Recovers
  BY <1>4, OnlyCall
<1>8. CASE Kill
  BY <1>6, <1>7, <1>8, DiesUntouched
<1>9. CASE Call /\ calls = Cons(OpenJ, Cons(FirstHeader, rest)) /\ ~j_open
  <2>1. J!Open /\ JournalStep(Cons(FirstHeader, rest))
    BY <1>4, <1>9, CallIs, OpFacts
  <2>2. /\ j_open' /\ j_data' = << >> /\ StoredJournal' = StoredJournal /\ JournalHandle'
    BY <1>2, <2>1, JournalOpen
  <2>3. recovered' = recovered /\ TypeInv' /\ HandlesInv' /\ FilesInv'
    BY <1>7, <2>1, <2>2, JournalCall
  <2>4. PagerUnchanged /\ UNCHANGED D_vars /\ calls' = Cons(FirstHeader, rest)
    BY <2>1 DEF JournalStep
  <2>5. /\ TxInv' /\ ModeInv' /\ CacheInv({})' /\ Room' /\ journalHdr' = 0
        /\ dbOrigSize' = dbOrigSize /\ txs' = txs /\ before' = before /\ image' = image
        /\ nRec' = nRec /\ pInJournal' = pInJournal /\ need_sync' = need_sync
        /\ journalOff' = journalOff /\ journalHdr' = journalHdr
        /\ db_open' = db_open /\ db_size' = db_size /\ Cells' = Cells /\ DbSize' = DbSize
    BY <1>1, <1>7, <2>3, <2>4, PagerSame
  <2>6. FirstHeader' = FirstHeader /\ \A at, p : OrigRecord(at, p)' = OrigRecord(at, p)
    BY <1>7, <2>5, CallsSame
  <2>7. Settled'
    BY <1>1, <2>2, <2>3, <2>5, SettledKept
  <2>8. KeepsSound(before)'
    BY <1>2, <2>2, <2>5, NothingSound DEF KeepsSound
  <2>9. (calls = Cons(FirstHeader, rest))'
    BY <2>4, <2>6
  <2>10. (IF rest = << >> THEN nRec = 0 /\ pInJournal = {}
          ELSE nRec = 1 /\ pInJournal \subseteq need_sync /\ \E p \in 1..dbOrigSize :
                 rest = <<OrigRecord(Sector, p)>> /\ pInJournal = {p})'
    BY <1>0, <2>5, <2>6
  <2>11. (\E r \in {<< >>} \cup {<<OrigRecord(Sector, p)>> : p \in pInJournal} : r = rest)'
    BY <2>10
  <2>12. OpeningInv'
    BY <2>2, <2>5, <2>7, <2>8, <2>9, <2>10, <2>11 DEF OpeningInv
  <2>13. Refined
    BY <1>2, <1>6, <2>3, <2>5, StaysTx
  <2> QED  BY <2>3, <2>12, <2>13 DEF Inv, Phase
<1>10. CASE Call /\ calls = Cons(FirstHeader, rest) /\ j_open
  <2>1. J!WriteJournal(Header(dbOrigSize), 0) /\ JournalStep(rest)
    BY <1>3, <1>10, CallIs, OpFacts DEF FirstHeader
  <2>2. Header(dbOrigSize) = <<0, Len(before), txs>>
    BY <1>2, ModeFacts DEF Header, TypeInv
  <2>3. /\ j_open' /\ PutThree(j_data', j_data, 0, Len(before), txs, 0)
        /\ StoredJournal' = StoredJournal /\ JournalHandle'
    <3>1. J!WriteJournal(<<0, Len(before), txs>>, 0)
      BY <2>1, <2>2, Zenon
    <3>2. Len(before) \in Nat /\ 0 \in Nat /\ 0 <= Len(j_data)
      BY <1>2
    <3> QED  BY <1>2, <3>1, <3>2, WritesThree
  <2>4. recovered' = recovered /\ TypeInv' /\ HandlesInv' /\ FilesInv'
    BY <1>7, <2>1, <2>3, JournalCall
  <2>5. PagerUnchanged /\ UNCHANGED D_vars /\ calls' = rest
    BY <2>1 DEF JournalStep
  <2>6. /\ TxInv' /\ ModeInv' /\ CacheInv({})' /\ Room' /\ journalHdr' = 0
        /\ dbOrigSize' = dbOrigSize /\ txs' = txs /\ before' = before /\ image' = image
        /\ nRec' = nRec /\ pInJournal' = pInJournal /\ need_sync' = need_sync
        /\ journalOff' = journalOff /\ journalHdr' = journalHdr
        /\ db_open' = db_open /\ db_size' = db_size /\ Cells' = Cells /\ DbSize' = DbSize
    BY <1>1, <1>7, <2>4, <2>5, PagerSame
  <2>7. \A at, p : OrigRecord(at, p)' = OrigRecord(at, p)
    BY <1>7, <2>6, CallsSame
  <2>8. Unsealed(j_data', before, txs, 0, 0, {})
    <3>1. Sound(j_data, before) /\ txs \in Nat \ {0}
      BY <1>1, <1>2, <1>10 DEF KeepsSound
    <3> QED  BY <1>2, <2>3, <3>1, BeginJournal
  <2>9. SafeNow(0)'
    <3>1. Safe(recovered, Cells, DbSize, StoredJournal, j_data', 0) /\ db_size = DbSize
      BY <1>1, <1>2, SettledSafe
    <3> QED  BY <1>2, <2>3, <2>6, <3>1 DEF SafeNow
  <2>10. UnsealedAt(0, 0, {})'
    BY <2>6, <2>8, <2>9 DEF UnsealedAt
  <2>11. Refined
    BY <1>2, <1>6, <2>4, <2>6, StaysTx
  <2>12. CASE rest = << >>
    <3>1. nRec' = 0 /\ pInJournal' = {} /\ Idle'
      BY <1>0, <2>5, <2>6, <2>12 DEF Idle
    <3>2. Unsynced'
      BY <3>1 DEF Unsynced
    <3>3. UnsealedAt(journalHdr, nRec, pInJournal)'
      BY <2>6, <2>10, <3>1
    <3>4. WriterInv'
      BY <2>3, <2>6, <3>2, <3>3 DEF WriterInv
    <3> QED  BY <2>4, <2>11, <3>1, <3>4 DEF Inv, Phase, IdleInv
  <2>13. CASE rest # << >>
    <3>1. PICK p \in 1..dbOrigSize : rest = <<OrigRecord(Sector, p)>> /\ pInJournal = {p}
      BY <1>0, <2>13
    <3>2. nRec = 1 /\ p \in need_sync
      BY <1>0, <2>13, <3>1
    <3>3. journalOff - Sector = Sector
      BY <1>1, <3>2 DEF Room, Sector
    <3>4. Unsynced'
      BY <2>6, <3>1, <3>2 DEF Unsynced
    <3>5. (calls = <<OrigRecord(journalOff - Sector, p)>>)'
      BY <2>5, <2>6, <2>7, <3>1, <3>3
    <3>6. UnsealedAt(journalHdr, nRec - 1, {})'
      <4>1. nRec' - 1 = 0
        BY <2>6, <3>2
      <4> QED  BY <2>6, <2>10, <4>1
    <3>7. (p \in need_sync \cap 1..dbOrigSize /\ nRec > 0 /\ pInJournal = {} \cup {p})'
      BY <2>6, <3>1, <3>2
    <3>8. ({} \in {pInJournal} \cup {pInJournal \ {q} : q \in pInJournal})'
      <4>1. {p} \ {p} = {} /\ p \in {p}
        OBVIOUS
      <4>2. {} \in {{p} \ {q} : q \in {p}}
        BY <4>1
      <4> QED  BY <2>6, <3>1, <4>2
    <3>9. RecordingInv'
      BY <2>3, <2>6, <3>4, <3>5, <3>6, <3>7, <3>8 DEF RecordingInv
    <3> QED  BY <2>4, <2>11, <3>9 DEF Inv, Phase
  <2> QED  BY <2>12, <2>13
<1> QED  BY <1>0, <1>7, <1>8, <1>9, <1>10

\* Writing a record behind the header at journalHdr.
LEMMA Journals ==
    ASSUME Inv, TxInv, NEW h \in Nat, NEW n \in Nat, NEW pages, UnsealedAt(h, n, pages),
           NEW p \in 1..dbOrigSize, NEW at \in Nat, at = h + 3 * (n + 1),
           J!WriteJournal(Record(p, before[p], txs), at),
           PagerUnchanged, UNCHANGED D_vars, UNCHANGED pragma, recovered' = recovered
    PROVE  /\ UnsealedAt(h, n + 1, pages \cup {p})'
           /\ Recorded(j_data', h) = Recorded(j_data, h)
           /\ j_open' /\ StoredJournal' = StoredJournal /\ JournalHandle'
<1>1. /\ recovered \in Seq(Nat) /\ before \in Seq(Nat) /\ before = recovered
      /\ dbOrigSize = Len(before) /\ txs \in Nat \ {0} /\ JournalHandle /\ j_data \in Seq(Nat)
  BY DEF Inv, TypeInv, HandlesInv, TxInv, JournalHandle
<1>2. p \in 1..Len(before) /\ p \in Nat /\ before[p] \in Nat
  BY <1>1
<1>3. Unsealed(j_data, before, txs, h, n, pages) /\ SafeNow(h)
  BY DEF UnsealedAt
<1>4. h < at /\ at <= Len(j_data)
  BY <1>1, <1>3, UnsealedFacts
<1>5. /\ j_open' /\ PutThree(j_data', j_data, p, before[p], txs, at)
      /\ StoredJournal' = StoredJournal /\ JournalHandle'
  <2>1. J!WriteJournal(<<p, before[p], txs>>, at)
    BY Zenon DEF Record
  <2> QED  BY <1>1, <1>2, <1>4, <2>1, WritesThree
<1>6. Unsealed(j_data', before, txs, h, n + 1, pages \cup {p})
  BY <1>1, <1>2, <1>3, <1>5, AppendRecord
<1>7. Chained(j_data, h)
  BY <1>3 DEF Unsealed
<1>8. j_data' \in Seq(Nat) /\ h <= Len(j_data') /\ \A i \in 1..h : j_data'[i] = j_data[i]
  <2>1. at \in 0 .. Len(j_data)
    BY <1>1, <1>4
  <2>2. at <= Len(j_data') /\ \A i \in 1..at : j_data'[i] = j_data[i]
    BY <1>1, <1>5, <2>1, PutThreeBefore
  <2>3. j_data' \in Seq(Nat)
    BY <1>5 DEF PutThree
  <2>4. 1..h \subseteq 1..at
    BY <1>4, Shorter
  <2> QED  BY <1>4, <2>2, <2>3, <2>4
<1>9. Recorded(j_data', h) = Recorded(j_data, h)
  BY <1>1, <1>7, <1>8, ChainedSame
<1>10. /\ Cells' = Cells /\ DbSize' = DbSize /\ db_size' = db_size
       /\ before' = before /\ txs' = txs
  BY PagerSame
<1>11. SafeNow(h)'
  <2>1. Safe(before, Cells, DbSize, StoredJournal, j_data', h)
    BY <1>1, <1>3, <1>7, <1>8, SafeKept DEF SafeNow
  <2> QED  BY <1>3, <1>5, <1>10, <2>1 DEF SafeNow
<1> QED  BY <1>5, <1>6, <1>9, <1>10, <1>11 DEF UnsealedAt

\* pagerAddPageToRollbackJournal: writing the record of a page.
LEMMA RecordingStep ==
    ASSUME Modes, Inv, RecordingInv, Next
    PROVE  Inv' /\ Refined
<1>0. PICK p \in need_sync \cap 1..dbOrigSize :
        \E pages \in {pInJournal} \cup {pInJournal \ {q} : q \in pInJournal} :
         /\ calls = <<OrigRecord(journalOff - Sector, p)>>
         /\ pInJournal = pages \cup {p}
         /\ UnsealedAt(journalHdr, nRec - 1, pages)
  BY DEF RecordingInv
<1>a. PICK pages \in {pInJournal} \cup {pInJournal \ {q} : q \in pInJournal} :
         /\ calls = <<OrigRecord(journalOff - Sector, p)>>
         /\ pInJournal = pages \cup {p}
         /\ UnsealedAt(journalHdr, nRec - 1, pages)
  BY <1>0
<1>1. TxInv /\ ModeInv /\ CacheInv({}) /\ Room /\ Unsynced /\ nRec > 0
  BY DEF RecordingInv
<1>2. /\ TypeInv /\ JournalHandle /\ image \in Seq(Nat) /\ eState \in Writing
      /\ nRec \in Nat /\ journalHdr \in Nat /\ journalOff \in Nat
  BY <1>1 DEF Inv, HandlesInv, TypeInv, TxInv
<1>3. calls = Cons(OrigRecord(journalOff - Sector, p), << >>) /\ calls # << >>
  <2>1. IsList(<< >>)
    BY ListFacts
  <2>2. <<OrigRecord(journalOff - Sector, p)>> \o << >> = Cons(OrigRecord(journalOff - Sector, p), << >>)
    BY <2>1, ConcatFacts
  <2>3. <<OrigRecord(journalOff - Sector, p)>> \o << >> = <<OrigRecord(journalOff - Sector, p)>>
    BY ListFacts, ConcatFacts
  <2> QED  BY <1>a, <2>1, <2>2, <2>3, ListFacts
<1>4. Head(calls).op = "write_journal"
  BY <1>a, ListFacts, OpFacts DEF OrigRecord
<1>5. ~Now("write_db") /\ ~Now("delete_journal") /\ ~Now("sync_journal") /\ ~Now("unlock")
  BY <1>4 DEF Now
<1>6. (Call \/ Kill) /\ UNCHANGED pragma /\ Recovers
  BY <1>3, OnlyCall
<1>7. CASE Kill
  BY <1>5, <1>6, <1>7, DiesUntouched
<1>8. CASE Call
  <2>1. J!WriteJournal(Record(p, before[p], txs), journalOff - Sector) /\ JournalStep(<< >>)
    BY <1>3, <1>8, CallIs, ListFacts, OpFacts DEF OrigRecord
  <2>2. PICK n \in Nat : n = nRec - 1
    BY <1>1, <1>2
  <2>3. PICK at \in Nat : at = journalOff - Sector /\ at = journalHdr + 3 * (n + 1)
    BY <1>1, <1>2, <2>2 DEF Room, Sector
  <2>4. n + 1 = nRec /\ UnsealedAt(journalHdr, n, pages) /\ p \in 1..dbOrigSize
    BY <1>a, <1>2, <2>2
  <2>5. J!WriteJournal(Record(p, before[p], txs), at)
    BY <2>1, <2>3
  <2>6. StoredJournal' = StoredJournal /\ JournalHandle'
    <3>1. Unsealed(j_data, before, txs, journalHdr, n, pages)
      BY <2>4 DEF UnsealedAt
    <3>2. before \in Seq(Nat) /\ txs \in Nat /\ p \in Nat /\ before[p] \in Nat /\ j_data \in Seq(Nat)
      BY <1>1, <1>2, <2>4 DEF TypeInv, TxInv, JournalHandle
    <3>3. at <= Len(j_data)
      BY <1>2, <2>3, <3>1, <3>2, UnsealedFacts
    <3>4. J!WriteJournal(<<p, before[p], txs>>, at)
      BY <2>5, Zenon DEF Record
    <3> QED  BY <1>2, <3>2, <3>3, <3>4, WritesThree
  <2>7. recovered' = recovered /\ TypeInv' /\ HandlesInv' /\ FilesInv'
    BY <1>6, <2>1, <2>6, JournalCall
  <2>8. PagerUnchanged /\ UNCHANGED D_vars /\ calls' = << >>
    BY <2>1 DEF JournalStep
  <2>9. /\ UnsealedAt(journalHdr, n + 1, pages \cup {p})'
        /\ Recorded(j_data', journalHdr) = Recorded(j_data, journalHdr) /\ j_open'
    <3>1. UnsealedAt(journalHdr, n, pages) /\ journalHdr \in Nat
      BY <1>2, <2>4
    <3>2. PICK h \in Nat : h = journalHdr
      BY <1>2
    <3>3. /\ UnsealedAt(h, n + 1, pages \cup {p})'
          /\ Recorded(j_data', h) = Recorded(j_data, h) /\ j_open'
      BY <1>1, <1>6, <2>3, <2>4, <2>5, <2>7, <2>8, <3>1, <3>2, Journals
    <3>4. journalHdr' = h
      BY <1>6, <2>7, <2>8, <3>2, PagerSame
    <3> QED  BY <3>2, <3>3, <3>4
  <2>10. /\ TxInv' /\ ModeInv' /\ CacheInv({})' /\ Room' /\ image' = image
         /\ nRec' = nRec /\ pInJournal' = pInJournal /\ need_sync' = need_sync
         /\ journalHdr' = journalHdr
    BY <1>1, <1>6, <2>7, <2>8, PagerSame
  <2>11. Unsynced'
    BY <1>1, <2>9, <2>10 DEF Unsynced
  <2>12. UnsealedAt(journalHdr, nRec, pInJournal)'
    BY <1>a, <2>4, <2>9, <2>10
  <2>13. WriterInv' /\ Idle'
    BY <2>8, <2>9, <2>10, <2>11, <2>12 DEF WriterInv, Idle
  <2>14. Refined
    BY <1>2, <1>5, <2>7, <2>10, StaysTx
  <2> QED  BY <2>7, <2>13, <2>14 DEF Inv, Phase, IdleInv
<1> QED  BY <1>6, <1>7, <1>8

\* The actions of a pager that is making no call.
LEMMA IdleNext ==
    ASSUME Next, Idle
    PROVE  /\ Recovers
           /\ \/ Connect
              \/ /\ UNCHANGED pragma
                 /\ \/ Disconnect \/ SharedLock \/ EndRead \/ Begin
                    \/ \E p \in 1..MaxPages : Write(p) \/ Spill(p)
                    \/ CommitUnchanged \/ Commit \/ RollbackUnchanged \/ Rollback
                    \/ Kill
<1>1. ~Call
  BY DEF Idle, Call, CallJournal, DeleteJournalFails, ReadHotJournal, CallDatabase,
         WriteDatabaseFails, BecomeReader, UnlockPager, Now
<1>2. Recovers
  BY DEF Next, Recovers
<1> QED  BY <1>1, <1>2 DEF Next, Step

\* No call is next between two functions.
LEMMA IdleNow ==
    ASSUME Idle
    PROVE  \A op : ~Now(op)
BY DEF Idle, Now

\* A kill between two functions of the pager.
LEMMA IdleKilled ==
    ASSUME Modes, Inv, Idle, Kill, UNCHANGED pragma, Recovers
    PROVE  Inv' /\ Refined
BY IdleNow, DiesUntouched

\* An action that makes no call.
LEMMA FilesSame ==
    ASSUME Inv, Recovers, UNCHANGED D_vars, UNCHANGED J_vars
    PROVE  /\ recovered' = recovered /\ HandlesInv' /\ FilesInv'
           /\ Cells' = Cells /\ DbSize' = DbSize /\ StoredJournal' = StoredJournal
           /\ JournalExists' = JournalExists
           /\ db_open' = db_open /\ db_size' = db_size
           /\ j_open' = j_open /\ j_data' = j_data /\ j_dirty' = j_dirty
<1>1. HandlesInv
  BY DEF Inv
<1>2. /\ Cells' = Cells /\ DbSize' = DbSize /\ db_open' = db_open /\ db_size' = db_size /\ DbHandle'
  BY <1>1, DbSame DEF HandlesInv
<1>3. /\ StoredJournal' = StoredJournal /\ JournalExists' = JournalExists
      /\ j_open' = j_open /\ j_data' = j_data /\ j_dirty' = j_dirty /\ JournalHandle'
  BY <1>1, JournalSame DEF HandlesInv
<1>4. recovered' = recovered /\ FilesInv'
  BY <1>2, <1>3, FilesUntouched
<1> QED  BY <1>2, <1>3, <1>4 DEF HandlesInv

-----------------------------------------------------------------------------

\* The end of a read transaction.
LEMMA EndReadStep ==
    ASSUME Inv, Recovers, UNCHANGED pragma, ReaderInv, EndRead
    PROVE  Inv' /\ Refined
<1>1. /\ calls' = <<Unlock(reply)>> /\ UNCHANGED D_vars /\ UNCHANGED J_vars
      /\ UNCHANGED <<eState, cache, jrnl, txs, before, reply>>
  BY DEF EndRead
<1>2. /\ recovered' = recovered /\ HandlesInv' /\ FilesInv'
      /\ Cells' = Cells /\ DbSize' = DbSize /\ StoredJournal' = StoredJournal
      /\ db_open' = db_open /\ db_size' = db_size /\ j_open' = j_open /\ j_data' = j_data
  BY <1>1, FilesSame
<1>3. TypeInv'
  <2>1. recovered' \in Seq(Nat) /\ Len(recovered') <= MaxPages /\ TypeInv
    BY <1>2 DEF Inv, TypeInv
  <2> QED  BY <1>1, <2>1, TypesKept DEF cache
<1>4. ReaderInv'
  <2>1. Settled'
    BY <1>2, SettledKept DEF ReaderInv
  <2>2. UNCHANGED <<eState, image, dirty, need_sync, pInJournal, nRec, journalOff, journalHdr, dbOrigSize, before, reply>>
    BY <1>1 DEF cache, jrnl
  <2>3. KeepsSound(recovered)'
    BY <1>2 DEF ReaderInv, KeepsSound
  <2> QED  BY <1>2, <2>1, <2>2, <2>3 DEF ReaderInv, Forgotten
<1>5. (calls = <<Unlock(reply)>>)'
  BY <1>1 DEF Unlock
<1>6. Refined
  <2>1. eState' \notin Writing
    BY <1>1 DEF ReaderInv, Writing
  <2> QED  BY <1>2, <2>1, StaysOut
<1> QED  BY <1>2, <1>3, <1>4, <1>5, <1>6 DEF Inv, Phase, UnlockInv

\* sqlite3PagerBegin: the image is what recovery finds.
LEMMA BeginStep ==
    ASSUME Inv, Recovers, UNCHANGED pragma, ReaderInv, Begin
    PROVE  Inv' /\ Refined
<1>1. /\ UNCHANGED D_vars /\ UNCHANGED J_vars /\ UNCHANGED cache /\ calls' = calls /\ Idle
      /\ eState' = "WRITER_LOCKED" /\ txs' = txs + 1 /\ dbOrigSize' = Len(image)
      /\ journalOff' = 0 /\ before' = image /\ reply' = "none"
      /\ UNCHANGED <<pInJournal, nRec, journalHdr>>
  BY DEF Begin
<1>2. /\ recovered' = recovered /\ HandlesInv' /\ FilesInv'
      /\ Cells' = Cells /\ DbSize' = DbSize /\ StoredJournal' = StoredJournal
      /\ db_open' = db_open /\ db_size' = db_size /\ j_open' = j_open /\ j_data' = j_data
  BY <1>1, FilesSame
<1>3. UNCHANGED <<image, dirty, need_sync>>
  BY <1>1 DEF cache
<1>4. /\ TypeInv /\ image = recovered /\ Forgotten /\ Settled /\ KeepsSound(recovered)
      /\ eState = "READER"
  BY DEF Inv, ReaderInv
<1>5. TypeInv'
  <2>1. txs' \in Nat /\ journalHdr' = 0 /\ journalOff' = 0 /\ nRec' = 0 /\ MaxJournal \in Nat
    BY <1>1, <1>4, BoundsAssumption DEF TypeInv, Forgotten
  <2>2. (image \in Seq(Nat) /\ Len(image) <= MaxPages /\ before \in Seq(Nat) /\ Len(before) <= MaxPages)'
    BY <1>1, <1>3, <1>4 DEF TypeInv
  <2>3. (pragma \in Pragmas /\ recovered \in Seq(Nat) /\ Len(recovered) <= MaxPages)'
    BY <1>2, <1>4 DEF TypeInv
  <2>4. (journalHdr <= journalOff /\ journalOff <= MaxJournal)'
    BY <2>1
  <2> QED  BY <1>1, <2>1, <2>2, <2>3, <2>4 DEF TypeInv
<1>6. Settled'
  BY <1>2, <1>4, SettledKept
<1>7. TxInv'
  <2>1. txs' > 0 /\ db_open'
    BY <1>1, <1>2, <1>4 DEF TypeInv, Settled
  <2> QED  BY <1>1, <1>2, <1>4, <2>1 DEF TxInv, Writing
<1>8. LockedInv'
  <2>1. KeepsSound(before)'
    BY <1>1, <1>2, <1>4 DEF KeepsSound
  <2> QED  BY <1>1, <1>3, <1>4, <1>6, <1>7, <2>1 DEF LockedInv, Forgotten
<1>9. Idle'
  BY <1>1 DEF Idle
<1>10. Refined
  <2>1. Tx = NoTx
    BY <1>4 DEF Tx, Writing
  <2>2. Tx' = recovered
    BY <1>1, <1>3, <1>4, <1>9 DEF Tx, Writing, Now, Idle
  <2> QED  BY <1>2, <2>1, <2>2 DEF Refined, Transaction!Next, Transaction!Begin
<1> QED  BY <1>2, <1>5, <1>8, <1>9, <1>10 DEF Inv, Phase, IdleInv

\* COMMIT and ROLLBACK of a transaction that wrote nothing.
LEMMA UnchangedStep ==
    ASSUME Inv, Recovers, UNCHANGED pragma, LockedInv, CommitUnchanged \/ RollbackUnchanged
    PROVE  Inv' /\ Refined
<1>1. /\ calls' \in {<<Unlock("none")>>, <<Unlock("OK")>>} /\ UNCHANGED D_vars /\ UNCHANGED J_vars
      /\ UNCHANGED <<eState, cache, jrnl, txs, before, reply>>
  BY DEF CommitUnchanged, RollbackUnchanged
<1>2. /\ recovered' = recovered /\ HandlesInv' /\ FilesInv'
      /\ Cells' = Cells /\ DbSize' = DbSize /\ StoredJournal' = StoredJournal
      /\ db_open' = db_open /\ db_size' = db_size /\ j_open' = j_open /\ j_data' = j_data
  BY <1>1, FilesSame
<1>3. TypeInv'
  <2>1. recovered' \in Seq(Nat) /\ Len(recovered') <= MaxPages /\ TypeInv
    BY <1>2 DEF Inv, TypeInv
  <2> QED  BY <1>1, <2>1, TypesKept DEF cache
<1>4. UNCHANGED <<eState, image, dirty, need_sync, pInJournal, nRec, journalOff, journalHdr, dbOrigSize, before, reply, txs>>
  BY <1>1 DEF cache, jrnl
<1>5. LockedInv'
  <2>1. Settled'
    BY <1>2, SettledKept DEF LockedInv
  <2>2. TxInv'
    BY <1>2, <1>4 DEF LockedInv, TxInv
  <2>3. KeepsSound(before)'
    BY <1>2, <1>4 DEF LockedInv, KeepsSound
  <2> QED  BY <1>4, <2>1, <2>2, <2>3 DEF LockedInv
<1>6. Now("unlock")'
  BY <1>1, ListFacts, OpFacts DEF Now
<1> QED  BY <1>1, <1>2, <1>3, <1>5, <1>6, StaysOut DEF Inv, Phase, UnlockInv

-----------------------------------------------------------------------------
(* sqlite3PagerWrite.                                                      *)

\* Only the page that is written changes in the cache.
LEMMA ImageWritten ==
    ASSUME TypeInv, NEW p \in 1..MaxPages, Write(p)
    PROVE  /\ (image \in Seq(Nat) /\ Len(image) <= MaxPages)'
           /\ Len(image') > 0 /\ Len(image) <= Len(image') /\ p \in 1..Len(image')
           /\ \A q \in 1..Len(image') : q # p => q <= Len(image) /\ image'[q] = image[q]
<1>1. /\ p <= Len(image) + 1 /\ p <= MaxPages
      /\ image' = IF p > Len(image) THEN Append(image, IF p = 1 THEN 0 ELSE txs)
                  ELSE [image EXCEPT ![p] = IF p = 1 THEN @ ELSE txs]
  BY DEF Write
<1>2. image \in Seq(Nat) /\ Len(image) <= MaxPages /\ txs \in Nat /\ Len(image) \in Nat /\ MaxPages \in Nat
  BY BoundsAssumption DEF TypeInv
<1>3. PICK old \in Seq(Nat) : old = image
  BY <1>2
<1>4. PICK new : new = image'
  OBVIOUS
<1>5. CASE p > Len(image)
  <2>1. PICK c \in Nat : c = IF p = 1 THEN 0 ELSE txs
    BY <1>2
  <2>2. new = Append(old, c) /\ p = Len(old) + 1
    BY <1>1, <1>2, <1>3, <1>4, <1>5, <2>1
  <2>3. new \in Seq(Nat) /\ Len(new) = Len(old) + 1 /\ \A q \in 1..Len(old) : new[q] = old[q]
    BY <2>2
  <2>4. Len(new) <= MaxPages /\ Len(new) > 0 /\ Len(old) <= Len(new) /\ p \in 1..Len(new)
    BY <1>1, <2>2, <2>3
  <2>5. \A q \in 1..Len(new) : q # p => q <= Len(old) /\ new[q] = old[q]
    BY <2>2, <2>3
  <2> QED  BY <1>3, <1>4, <2>3, <2>4, <2>5
<1>6. CASE ~(p > Len(image))
  <2>0. p \in 1..Len(old)
    BY <1>2, <1>3, <1>6
  <2>1. PICK c \in Nat : c = IF p = 1 THEN old[p] ELSE txs
    BY <1>2, <2>0
  <2>2. new = [old EXCEPT ![p] = c]
    BY <1>1, <1>3, <1>4, <1>6, <2>1
  <2>3. new \in Seq(Nat) /\ Len(new) = Len(old) /\ \A q \in 1..Len(old) : q # p => new[q] = old[q]
    BY <2>0, <2>2
  <2>4. Len(new) > 0
    BY <2>0, <2>3
  <2> QED  BY <1>2, <1>3, <1>4, <2>0, <2>3, <2>4
<1> QED  BY <1>5, <1>6

\* A page of the original database that is dirty is in the journal.
LEMMA CacheWritten ==
    ASSUME TypeInv, DbHandle, dbOrigSize \in Nat, NEW p \in 1..MaxPages, Write(p),
           dbOrigSize <= db_size, db_size <= Len(image),
           \A q \in 1..Len(image) : q \notin dirty => Filed({}, q),
           dirty \subseteq 1..Len(image), need_sync \subseteq dirty,
           pInJournal \subseteq 1..dbOrigSize, dirty \cap 1..dbOrigSize \subseteq pInJournal,
           \A q \in 1..dbOrigSize : q \notin pInJournal => image[q] = before[q],
           Cells' = Cells
    PROVE  CacheInv({})'
<1>1. /\ dirty' = dirty \cup {p} /\ UNCHANGED dbOrigSize /\ UNCHANGED before /\ UNCHANGED db_size
      /\ need_sync' \in {need_sync, need_sync \cup {p}}
      /\ pInJournal' = IF MustJournal(p) THEN pInJournal \cup {p} ELSE pInJournal
  BY DEF Write, D_vars
<1>2. /\ (image \in Seq(Nat) /\ Len(image) <= MaxPages)'
      /\ Len(image') > 0 /\ Len(image) <= Len(image') /\ p \in 1..Len(image')
      /\ \A q \in 1..Len(image') : q # p => q <= Len(image) /\ image'[q] = image[q]
  BY ImageWritten
<1>3. Len(image) \in Nat /\ Len(image') \in Nat /\ db_size \in Nat /\ p \in Nat
  BY <1>2 DEF TypeInv, DbHandle
<1>4. dbOrigSize' <= db_size' /\ db_size' <= Len(image')
  BY <1>1, <1>2, <1>3
<1>5. ASSUME NEW q \in 1..Len(image'), q \notin dirty' PROVE Filed({}, q)'
  <2>1. q # p /\ q \notin dirty /\ q \in 1..Len(image) /\ image'[q] = image[q]
    BY <1>1, <1>2, <1>3, <1>5
  <2>2. q <= db_size /\ Cells[q] = image[q]
    BY <2>1 DEF Filed
  <2> QED  BY <1>1, <2>1, <2>2 DEF Filed
<1>6. dirty' \subseteq 1..Len(image') /\ need_sync' \subseteq dirty'
  <2>1. 1..Len(image) \subseteq 1..Len(image')
    BY <1>2, <1>3
  <2> QED  BY <1>1, <1>2, <2>1
<1>7. MustJournal(p) <=> p \in 1..dbOrigSize /\ p \notin pInJournal
  BY <1>3 DEF MustJournal
<1>8. pInJournal' \subseteq 1..dbOrigSize' /\ dirty' \cap 1..dbOrigSize' \subseteq pInJournal'
  BY <1>1, <1>7
<1>9. \A q \in 1..dbOrigSize' : q \notin pInJournal' => image'[q] = before'[q]
  <2>1. \A q \in 1..dbOrigSize : q \notin pInJournal' => q \notin pInJournal /\ q # p
    BY <1>1, <1>7
  <2>2. 1..dbOrigSize \subseteq 1..Len(image')
    BY <1>1, <1>3, <1>4
  <2> QED  BY <1>1, <1>2, <2>1, <2>2
<1> QED  BY <1>2, <1>4, <1>5, <1>6, <1>8, <1>9 DEF CacheInv

\* The places of a journal are enough for one record of every page.
LEMMA RoomFor ==
    ASSUME NEW pages, NEW size \in Nat, pages \subseteq 1..size, size <= MaxPages
    PROVE  /\ IsFiniteSet(pages) /\ Cardinality(pages) \in Nat /\ Cardinality(pages) <= MaxPages
           /\ \A p : p \notin pages => Cardinality(pages \cup {p}) = Cardinality(pages) + 1
<1>1. IsFiniteSet(1..size) /\ Cardinality(1..size) = size
  BY FS_Interval
<1>2. IsFiniteSet(pages) /\ Cardinality(pages) <= size
  BY <1>1, FS_Subset
<1>3. Cardinality(pages) \in Nat
  BY <1>2, FS_CardinalityType
<1>4. \A p : p \notin pages => Cardinality(pages \cup {p}) = Cardinality(pages) + 1
  BY <1>2, FS_AddElement
<1> QED  BY <1>2, <1>3, <1>4, BoundsAssumption

\* What sqlite3PagerWrite leaves alone, whatever it has to call.
LEMMA WriteFacts ==
    ASSUME Inv, Recovers, UNCHANGED pragma, TxInv, NEW p \in 1..MaxPages, Write(p)
    PROVE  /\ recovered' = recovered /\ HandlesInv' /\ FilesInv'
           /\ Cells' = Cells /\ DbSize' = DbSize /\ StoredJournal' = StoredJournal
           /\ db_open' = db_open /\ db_size' = db_size /\ j_open' = j_open /\ j_data' = j_data
           /\ UNCHANGED <<journalHdr, dbOrigSize, txs, before, reply>>
           /\ eState' = (IF eState = "WRITER_LOCKED" THEN "WRITER_CACHEMOD" ELSE eState)
           /\ TxInv'
<1>1. /\ UNCHANGED D_vars /\ UNCHANGED J_vars
      /\ UNCHANGED <<journalHdr, dbOrigSize, txs, before, reply>>
      /\ eState' = (IF eState = "WRITER_LOCKED" THEN "WRITER_CACHEMOD" ELSE eState)
  BY DEF Write
<1>2. /\ recovered' = recovered /\ HandlesInv' /\ FilesInv'
      /\ Cells' = Cells /\ DbSize' = DbSize /\ StoredJournal' = StoredJournal
      /\ db_open' = db_open /\ db_size' = db_size /\ j_open' = j_open /\ j_data' = j_data
  BY <1>1, FilesSame
<1>3. eState' \in Writing
  BY <1>1 DEF TxInv, Writing
<1>4. TxInv'
  BY <1>1, <1>2, <1>3 DEF TxInv
<1> QED  BY <1>1, <1>2, <1>4

\* The fields of struct Pager.
LEMMA WriteTypes ==
    ASSUME TypeInv, NEW p \in 1..MaxPages, Write(p), UNCHANGED pragma, recovered' = recovered,
           journalOff' \in Nat, nRec' \in Nat, journalHdr <= journalOff', journalOff' <= MaxJournal
    PROVE  TypeInv'
<1>1. UNCHANGED <<journalHdr, txs, before, reply>>
  BY DEF Write
<1>2. (image \in Seq(Nat) /\ Len(image) <= MaxPages)'
  BY ImageWritten
<1>3. (/\ before \in Seq(Nat) /\ Len(before) <= MaxPages /\ txs \in Nat /\ pragma \in Pragmas
       /\ reply \in {"none", "OK", "ERROR"} /\ recovered \in Seq(Nat) /\ Len(recovered) <= MaxPages
       /\ journalHdr \in Nat)'
  BY <1>1 DEF TypeInv
<1>4. (/\ journalOff \in Nat /\ nRec \in Nat /\ journalHdr <= journalOff /\ journalOff <= MaxJournal)'
  BY <1>1
<1> QED  BY <1>2, <1>3, <1>4 DEF TypeInv

\* sqlite3PagerWrite is an update of the transaction.
LEMMA WriteRefined ==
    ASSUME Inv, Idle, TxInv, TxInv', recovered' = recovered, (image \in Seq(Nat))'
    PROVE  Refined
BY IdleNow, StaysTx DEF Inv, TypeInv, TxInv

\* pager_open_journal, and the first page.
LEMMA WriteFirst ==
    ASSUME Modes, Inv, Recovers, UNCHANGED pragma, Idle, LockedInv, NEW p \in 1..MaxPages, Write(p)
    PROVE  Inv' /\ Refined
<1>1. /\ TxInv /\ eState = "WRITER_LOCKED" /\ Settled /\ image = before
      /\ dirty = {} /\ need_sync = {} /\ pInJournal = {} /\ nRec = 0
      /\ journalOff = 0 /\ journalHdr = 0 /\ KeepsSound(before)
      /\ TypeInv /\ DbHandle /\ HandlesInv
  BY DEF LockedInv, Inv, HandlesInv
<1>2. /\ recovered' = recovered /\ HandlesInv' /\ FilesInv'
      /\ Cells' = Cells /\ DbSize' = DbSize /\ StoredJournal' = StoredJournal
      /\ db_open' = db_open /\ db_size' = db_size /\ j_open' = j_open /\ j_data' = j_data
      /\ UNCHANGED <<journalHdr, dbOrigSize, txs, before, reply>>
      /\ eState' = "WRITER_CACHEMOD" /\ TxInv'
  BY <1>1, WriteFacts
<1>3. /\ before = recovered /\ before \in Seq(Nat) /\ dbOrigSize = Len(before) /\ Len(before) <= MaxPages
      /\ CleanNow /\ db_size = DbSize /\ Len(before) \in Nat /\ MaxPages \in Nat /\ MaxJournal \in Nat
  BY <1>1, BoundsAssumption DEF TxInv, TypeInv, Settled
<1>4. MustJournal(p) <=> p <= dbOrigSize
  BY <1>1 DEF MustJournal
<1>5. /\ journalOff' = IF MustJournal(p) THEN 6 ELSE 3
      /\ nRec' = IF MustJournal(p) THEN 1 ELSE 0
      /\ pInJournal' = IF MustJournal(p) THEN {p} ELSE {}
      /\ need_sync' = {p}
      /\ calls' = When(~j_open, <<OpenJ>>) \o <<WriteJ(0, Header(dbOrigSize))>>
                    \o When(MustJournal(p), <<WriteJ(Sector, Record(p, image[p], txs))>>)
  <2>1. journalOff' = IF MustJournal(p) THEN 6 ELSE 3
    BY <1>1 DEF Write, Sector
  <2>2. nRec' = IF MustJournal(p) THEN 1 ELSE 0
    BY <1>1 DEF Write
  <2>3. pInJournal' = IF MustJournal(p) THEN {p} ELSE {}
    BY <1>1 DEF Write
  <2>4. need_sync' = {p}
    <3>1. MustJournal(p) \/ p > dbOrigSize
      BY <1>3, <1>4
    <3> QED  BY <1>1, <3>1 DEF Write
  <2>5. calls' = When(~j_open, <<OpenJ>>) \o <<WriteJ(0, Header(dbOrigSize))>>
                    \o When(MustJournal(p), <<WriteJ(Sector, Record(p, image[p], txs))>>)
    BY <1>1, Zenon DEF Write, When
  <2> QED  BY <2>1, <2>2, <2>3, <2>4, <2>5
<1>6. MaxJournal >= 3 * (MaxPages + 1)
  BY DEF Modes, Sector
<1>7. TypeInv'
  <2>1. MaxPages >= 1
    BY BoundsAssumption
  <2>2. 6 <= MaxJournal
    BY <1>3, <1>6, <2>1
  <2>3. journalOff' \in Nat /\ nRec' \in Nat /\ journalHdr <= journalOff' /\ journalOff' <= MaxJournal
    BY <1>1, <1>3, <1>5, <2>2
  <2> QED  BY <1>1, <1>2, <2>3, WriteTypes
<1>8. CacheInv({})'
  <2>1. /\ dbOrigSize \in Nat /\ db_size = Len(image) /\ dbOrigSize = Len(image)
        /\ \A q \in 1..Len(image) : Cells[q] = image[q]
    BY <1>1, <1>3 DEF CleanNow, Clean, Same
  <2>2. \A q \in 1..Len(image) : q \notin dirty => Filed({}, q)
    BY <1>3, <2>1 DEF Filed
  <2> QED  BY <1>1, <1>2, <1>3, <2>1, <2>2, CacheWritten
<1>9. ModeInv'
  BY <1>1, <1>2 DEF ModeInv
<1>10. Room'
  <2>1. Cardinality(pInJournal') \in Nat /\ (MustJournal(p) => Cardinality(pInJournal') = 1)
    <3>1. Cardinality({p}) = 1 /\ Cardinality({}) = 0
      BY FS_EmptySet, FS_Singleton
    <3>2. CASE MustJournal(p)
      BY <1>5, <3>1, <3>2
    <3>3. CASE ~MustJournal(p)
      BY <1>5, <3>1, <3>3
    <3> QED  BY <3>2, <3>3
  <2>2. nRec' <= Cardinality(pInJournal')
    BY <1>5, <2>1
  <2>3. journalOff' = journalHdr' + 3 * (nRec' + 1)
    BY <1>1, <1>2, <1>5
  <2> QED  BY <1>1, <1>2, <1>3, <1>6, <2>2, <2>3 DEF Room, Sector
<1>11. Settled'
  BY <1>1, <1>2, SettledKept
<1>12. KeepsSound(before)'
  BY <1>1, <1>2 DEF KeepsSound
<1>13. PICK rest : rest = When(MustJournal(p), <<OrigRecord(Sector, p)>>)
  OBVIOUS
<1>14. rest = IF MustJournal(p) THEN <<OrigRecord(Sector, p)>> ELSE << >>
  BY <1>13 DEF When
<1>15. IsList(rest)
  BY <1>14, ListFacts
<1>16. calls' = When(~j_open, <<OpenJ>>) \o <<FirstHeader>> \o rest
  BY <1>1, <1>5, <1>13, Zenon DEF FirstHeader, OrigRecord
<1>17. IF j_open THEN calls' = Cons(FirstHeader, rest) ELSE calls' = Cons(OpenJ, Cons(FirstHeader, rest))
  <2>1. CASE j_open
    <3>1. << >> \o <<FirstHeader>> = <<FirstHeader>>
      BY ListFacts, ConcatFacts
    <3>2. calls' = (<< >> \o <<FirstHeader>>) \o rest
      BY <1>16, <2>1, Zenon DEF When
    <3>3. calls' = Cons(FirstHeader, rest)
      BY <1>15, <3>1, <3>2, ConcatFacts
    <3> QED  BY <2>1, <3>3
  <2>2. CASE ~j_open
    <3>1. calls' = (<<OpenJ>> \o <<FirstHeader>>) \o rest
      BY <1>16, <2>2, Zenon DEF When
    <3>2. IsList(<<FirstHeader>>) /\ IsList(<< >>)
      BY ListFacts
    <3>3. <<OpenJ>> \o <<FirstHeader>> = Cons(OpenJ, <<FirstHeader>>)
      BY <3>2, ConcatFacts
    <3>4. Cons(OpenJ, <<FirstHeader>>) \o rest = Cons(OpenJ, <<FirstHeader>> \o rest)
      BY <1>15, <3>2, ConsConcat
    <3>5. <<FirstHeader>> \o rest = Cons(FirstHeader, rest)
      BY <1>15, ConcatFacts
    <3> QED  BY <2>2, <3>1, <3>3, <3>4, <3>5, Zenon
  <2> QED  BY <2>1, <2>2
<1>18. FirstHeader' = FirstHeader /\ OrigRecord(Sector, p)' = OrigRecord(Sector, p)
  <2>1. noSync' = noSync
    BY DEF noSync
  <2> QED  BY <1>2, <2>1 DEF FirstHeader, OrigRecord, Header
<1>19. (IF rest = << >> THEN nRec = 0 /\ pInJournal = {}
        ELSE nRec = 1 /\ pInJournal \subseteq need_sync /\ \E q \in 1..dbOrigSize :
               rest = <<OrigRecord(Sector, q)>> /\ pInJournal = {q})'
  <2>1. CASE MustJournal(p)
    <3>1. rest = <<OrigRecord(Sector, p)>>' /\ rest # << >>
      BY <1>14, <1>18, <2>1, ListFacts
    <3>2. p \in 1..dbOrigSize'
      BY <1>2, <1>3, <1>4, <2>1
    <3>3. nRec' = 1 /\ pInJournal' = {p} /\ need_sync' = {p}
      BY <1>5, <2>1
    <3> QED  BY <3>1, <3>2, <3>3
  <2>2. CASE ~MustJournal(p)
    BY <1>5, <1>14, <2>2
  <2> QED  BY <2>1, <2>2
<1>20. (\E r \in {<< >>} \cup {<<OrigRecord(Sector, q)>> : q \in pInJournal} : r = rest)'
  BY <1>19
<1>21. OpeningInv'
  <2>1. (\/ calls = Cons(OpenJ, Cons(FirstHeader, rest)) /\ ~j_open
         \/ calls = Cons(FirstHeader, rest) /\ j_open)'
    BY <1>2, <1>17, <1>18
  <2>2. journalHdr' = 0
    BY <1>1, <1>2
  <2> QED  BY <1>2, <1>8, <1>9, <1>10, <1>11, <1>12, <1>19, <1>20, <2>1, <2>2 DEF OpeningInv
<1>22. Refined
  BY <1>1, <1>2, <1>7, WriteRefined DEF TypeInv
<1> QED  BY <1>2, <1>7, <1>21, <1>22 DEF Inv, Phase

\* Another page, with the journal open.
LEMMA WriteNext ==
    ASSUME Modes, Inv, Recovers, UNCHANGED pragma, Idle, WriterInv, NEW p \in 1..MaxPages, Write(p)
    PROVE  Inv' /\ Refined
<1>1. /\ TxInv /\ ModeInv /\ j_open /\ CacheInv({}) /\ Room /\ Unsynced
      /\ UnsealedAt(journalHdr, nRec, pInJournal)
      /\ TypeInv /\ DbHandle /\ HandlesInv
  BY DEF WriterInv, Inv, HandlesInv
<1>2. /\ recovered' = recovered /\ HandlesInv' /\ FilesInv'
      /\ Cells' = Cells /\ DbSize' = DbSize /\ StoredJournal' = StoredJournal
      /\ db_open' = db_open /\ db_size' = db_size /\ j_open' = j_open /\ j_data' = j_data
      /\ UNCHANGED <<journalHdr, dbOrigSize, txs, before, reply>>
      /\ eState' = (IF eState = "WRITER_LOCKED" THEN "WRITER_CACHEMOD" ELSE eState) /\ TxInv'
  BY <1>1, WriteFacts
<1>3. /\ dbOrigSize = Len(before) /\ Len(before) <= MaxPages /\ dbOrigSize \in Nat
      /\ MaxPages \in Nat /\ MaxJournal \in Nat /\ nRec \in Nat /\ journalOff \in Nat /\ journalHdr \in Nat
  BY <1>1, BoundsAssumption DEF TxInv, TypeInv
<1>4. eState # "WRITER_LOCKED" /\ eState' = eState
  BY <1>1, <1>2 DEF ModeInv
<1>5. /\ dbOrigSize <= db_size /\ db_size <= Len(image)
      /\ \A q \in 1..Len(image) : q \notin dirty => Filed({}, q)
      /\ dirty \subseteq 1..Len(image) /\ need_sync \subseteq dirty
      /\ pInJournal \subseteq 1..dbOrigSize /\ dirty \cap 1..dbOrigSize \subseteq pInJournal
      /\ \A q \in 1..dbOrigSize : q \notin pInJournal => image[q] = before[q]
  BY <1>1 DEF CacheInv
<1>6. CacheInv({})'
  BY <1>1, <1>2, <1>3, <1>5, CacheWritten
<1>7. ModeInv'
  BY <1>1, <1>2, <1>4 DEF ModeInv
<1>8. MustJournal(p) <=> p \in 1..dbOrigSize /\ p \notin pInJournal
  BY <1>3 DEF MustJournal
<1>9. /\ Cardinality(pInJournal) \in Nat
      /\ p \notin pInJournal => Cardinality(pInJournal \cup {p}) = Cardinality(pInJournal) + 1
  BY <1>3, <1>5, RoomFor
<1>10. /\ journalOff = journalHdr + 3 * (nRec + 1) /\ nRec <= Cardinality(pInJournal)
       /\ journalHdr + 3 * (MaxPages + 1) <= MaxJournal
  BY <1>1 DEF Room, Sector
<1>11. SafeNow(journalHdr)' /\ Unsealed(j_data', before', txs', journalHdr', nRec, pInJournal)
  BY <1>1, <1>2 DEF UnsealedAt, SafeNow
<1>12. CASE MustJournal(p)
  <2>1. /\ journalOff' = journalOff + 3 /\ nRec' = nRec + 1
        /\ pInJournal' = pInJournal \cup {p} /\ need_sync' = need_sync \cup {p}
    BY <1>4, <1>12 DEF Write, Sector
  <2>2. calls' = << >> \o << >> \o <<WriteJ(journalOff, Record(p, image[p], txs))>>
    BY <1>4, <1>12, Zenon DEF Write, When
  <2>3. nRec + 1 <= Cardinality(pInJournal') /\ Cardinality(pInJournal') <= MaxPages
    <3>1. Cardinality(pInJournal') = Cardinality(pInJournal) + 1
      BY <1>8, <1>9, <1>12, <2>1
    <3>2. pInJournal' \subseteq 1..dbOrigSize
      BY <1>5, <1>8, <1>12, <2>1
    <3>3. Cardinality(pInJournal') <= MaxPages
      BY <1>3, <3>2, RoomFor
    <3> QED  BY <1>3, <1>9, <1>10, <3>1, <3>3
  <2>4. Room'
    <3>1. journalOff' = journalHdr' + 3 * (nRec' + 1)
      BY <1>2, <1>3, <1>10, <2>1
    <3> QED  BY <1>2, <1>10, <2>1, <2>3, <3>1 DEF Room, Sector
  <2>5. TypeInv'
    <3>1. Cardinality(pInJournal') \in Nat
      <4>1. pInJournal' \subseteq 1..dbOrigSize
        BY <1>5, <1>8, <1>12, <2>1
      <4> QED  BY <1>3, <4>1, RoomFor
    <3>2. nRec + 1 <= MaxPages
      BY <1>3, <2>3, <3>1
    <3>3. journalOff' <= MaxJournal
      BY <1>3, <1>10, <2>1, <3>2
    <3>4. journalOff' \in Nat /\ nRec' \in Nat /\ journalHdr <= journalOff'
      BY <1>3, <1>10, <2>1
    <3> QED  BY <1>1, <1>2, <3>3, <3>4, WriteTypes
  <2>6. image[p] = before[p] /\ p \in 1..dbOrigSize
    BY <1>5, <1>8, <1>12
  <2>7. (calls = <<OrigRecord(journalOff - Sector, p)>>)'
    <3>1. << >> \o << >> = << >>
      BY ListFacts, ConcatFacts
    <3>2. << >> \o <<WriteJ(journalOff, Record(p, image[p], txs))>> = <<WriteJ(journalOff, Record(p, image[p], txs))>>
      BY ListFacts, ConcatFacts
    <3>3. calls' = <<WriteJ(journalOff, Record(p, image[p], txs))>>
      BY <2>2, <3>1, <3>2, Zenon
    <3>4. journalOff' - Sector = journalOff
      BY <1>3, <2>1 DEF Sector
    <3> QED  BY <1>2, <2>6, <3>3, <3>4 DEF OrigRecord
  <2>8. (\E pages \in {pInJournal} \cup {pInJournal \ {q} : q \in pInJournal} :
           /\ calls = <<OrigRecord(journalOff - Sector, p)>>
           /\ pInJournal = pages \cup {p} /\ UnsealedAt(journalHdr, nRec - 1, pages))'
    <3>1. PICK pages : pages = pInJournal
      OBVIOUS
    <3>2. pages = pInJournal' \ {p} /\ p \in pInJournal' /\ pInJournal' = pages \cup {p}
      BY <1>8, <1>12, <2>1, <3>1
    <3>3. nRec' - 1 = nRec
      BY <1>3, <2>1
    <3>4. UnsealedAt(journalHdr, nRec - 1, pages)'
      BY <1>11, <3>1, <3>3 DEF UnsealedAt
    <3> QED  BY <2>7, <3>2, <3>4
  <2>9. Unsynced'
    BY <1>1, <1>2, <2>1 DEF Unsynced
  <2>10. (p \in need_sync \cap 1..dbOrigSize)' /\ (nRec > 0)'
    BY <1>2, <1>3, <2>1, <2>6
  <2>11. RecordingInv'
    BY <1>1, <1>2, <1>6, <1>7, <2>4, <2>8, <2>9, <2>10 DEF RecordingInv
  <2>12. Refined
    BY <1>1, <1>2, <2>5, WriteRefined DEF TypeInv
  <2> QED  BY <1>2, <2>5, <2>11, <2>12 DEF Inv, Phase
<1>13. CASE ~MustJournal(p)
  <2>1. /\ journalOff' = journalOff /\ nRec' = nRec
        /\ pInJournal' = pInJournal /\ need_sync' \in {need_sync, need_sync \cup {p}}
    BY <1>4, <1>13 DEF Write
  <2>2. calls' = << >> \o << >> \o << >>
    BY <1>4, <1>13, Zenon DEF Write, When
  <2>3. Idle'
    <3>1. << >> \o << >> = << >>
      BY ListFacts, ConcatFacts
    <3> QED  BY <2>2, <3>1 DEF Idle
  <2>4. Room'
    BY <1>1, <1>2, <2>1 DEF Room
  <2>5. TypeInv'
    <3>1. journalOff' \in Nat /\ nRec' \in Nat /\ journalHdr <= journalOff' /\ journalOff' <= MaxJournal
      BY <1>1, <2>1 DEF TypeInv
    <3> QED  BY <1>1, <1>2, <3>1, WriteTypes
  <2>6. Unsynced'
    BY <1>1, <1>2, <2>1 DEF Unsynced
  <2>7. UnsealedAt(journalHdr, nRec, pInJournal)'
    BY <1>11, <2>1 DEF UnsealedAt
  <2>8. WriterInv'
    BY <1>1, <1>2, <1>6, <1>7, <2>4, <2>6, <2>7 DEF WriterInv
  <2>9. Refined
    BY <1>1, <1>2, <2>5, WriteRefined DEF TypeInv
  <2> QED  BY <1>2, <2>3, <2>5, <2>8, <2>9 DEF Inv, Phase, IdleInv
<1> QED  BY <1>12, <1>13

\* s and then t; the provers read an equation of \o cell by cell.
Joined(s, t) == s \o t

\* syncJournal as the calls it still has to make, before rest.
SyncThen(n, h, end) == SyncJournal(n, h, end, TRUE)
SyncLast(n, h, end) == SyncJournal(n, h, end, FALSE)

\* The calls of syncJournal, with a header to write after it or without.
LEMMA SyncCalls ==
    ASSUME ~noSync, NEW n, NEW h, NEW end, NEW rest, IsList(rest)
    PROVE  /\ Joined(SyncLast(n, h, end), rest) =
                Cons(CheckJ(end), Syncs(h, n, rest))
           /\ Joined(SyncThen(n, h, end), rest) =
                Cons(CheckJ(end), Syncs(h, n, Cons(WriteJ(end, Header(dbOrigSize)), rest)))
           /\ IsList(SyncLast(n, h, end)) /\ IsList(SyncThen(n, h, end))
<1>1. PICK a, b, c : /\ a = <<CheckJ(end)>> /\ b = When(fullSync, <<SyncJ>>)
                     /\ c = <<WriteJ(h, <<Magic(n)>>), SyncJ>>
  OBVIOUS
<1>2. /\ SyncLast(n, h, end) = a \o b \o c \o << >>
      /\ SyncThen(n, h, end) = a \o b \o c \o <<WriteJ(end, Header(dbOrigSize))>>
  BY <1>1, Zenon DEF SyncThen, SyncLast, SyncJournal, When
<1>3. b = IF fullSync THEN <<SyncJ>> ELSE << >>
  BY <1>1 DEF When
<1>4. IsList(a) /\ IsList(b) /\ IsList(<<SyncJ>>) /\ IsList(<< >>)
  <2>1. IsList(a) /\ IsList(<<SyncJ>>) /\ IsList(<< >>)
    BY <1>1, ListFacts
  <2>2. CASE fullSync
    BY <1>3, <2>1, <2>2
  <2>3. CASE ~fullSync
    BY <1>3, <2>1, <2>3
  <2> QED  BY <2>1, <2>2, <2>3
<1>5. ASSUME NEW t, IsList(t)
      PROVE  /\ c \o t = Magics(h, n, t) /\ IsList(c \o t) /\ IsList(Magics(h, n, t))
             /\ b \o Magics(h, n, t) = Syncs(h, n, t) /\ IsList(Syncs(h, n, t))
             /\ a \o Syncs(h, n, t) = Cons(CheckJ(end), Syncs(h, n, t))
             /\ IsList(Cons(CheckJ(end), Syncs(h, n, t)))
  <2>1. c \o t = Magics(h, n, t)
    BY <1>1, <1>5, TwoConcat DEF Magics
  <2>2. IsList(Magics(h, n, t))
    BY <1>5, ConsFacts DEF Magics
  <2>3. b \o Magics(h, n, t) = Syncs(h, n, t) /\ IsList(Syncs(h, n, t))
    <3>1. CASE fullSync
      BY <1>3, <2>2, <3>1, ConcatFacts, ConsFacts DEF Syncs
    <3>2. CASE ~fullSync
      BY <1>3, <2>2, <3>2, ConcatFacts DEF Syncs
    <3> QED  BY <3>1, <3>2
  <2>4. a \o Syncs(h, n, t) = Cons(CheckJ(end), Syncs(h, n, t))
    BY <1>1, <2>3, ConcatFacts
  <2>5. IsList(Cons(CheckJ(end), Syncs(h, n, t)))
    BY <2>3, ConsFacts
  <2> QED  BY <2>1, <2>2, <2>3, <2>4, <2>5
<1>6. IsList(c)
  <2>1. <<WriteJ(h, <<Magic(n)>>), SyncJ>> \in Seq({WriteJ(h, <<Magic(n)>>), SyncJ})
    OBVIOUS
  <2> QED  BY <1>1, <2>1 DEF IsList
<1>7. ASSUME NEW d, IsList(d)
      PROVE  /\ (a \o b \o c \o d) \o rest = Cons(CheckJ(end), Syncs(h, n, d \o rest))
             /\ IsList(a \o b \o c \o d)
  <2>1. IsList(a \o b) /\ IsList(a \o b \o c) /\ IsList(a \o b \o c \o d) /\ IsList(d \o rest)
        /\ IsList(b \o c)
    BY <1>4, <1>6, <1>7, ConcatFacts
  <2>2. PICK t : t = d \o rest
    OBVIOUS
  <2>3. (a \o b \o c \o d) \o rest = a \o (b \o (c \o t))
    <3>1. (a \o b \o c \o d) \o rest = (a \o b \o c) \o t
      BY <1>7, <2>1, <2>2, ListsAssociate
    <3>2. (a \o b \o c) \o t = (a \o b) \o (c \o t)
      <4>1. IsList(t) /\ IsList(c) /\ IsList(a \o b)
        BY <1>6, <2>1, <2>2
      <4>2. PICK u : u = a \o b
        OBVIOUS
      <4>3. (u \o c) \o t = u \o (c \o t)
        BY <4>1, <4>2, ListsAssociate
      <4> QED  BY <4>2, <4>3
    <3>3. (a \o b) \o (c \o t) = a \o (b \o (c \o t))
      <4>1. IsList(a) /\ IsList(b) /\ IsList(c \o t)
        BY <1>4, <1>5, <2>1, <2>2
      <4>2. PICK u : u = c \o t
        OBVIOUS
      <4>3. (a \o b) \o u = a \o (b \o u)
        BY <4>1, <4>2, ListsAssociate
      <4> QED  BY <4>2, <4>3
    <3> QED  BY <3>1, <3>2, <3>3, Zenon
  <2>4. a \o (b \o (c \o t)) = Cons(CheckJ(end), Syncs(h, n, t))
    BY <1>5, <2>1, <2>2
  <2> QED  BY <2>1, <2>2, <2>3, <2>4, Zenon
<1>8. << >> \o rest = rest /\ <<WriteJ(end, Header(dbOrigSize))>> \o rest = Cons(WriteJ(end, Header(dbOrigSize)), rest)
  BY ConcatFacts
<1>9. IsList(<< >>) /\ IsList(<<WriteJ(end, Header(dbOrigSize))>>)
  BY ListFacts
<1> QED  BY <1>2, <1>7, <1>8, <1>9 DEF Joined

\* The calls that end a transaction are lists.
LEMMA FinalizeList ==
    ASSUME NEW z
    PROVE  IsList(Ending(z)) /\ IsList(Finalize(z)) /\ IsList(Cons(SyncD, Finalize(z)))
<1>1. IsList(<<z>>)
  BY ListFacts
<1>2. IsList(Ending(z))
  BY <1>1, ConsFacts DEF Ending
<1>3. IsList(Finalize(z))
  BY <1>2, ConsFacts DEF Finalize
<1> QED  BY <1>2, <1>3, ConsFacts

\* The end of a COMMIT or of a playback, as its calls.
LEMMA EndCalls ==
    ASSUME Modes, pragma \in Pragmas, NEW z
    PROVE  /\ EndTransaction \o <<z>> = Finalize(z)
           /\ SyncDb(EndTransaction) \o <<z>> = Cons(SyncD, Finalize(z))
           /\ IsList(EndTransaction) /\ IsList(SyncDb(EndTransaction))
<1>1. ~noSync /\ (pragma.journal_mode = "DELETE" \/ pragma.journal_mode = "PERSIST")
  BY ModeFacts
<1>2. PICK f, l : f = FirstEnd /\ l = LastEnd
  OBVIOUS
<1>a. EndTransaction = <<f, l>>
  <2>1. CASE pragma.journal_mode = "DELETE"
    BY <1>2, <2>1 DEF EndTransaction, FirstEnd, LastEnd
  <2>2. CASE pragma.journal_mode = "PERSIST"
    <3>1. f = WriteJ(0, <<0, 0, 0>>) /\ l = SyncJ
      BY <1>2, <2>2 DEF FirstEnd, LastEnd
    <3>2. EndTransaction = <<f>> \o <<l>>
      BY <1>1, <2>2, <3>1 DEF EndTransaction, When
    <3>3. IsList(<<l>>) /\ IsList(<< >>) /\ IsList(<<f, l>>)
      <4>1. <<f, l>> \in Seq({f, l})
        OBVIOUS
      <4> QED  BY <4>1, ListFacts DEF IsList
    <3>4. <<f>> \o <<l>> = Cons(f, <<l>>)
      BY <3>3, ConcatFacts
    <3>5. <<l>> = Cons(l, << >>)
      BY SingleList
    <3>6. <<f, l>> \o << >> = Cons(f, Cons(l, << >>))
      BY <3>3, TwoConcat
    <3>7. <<f, l>> \o << >> = <<f, l>>
      BY <3>3, ConcatFacts
    <3> QED  BY <3>2, <3>4, <3>5, <3>6, <3>7, Zenon
  <2> QED  BY <1>1, <2>1, <2>2
<1>3. IsList(<<z>>) /\ IsList(<<SyncD>>)
  BY ListFacts
<1>4. EndTransaction \o <<z>> = Finalize(z)
  <2>0. PICK t : t = <<z>>
    OBVIOUS
  <2>1. <<f, l>> \o t = Cons(f, Cons(l, t))
    <3>1. IsList(t)
      BY <1>3, <2>0
    <3> QED  BY <3>1, TwoConcat
  <2> QED  BY <1>a, <1>2, <2>0, <2>1, Zenon DEF Finalize, Ending
<1>5. IsList(EndTransaction)
  <2>1. <<f, l>> \in Seq({f, l})
    OBVIOUS
  <2> QED  BY <1>a, <2>1 DEF IsList
<1>6. SyncDb(EndTransaction) = <<SyncD>> \o EndTransaction
  BY <1>1 DEF SyncDb, When
<1>7. <<SyncD>> \o EndTransaction = Cons(SyncD, EndTransaction)
  BY <1>5, ConcatFacts
<1>8. Cons(SyncD, EndTransaction) \o <<z>> = Cons(SyncD, EndTransaction \o <<z>>)
  BY <1>3, <1>5, ConsConcat
<1>9. IsList(SyncDb(EndTransaction))
  BY <1>5, <1>6, <1>7, ConsFacts
<1> QED  BY <1>4, <1>5, <1>6, <1>7, <1>8, <1>9

-----------------------------------------------------------------------------
(* pagerStress.                                                            *)

\* pagerStress: a page leaves the cache before COMMIT.
LEMMA SpillStep ==
    ASSUME Modes, Inv, Recovers, UNCHANGED pragma, Idle, WriterInv, NEW p \in 1..MaxPages, Spill(p)
    PROVE  Inv' /\ Refined
<1>1. /\ TxInv /\ ModeInv /\ j_open /\ CacheInv({}) /\ Room /\ Unsynced
      /\ Unsealed(j_data, before, txs, journalHdr, nRec, pInJournal) /\ SafeNow(journalHdr)
      /\ TypeInv /\ DbHandle /\ HandlesInv /\ ~noSync /\ noSync' = noSync
  BY ModeFacts DEF WriterInv, Inv, HandlesInv, UnsealedAt, TypeInv, noSync
<1>2. PICK syncs \in BOOLEAN : syncs <=> p \in need_sync \/ eState = "WRITER_CACHEMOD"
  OBVIOUS
<1>3. /\ p \in dirty \ {1} /\ dirty' = dirty \ {p} /\ eState' = "WRITER_DBMOD"
      /\ UNCHANGED D_vars /\ UNCHANGED J_vars
      /\ UNCHANGED <<image, pInJournal, dbOrigSize, txs, before, reply>>
  BY DEF Spill
<1>4. /\ syncs => journalOff + Sector * (MaxPages + 1) <= MaxJournal
      /\ journalHdr' = IF syncs THEN journalOff ELSE journalHdr
      /\ journalOff' = IF syncs THEN journalOff + Sector ELSE journalOff
      /\ nRec' = IF syncs THEN 0 ELSE nRec
      /\ need_sync' = IF syncs THEN {} ELSE need_sync
  BY <1>1, <1>2 DEF Spill
<1>5. calls' = When(syncs, SyncJournal(nRec, journalHdr, journalOff, TRUE))
                 \o <<WriteD(Pagelist({p}, image), FALSE)>>
  <2>1. CASE syncs
    BY <1>2, <2>1, Zenon DEF Spill, When
  <2>2. CASE ~syncs
    BY <1>2, <2>2, Zenon DEF Spill, When
  <2> QED  BY <2>1, <2>2
<1>6. /\ recovered' = recovered /\ HandlesInv' /\ FilesInv'
      /\ Cells' = Cells /\ DbSize' = DbSize /\ StoredJournal' = StoredJournal
      /\ db_open' = db_open /\ db_size' = db_size /\ j_open' = j_open /\ j_data' = j_data
  BY <1>3, FilesSame
<1>7. TxInv'
  BY <1>1, <1>3, <1>6 DEF TxInv, Writing
<1>8. TxModified'
  BY <1>1, <1>3, <1>6, <1>7 DEF TxModified
<1>9. /\ MaxPages \in Nat /\ MaxJournal \in Nat /\ nRec \in Nat /\ journalOff \in Nat /\ journalHdr \in Nat
      /\ journalOff = journalHdr + 3 * (nRec + 1)
      /\ journalHdr + 3 * (MaxPages + 1) <= MaxJournal
      /\ journalHdr <= journalOff /\ journalOff <= MaxJournal
      /\ nRec <= Cardinality(pInJournal)
  BY <1>1, BoundsAssumption DEF TypeInv, Room, Sector
<1>10. (/\ image \in Seq(Nat) /\ Len(image) <= MaxPages /\ before \in Seq(Nat) /\ Len(before) <= MaxPages
        /\ recovered \in Seq(Nat) /\ Len(recovered) <= MaxPages
        /\ txs \in Nat /\ pragma \in Pragmas /\ reply \in {"none", "OK", "ERROR"})'
  BY <1>1, <1>3, <1>6 DEF TypeInv
<1>11. p \in 1..Len(image) /\ p # 1 /\ dbOrigSize \in Nat /\ p \in Nat
  <2>1. p \in 1..Len(image)
    BY <1>1, <1>3 DEF CacheInv
  <2> QED  BY <1>1, <1>3, <2>1 DEF TxInv, TypeInv
<1>12. p \in pInJournal \/ p > dbOrigSize
  <2>1. p <= dbOrigSize => p \in dirty \cap 1..dbOrigSize
    BY <1>3, <1>11
  <2> QED  BY <1>1, <1>11, <2>1 DEF CacheInv
<1>13. CacheInv({Entry(p)})'
  <2>1. (Len(image) > 0 /\ dbOrigSize <= db_size /\ db_size <= Len(image))'
    BY <1>1, <1>3, <1>6 DEF CacheInv
  <2>2. ASSUME NEW q \in 1..Len(image'), q \notin dirty' PROVE Filed({Entry(p)}, q)'
    <3>1. CASE q = p
      BY <3>1 DEF Filed
    <3>2. CASE q # p
      <4>1. q \in 1..Len(image) /\ q \notin dirty
        BY <1>3, <2>2, <3>2
      <4>2. q <= db_size /\ Cells[q] = image[q]
        BY <1>1, <4>1 DEF CacheInv, Filed
      <4> QED  BY <1>3, <1>6, <4>2 DEF Filed
    <3> QED  BY <3>1, <3>2
  <2>3. (\A q \in 1..Len(image) : q \notin dirty => Filed({Entry(p)}, q))'
    BY <2>2
  <2>4. dirty' \subseteq 1..Len(image') /\ need_sync' \subseteq dirty'
    <3>1. dirty \subseteq 1..Len(image) /\ need_sync \subseteq dirty
      BY <1>1 DEF CacheInv
    <3>2. CASE syncs
      BY <1>3, <1>4, <3>1, <3>2
    <3>3. CASE ~syncs
      <4>1. p \notin need_sync
        BY <1>2, <3>3
      <4> QED  BY <1>3, <1>4, <3>1, <3>3, <4>1
    <3> QED  BY <3>2, <3>3
  <2>5. (/\ pInJournal \subseteq 1..dbOrigSize /\ dirty \cap 1..dbOrigSize \subseteq pInJournal
         /\ \A q \in 1..dbOrigSize : q \notin pInJournal => image[q] = before[q])'
    BY <1>1, <1>3 DEF CacheInv
  <2> QED  BY <2>1, <2>3, <2>4, <2>5 DEF CacheInv
<1>14. Unsealed(j_data', before', txs', journalHdr, nRec, pInJournal')
  BY <1>1, <1>3, <1>6
<1>15. SafeNow(journalHdr)' <=> (Safe(before, Cells, DbSize, StoredJournal, j_data, journalHdr') /\ (journalHdr' = 0 => db_size = DbSize))
  BY <1>3, <1>6 DEF SafeNow
<1>16. Refined
  BY <1>1, <1>6, <1>7, <1>10, WriteRefined
<1>17. CASE syncs
  <2>1. /\ journalHdr' = journalOff /\ journalOff' = journalOff + 3 /\ nRec' = 0 /\ need_sync' = {}
        /\ journalOff + 3 * (MaxPages + 1) <= MaxJournal
    BY <1>4, <1>17 DEF Sector
  <2>2. TypeInv'
    <3>1. MaxPages >= 1
      BY BoundsAssumption
    <3>2. journalOff + 3 <= MaxJournal
      BY <1>9, <2>1, <3>1
    <3>3. (/\ journalHdr \in Nat /\ journalOff \in Nat /\ nRec \in Nat
           /\ journalHdr <= journalOff /\ journalOff <= MaxJournal)'
      BY <1>9, <2>1, <3>2
    <3> QED  BY <1>10, <3>3 DEF TypeInv
  <2>3. Header(dbOrigSize)' = Header(dbOrigSize)
    BY <1>1, <1>3 DEF Header
  <2>4. SpillRest(p)' = Cons(WriteJ(journalOff, Header(dbOrigSize)), <<WriteD(Pagelist({p}, image), FALSE)>>)
    BY <1>3, <2>1, <2>3 DEF SpillRest
  <2>5. PICK h, n, rest : h = journalHdr /\ n = nRec /\ rest = SpillRest(p)'
    OBVIOUS
  <2>6. (calls = Checks(h, n, rest))'
    <3>1. PICK last : last = <<WriteD(Pagelist({p}, image), FALSE)>>
      OBVIOUS
    <3>2. IsList(last)
      BY <3>1, ListFacts
    <3>3. calls' = SyncThen(n, h, journalOff) \o last
      BY <1>5, <1>17, <2>5, <3>1, Zenon DEF When, SyncThen
    <3>4. SyncThen(n, h, journalOff) \o last
            = Cons(CheckJ(journalOff), Syncs(h, n, Cons(WriteJ(journalOff, Header(dbOrigSize)), last)))
      <4>1. PICK end : end = journalOff
        OBVIOUS
      <4>2. ~noSync
        BY <1>1
      <4>3. Joined(SyncThen(n, h, end), last)
              = Cons(CheckJ(end), Syncs(h, n, Cons(WriteJ(end, Header(dbOrigSize)), last)))
        BY <3>2, <4>2, SyncCalls
      <4> QED  BY <4>1, <4>3 DEF Joined
    <3>5. calls' = Cons(CheckJ(journalOff), Syncs(h, n, rest))
      BY <2>4, <2>5, <3>1, <3>3, <3>4, Zenon
    <3>6. Syncs(h, n, rest)' = Syncs(h, n, rest)
      BY DEF Syncs, fullSync
    <3> QED  BY <2>1, <3>5, <3>6 DEF Checks
  <2>7. Purpose(rest)'
    <3>1. (/\ journalOff = journalHdr + Sector /\ nRec = 0
           /\ journalHdr + Sector * (MaxPages + 1) <= MaxJournal
           /\ p \in pInJournal \/ p > dbOrigSize)'
      BY <1>3, <1>12, <2>1 DEF Sector
    <3>2. p \in 1..Len(image')
      BY <1>3, <1>11
    <3> QED  BY <1>13, <2>5, <3>1, <3>2 DEF Purpose
  <2>8. SyncingInv'
    <3>3. h \in 0..journalHdr' /\ n \in 0..journalHdr' /\ h + 3 * (n + 1) = journalHdr'
      BY <1>9, <2>1, <2>5
    <3>5. UnsealedAt(h, n, pInJournal)'
      BY <1>1, <1>3, <1>6, <1>14, <2>5 DEF UnsealedAt, SafeNow
    <3>6. (rest \in {CommitRest} \cup {SpillRest(q) : q \in 1..Len(image)})'
      BY <1>3, <1>11, <2>5
    <3> QED  BY <1>8, <2>1, <2>6, <2>7, <3>3, <3>5, <3>6 DEF SyncingInv, SyncStage, Rests, Sector
  <2> QED  BY <1>6, <1>16, <2>2, <2>8 DEF Inv, Phase
<1>18. CASE ~syncs
  <2>1. /\ journalHdr' = journalHdr /\ journalOff' = journalOff /\ nRec' = nRec /\ need_sync' = need_sync
        /\ p \notin need_sync /\ eState # "WRITER_CACHEMOD"
    BY <1>2, <1>4, <1>18
  <2>2. TypeInv'
    <3>1. (/\ journalHdr \in Nat /\ journalOff \in Nat /\ nRec \in Nat
           /\ journalHdr <= journalOff /\ journalOff <= MaxJournal)'
      BY <1>9, <2>1
    <3> QED  BY <1>10, <3>1 DEF TypeInv
  <2>3. journalHdr > 0
    BY <1>1, <1>9, <2>1 DEF ModeInv
  <2>4. (calls = <<WriteD(Pagelist({p}, image), FALSE)>>)'
    <3>1. << >> \o <<WriteD(Pagelist({p}, image), FALSE)>> = <<WriteD(Pagelist({p}, image), FALSE)>>
      BY ListFacts, ConcatFacts
    <3> QED  BY <1>3, <1>5, <1>18, <3>1, Zenon DEF When
  <2>5. (p \in Recorded(j_data, journalHdr) \/ p > dbOrigSize)'
    <3>1. p \in pInJournal => p \in Recorded(j_data, journalHdr)
      BY <1>1, <2>1 DEF Unsynced
    <3> QED  BY <1>3, <1>6, <1>12, <2>1, <3>1
  <2>6. Room' /\ Unsynced'
    BY <1>1, <1>3, <1>6, <2>1 DEF Room, Unsynced
  <2>7. UnsealedAt(journalHdr, nRec, pInJournal)'
    BY <1>1, <1>14, <1>15, <2>1 DEF UnsealedAt, SafeNow
  <2>8. SpillingInv'
    <3>1. p \in 1..Len(image')
      BY <1>3, <1>11
    <3> QED  BY <1>8, <1>13, <2>1, <2>3, <2>4, <2>5, <2>6, <2>7, <3>1 DEF SpillingInv
  <2> QED  BY <1>6, <1>16, <2>2, <2>8 DEF Inv, Phase
<1> QED  BY <1>17, <1>18

-----------------------------------------------------------------------------
(* COMMIT.                                                                 *)

\* Concatenations are lists, and associate.
LEMMA JoinedLists ==
    ASSUME NEW a, NEW b, IsList(a), IsList(b)
    PROVE  /\ IsList(Joined(a, b))
           /\ \A c : IsList(c) => Joined(Joined(a, b), c) = Joined(a, Joined(b, c))
<1>1. IsList(Joined(a, b))
  BY ConcatFacts, Zenon DEF Joined
<1>2. ASSUME NEW c, IsList(c) PROVE Joined(Joined(a, b), c) = Joined(a, Joined(b, c))
  <2>1. (a \o b) \o c = a \o (b \o c)
    BY <1>2, ListsAssociate
  <2> QED  BY <2>1, Zenon DEF Joined
<1> QED  BY <1>1, <1>2

\* Five lists, one after the other.
LEMMA FiveLists ==
    ASSUME NEW a, NEW b, NEW c, NEW d, NEW e,
           IsList(a), IsList(b), IsList(c), IsList(d), IsList(e)
    PROVE  Joined(Joined(Joined(Joined(a, b), c), d), e)
             = Joined(a, Joined(b, Joined(c, Joined(d, e))))
<1>1. PICK ab, abc, de, cde : /\ ab = Joined(a, b) /\ abc = Joined(ab, c)
                              /\ de = Joined(d, e) /\ cde = Joined(c, de)
  OBVIOUS
<1>2. IsList(ab) /\ IsList(de)
  BY <1>1, JoinedLists
<1>3. IsList(abc) /\ IsList(cde)
  BY <1>1, <1>2, JoinedLists
<1>4. Joined(abc, Joined(d, e)) = Joined(Joined(abc, d), e)
  BY <1>3, JoinedLists
<1>5. Joined(Joined(ab, c), de) = Joined(ab, Joined(c, de))
  BY <1>2, JoinedLists
<1>6. Joined(Joined(a, b), cde) = Joined(a, Joined(b, cde))
  BY <1>3, JoinedLists
<1> QED  BY <1>1, <1>4, <1>5, <1>6

\* The calls of COMMIT after those for the record of page 1.
LEMMA CommitCalls ==
    ASSUME Modes, pragma \in Pragmas, NEW a, IsList(a), NEW w, NEW n, NEW h, NEW end
    PROVE  a \o SyncLast(n, h, end) \o <<w>> \o SyncDb(EndTransaction) \o <<Unlock("OK")>>
             = a \o Cons(CheckJ(end), Syncs(h, n, Cons(w, Cons(SyncD, Finalize(Unlock("OK"))))))
<1>1. ~noSync
  BY ModeFacts
<1>2. PICK b, d, u, f : /\ b = SyncLast(n, h, end) /\ d = SyncDb(EndTransaction)
                        /\ u = <<Unlock("OK")>> /\ f = Cons(SyncD, Finalize(Unlock("OK")))
  OBVIOUS
<1>3. d \o u = f /\ IsList(d)
  BY <1>2, EndCalls, Zenon
<1>4. IsList(f)
  BY <1>2, FinalizeList
<1>5. IsList(u) /\ IsList(<<w>>)
  BY <1>2, ListFacts
<1>6. PICK x, t : x = <<w>> /\ t = Cons(w, f)
  OBVIOUS
<1>7. x \o f = t /\ IsList(t) /\ IsList(x)
  BY <1>4, <1>5, <1>6, ConcatFacts, ConsFacts
<1>8. Joined(b, t) = Cons(CheckJ(end), Syncs(h, n, t)) /\ IsList(b)
  BY <1>1, <1>2, <1>7, SyncCalls
<1>9. a \o b \o x \o d \o u = a \o (b \o (x \o (d \o u)))
  <2>1. /\ IsList(a) /\ IsList(b) /\ IsList(x) /\ IsList(d) /\ IsList(u)
    BY <1>3, <1>5, <1>7, <1>8
  <2>2. Joined(Joined(Joined(Joined(a, b), x), d), u)
          = Joined(a, Joined(b, Joined(x, Joined(d, u))))
    BY <2>1, FiveLists
  <2> QED  BY <2>2, Zenon DEF Joined
<1>10. b \o t = Cons(CheckJ(end), Syncs(h, n, t))
  BY <1>8, Zenon DEF Joined
<1>11. a \o b \o x \o d \o u = a \o Cons(CheckJ(end), Syncs(h, n, t))
  BY <1>3, <1>7, <1>9, <1>10, Zenon
<1> QED  BY <1>2, <1>6, <1>11, Zenon

\* sqlite3PagerCommitPhaseOne: the change counter, syncJournal, the dirty pages.
LEMMA CommitStep ==
    ASSUME Modes, Inv, Recovers, UNCHANGED pragma, Idle, WriterInv, Commit
    PROVE  Inv' /\ Refined
<1>1. /\ TxInv /\ ModeInv /\ j_open /\ CacheInv({}) /\ Room /\ Unsynced
      /\ Unsealed(j_data, before, txs, journalHdr, nRec, pInJournal) /\ SafeNow(journalHdr)
      /\ TypeInv /\ DbHandle /\ HandlesInv /\ ~noSync /\ noSync' = noSync /\ pragma \in Pragmas
  BY ModeFacts DEF WriterInv, Inv, HandlesInv, UnsealedAt, TypeInv, noSync
<1>2. PICK count, end : /\ count = IF MustJournal(1) THEN nRec + 1 ELSE nRec
                        /\ end = IF MustJournal(1) THEN journalOff + 3 ELSE journalOff
  OBVIOUS
<1>3. /\ image' = [image EXCEPT ![1] = @ + 1]
      /\ pInJournal' = pInJournal \cup ({1} \cap 1..dbOrigSize)
      /\ eState' = "WRITER_DBMOD" /\ dirty' = dirty \cup {1} /\ need_sync' = {}
      /\ UNCHANGED D_vars /\ UNCHANGED J_vars
      /\ UNCHANGED <<dbOrigSize, txs, before, reply>>
  BY DEF Commit
<1>4. journalOff' = end /\ journalHdr' = end /\ nRec' = count
  BY <1>1, <1>2 DEF Commit, Sector
<1>5. PICK a : a = When(MustJournal(1), <<WriteJ(journalOff, Record(1, image[1], txs))>>)
  OBVIOUS
<1>6. calls' = a \o SyncLast(count, journalHdr, end)
                 \o <<WriteD(Pagelist(dirty', image'), TRUE)>>
                 \o SyncDb(EndTransaction) \o <<Unlock("OK")>>
  BY <1>2, <1>3, <1>5, Zenon DEF Commit, SyncLast, Sector
<1>7. /\ recovered' = recovered /\ HandlesInv' /\ FilesInv'
      /\ Cells' = Cells /\ DbSize' = DbSize /\ StoredJournal' = StoredJournal
      /\ db_open' = db_open /\ db_size' = db_size /\ j_open' = j_open /\ j_data' = j_data
  BY <1>3, FilesSame
<1>8. TxInv'
  BY <1>1, <1>3, <1>7 DEF TxInv, Writing
<1>9. TxModified'
  BY <1>1, <1>3, <1>7, <1>8 DEF TxModified
<1>10. /\ MaxPages \in Nat /\ MaxJournal \in Nat /\ nRec \in Nat /\ journalOff \in Nat /\ journalHdr \in Nat
       /\ journalOff = journalHdr + 3 * (nRec + 1)
       /\ journalHdr + 3 * (MaxPages + 1) <= MaxJournal
       /\ journalHdr <= journalOff /\ journalOff <= MaxJournal
       /\ nRec <= Cardinality(pInJournal)
  BY <1>1, BoundsAssumption DEF TypeInv, Room, Sector
<1>11. /\ dbOrigSize = Len(before) /\ Len(before) <= MaxPages /\ dbOrigSize \in Nat
       /\ image \in Seq(Nat) /\ Len(image) \in Nat /\ Len(image) > 0 /\ Len(image) <= MaxPages
       /\ pInJournal \subseteq 1..dbOrigSize
       /\ dbOrigSize <= db_size /\ db_size <= Len(image) /\ db_size \in Nat
  BY <1>1 DEF TxInv, TypeInv, CacheInv, DbHandle
<1>12. MustJournal(1) <=> 1 \in 1..dbOrigSize /\ 1 \notin pInJournal
  BY <1>11 DEF MustJournal
<1>13. /\ image' \in Seq(Nat) /\ Len(image') = Len(image)
       /\ \A q \in 1..Len(image') : q # 1 => image'[q] = image[q]
  <2>1. image[1] \in Nat /\ 1 \in 1..Len(image)
    BY <1>11
  <2> QED  BY <1>3, <1>11, <2>1
<1>14. CacheInv({})'
  <2>1. (Len(image) > 0 /\ dbOrigSize <= db_size /\ db_size <= Len(image))'
    BY <1>3, <1>7, <1>11, <1>13
  <2>2. ASSUME NEW q \in 1..Len(image'), q \notin dirty' PROVE Filed({}, q)'
    <3>1. q \in 1..Len(image) /\ q \notin dirty /\ q # 1
      BY <1>3, <1>13, <2>2
    <3>2. q <= db_size /\ Cells[q] = image[q]
      BY <1>1, <3>1 DEF CacheInv, Filed
    <3>3. image'[q] = image[q]
      BY <1>13, <2>2, <3>1
    <3> QED  BY <1>3, <1>7, <3>2, <3>3 DEF Filed
  <2>3. (\A q \in 1..Len(image) : q \notin dirty => Filed({}, q))'
    BY <2>2
  <2>4. dirty' \subseteq 1..Len(image') /\ need_sync' \subseteq dirty'
    <3>1. dirty \subseteq 1..Len(image) /\ 1 \in 1..Len(image)
      BY <1>1, <1>11 DEF CacheInv
    <3> QED  BY <1>3, <1>13, <3>1
  <2>5. pInJournal' \subseteq 1..dbOrigSize' /\ dirty' \cap 1..dbOrigSize' \subseteq pInJournal'
    <3>1. dirty \cap 1..dbOrigSize \subseteq pInJournal
      BY <1>1 DEF CacheInv
    <3> QED  BY <1>3, <1>11, <3>1
  <2>6. ASSUME NEW q \in 1..dbOrigSize', q \notin pInJournal' PROVE image'[q] = before'[q]
    <3>1. q \in 1..dbOrigSize /\ q \notin pInJournal /\ q # 1
      BY <1>3, <2>6
    <3>2. image[q] = before[q]
      BY <1>1, <3>1 DEF CacheInv
    <3>3. q \in 1..Len(image')
      BY <1>11, <1>13, <3>1
    <3> QED  BY <1>3, <1>13, <3>1, <3>2, <3>3
  <2> QED  BY <2>1, <2>3, <2>4, <2>5, <2>6 DEF CacheInv
<1>15. TypeInv'
  <2>1. end \in Nat /\ end <= MaxJournal /\ count \in Nat
    <3>1. CASE MustJournal(1)
      <4>1. Cardinality(pInJournal) \in Nat /\ Cardinality(pInJournal \cup {1}) = Cardinality(pInJournal) + 1
        BY <1>11, <1>12, <3>1, RoomFor
      <4>2. pInJournal \cup {1} \subseteq 1..dbOrigSize
        BY <1>11, <1>12, <3>1
      <4>3. Cardinality(pInJournal \cup {1}) <= MaxPages
        BY <1>11, <4>2, RoomFor
      <4>4. nRec + 1 <= MaxPages
        BY <1>10, <4>1, <4>3
      <4>5. end = journalOff + 3 /\ count = nRec + 1
        BY <1>2, <3>1
      <4> QED  BY <1>10, <4>4, <4>5
    <3>2. CASE ~MustJournal(1)
      BY <1>2, <1>10, <3>2
    <3> QED  BY <3>1, <3>2
  <2>2. (/\ recovered \in Seq(Nat) /\ Len(recovered) <= MaxPages
         /\ image \in Seq(Nat) /\ Len(image) <= MaxPages
         /\ before \in Seq(Nat) /\ Len(before) <= MaxPages
         /\ txs \in Nat /\ pragma \in Pragmas /\ reply \in {"none", "OK", "ERROR"})'
    BY <1>1, <1>3, <1>7, <1>11, <1>13 DEF TypeInv
  <2>3. (/\ journalHdr \in Nat /\ journalOff \in Nat /\ nRec \in Nat
         /\ journalHdr <= journalOff /\ journalOff <= MaxJournal)'
    BY <1>4, <1>10, <2>1
  <2> QED  BY <2>2, <2>3 DEF TypeInv
<1>16. PICK h, n, rest : h = journalHdr /\ n = count /\ rest = CommitRest'
  OBVIOUS
<1>17. IsList(a) /\ a = IF MustJournal(1) THEN <<WriteJ(journalOff, Record(1, image[1], txs))>> ELSE << >>
  BY <1>5, ListFacts DEF When
<1>18. calls' = a \o Checks(h, n, rest)'
  <2>1. PICK w : w = WriteD(Pagelist(dirty', image'), TRUE)
    OBVIOUS
  <2>2. a \o SyncLast(n, h, end) \o <<w>> \o SyncDb(EndTransaction) \o <<Unlock("OK")>>
          = a \o Cons(CheckJ(end), Syncs(h, n, Cons(w, Cons(SyncD, Finalize(Unlock("OK"))))))
    BY <1>1, <1>17, CommitCalls
  <2>3. Finalize(Unlock("OK"))' = Finalize(Unlock("OK"))
    BY DEF Finalize, Ending, FirstEnd, LastEnd
  <2>4. rest = Cons(w, Cons(SyncD, Finalize(Unlock("OK"))))
    BY <1>16, <2>1, <2>3, Zenon DEF CommitRest, Commits
  <2>5. Syncs(h, n, rest)' = Syncs(h, n, rest)
    BY DEF Syncs, fullSync
  <2>6. Checks(h, n, rest)' = Cons(CheckJ(end), Syncs(h, n, rest))
    BY <1>4, <2>5, Zenon DEF Checks
  <2> QED  BY <1>6, <1>16, <2>1, <2>2, <2>4, <2>6, Zenon
<1>19. IsList(Checks(h, n, rest)')
  <2>1. PICK w, f : w = WriteD(Pagelist(dirty', image'), TRUE) /\ f = Cons(SyncD, Finalize(Unlock("OK"))')
    OBVIOUS
  <2>2. IsList(f)
    <3>1. Finalize(Unlock("OK"))' = Finalize(Unlock("OK"))
      BY DEF Finalize, Ending, FirstEnd, LastEnd
    <3> QED  BY <2>1, <3>1, FinalizeList, Zenon
  <2>3. rest = Cons(w, f)
    BY <1>16, <2>1, Zenon DEF CommitRest, Commits
  <2>4. IsList(rest)
    BY <2>2, <2>3, ConsFacts
  <2>5. IsList(Magics(h, n, rest))
    BY <2>4, ConsFacts DEF Magics
  <2>6. IsList(Syncs(h, n, rest)')
    BY <2>5, ConsFacts DEF Syncs
  <2> QED  BY <2>6, ConsFacts DEF Checks
<1>20. Purpose(rest)' /\ (rest \in {CommitRest} \cup {SpillRest(q) : q \in 1..Len(image)})'
  BY <1>3, <1>14, <1>16 DEF Purpose
<1>21. h \in 0..journalHdr' /\ n \in 0..journalHdr' /\ h + Sector * (n + 1) = journalHdr'
  <2>1. CASE MustJournal(1)
    BY <1>2, <1>4, <1>10, <1>16, <2>1 DEF Sector
  <2>2. CASE ~MustJournal(1)
    BY <1>2, <1>4, <1>10, <1>16, <2>2 DEF Sector
  <2> QED  BY <2>1, <2>2
<1>22. Unsealed(j_data', before', txs', h, nRec, pInJournal) /\ SafeNow(h)'
  BY <1>1, <1>3, <1>7, <1>16 DEF SafeNow
<1>23. SyncingInv'
  <2>1. CASE MustJournal(1)
    <3>1. (calls = Cons(OrigRecord(journalHdr - Sector, 1), Checks(h, n, rest)))'
      <4>1. PICK t : t = Checks(h, n, rest)'
        OBVIOUS
      <4>2. a = <<WriteJ(journalOff, Record(1, image[1], txs))>>
        BY <1>17, <2>1
      <4>3. a \o t = Cons(WriteJ(journalOff, Record(1, image[1], txs)), t)
        BY <1>19, <4>1, <4>2, ConcatFacts
      <4>4. journalHdr' - Sector = journalOff /\ image[1] = before[1]
        BY <1>1, <1>2, <1>4, <1>10, <1>12, <2>1 DEF CacheInv, Sector
      <4>5. OrigRecord(journalHdr - Sector, 1)' = WriteJ(journalOff, Record(1, image[1], txs))
        BY <1>3, <4>4 DEF OrigRecord
      <4> QED  BY <1>18, <4>1, <4>3, <4>5, Zenon
    <3>2. PICK pages : pages = pInJournal
      OBVIOUS
    <3>3. pages = pInJournal' \ {1} /\ 1 \in pInJournal' /\ pInJournal' = pages \cup {1}
      BY <1>3, <1>12, <2>1, <3>2
    <3>4. n > 0 /\ n - 1 = nRec
      BY <1>2, <1>10, <1>16, <2>1
    <3>5. UnsealedAt(h, n - 1, pages)'
      BY <1>22, <3>2, <3>4 DEF UnsealedAt
    <3>6. (\E pg \in {pInJournal} \cup {pInJournal \ {q} : q \in pInJournal} :
             UnsealedAt(h, n - 1, pg) /\ pInJournal = pg \cup {1})'
      BY <3>3, <3>5
    <3>7. 1 \in 1..dbOrigSize'
      BY <1>3, <1>12, <2>1
    <3> QED  BY <1>3, <1>9, <1>20, <1>21, <3>1, <3>4, <3>6, <3>7 DEF SyncingInv, SyncStage, Rests
  <2>2. CASE ~MustJournal(1)
    <3>1. (calls = Checks(h, n, rest))'
      <4>1. PICK t : t = Checks(h, n, rest)'
        OBVIOUS
      <4>2. a = << >>
        BY <1>17, <2>2
      <4>3. a \o t = t
        BY <1>19, <4>1, <4>2, ConcatFacts
      <4> QED  BY <1>18, <4>1, <4>3, Zenon
    <3>2. n = nRec /\ pInJournal' = pInJournal
      BY <1>2, <1>3, <1>12, <1>16, <2>2
    <3>3. UnsealedAt(h, n, pInJournal)'
      BY <1>22, <3>2 DEF UnsealedAt
    <3> QED  BY <1>3, <1>9, <1>20, <1>21, <3>1, <3>3 DEF SyncingInv, SyncStage, Rests
  <2> QED  BY <2>1, <2>2
<1>24. Refined
  BY <1>1, <1>7, <1>8, <1>13, WriteRefined
<1> QED  BY <1>7, <1>15, <1>23, <1>24 DEF Inv, Phase

-----------------------------------------------------------------------------
(* syncJournal.                                                            *)

\* A call on the journal that may store it.
LEMMA JournalStored ==
    ASSUME Inv, Recovers, UNCHANGED pragma, NEW s, JournalStep(s),
           JournalHandle', Files(recovered, Cells, DbSize, StoredJournal')
    PROVE  recovered' = recovered /\ TypeInv' /\ HandlesInv' /\ FilesInv'
<1>1. UNCHANGED D_vars /\ PagerUnchanged
  BY DEF JournalStep
<1>2. Cells' = Cells /\ DbSize' = DbSize /\ DbHandle'
  BY <1>1, DbSame DEF Inv, HandlesInv
<1>3. recovered' = recovered /\ FilesInv'
  <2>1. recovered \in Seq(Nat) /\ Len(recovered) <= MaxPages /\ DbSize' \in Nat /\ StoredJournal' \in Seq(Nat)
    BY <1>2 DEF Inv, TypeInv, DbHandle, JournalHandle
  <2>2. Files(recovered, Cells', DbSize', StoredJournal')
    BY <1>2
  <2> QED  BY <2>1, <2>2, Recovered
<1>4. UNCHANGED <<image, before, jrnl, txs, reply, pragma>>
  BY <1>1 DEF PagerUnchanged, cache
<1>5. TypeInv'
  <2>1. recovered' \in Seq(Nat) /\ Len(recovered') <= MaxPages /\ TypeInv
    BY <1>3 DEF Inv, TypeInv
  <2> QED  BY <1>4, <2>1, TypesKept
<1> QED  BY <1>2, <1>3, <1>5 DEF HandlesInv

\* What follows a syncJournal are lists of calls.
LEMMA PurposeLists ==
    IsList(CommitRest) /\ \A p : IsList(SpillRest(p))
<1>1. IsList(CommitRest)
  <2>1. PICK w, f : w = WriteD(Pagelist(dirty, image), TRUE) /\ f = Cons(SyncD, Finalize(Unlock("OK")))
    OBVIOUS
  <2>2. IsList(f)
    BY <2>1, FinalizeList, Zenon
  <2>3. CommitRest = Cons(w, f)
    BY <2>1, Zenon DEF CommitRest, Commits
  <2> QED  BY <2>2, <2>3, ConsFacts
<1>2. ASSUME NEW p PROVE IsList(SpillRest(p))
  <2>1. PICK w, a : w = WriteD(Pagelist({p}, image), FALSE) /\ a = WriteJ(journalHdr, Header(dbOrigSize))
    OBVIOUS
  <2>2. SpillRest(p) = Cons(a, <<w>>)
    BY <2>1, Zenon DEF SpillRest
  <2>3. IsList(<<w>>)
    BY ListFacts
  <2> QED  BY <2>2, <2>3, ConsFacts
<1> QED  BY <1>1, <1>2

\* What follows a syncJournal is a list of calls.
LEMMA RestsAreLists ==
    ASSUME NEW rest, rest \in Rests
    PROVE  IsList(rest)
BY PurposeLists DEF Rests

\* The stages of syncJournal are lists of calls.
LEMMA SyncLists ==
    ASSUME NEW rest, IsList(rest), NEW h, NEW n
    PROVE  IsList(Magics(h, n, rest)) /\ IsList(Syncs(h, n, rest)) /\ IsList(Checks(h, n, rest))
           /\ IsList(Cons(SyncJ, rest))
<1>1. IsList(Cons(SyncJ, rest))
  BY ConsFacts
<1>2. IsList(Magics(h, n, rest))
  BY <1>1, ConsFacts DEF Magics
<1>3. IsList(Syncs(h, n, rest))
  BY <1>2, ConsFacts DEF Syncs
<1> QED  BY <1>1, <1>2, <1>3, ConsFacts DEF Checks

\* A call of syncJournal leaves what the syncJournal is for.
LEMMA PurposeSame ==
    ASSUME PagerUnchanged, UNCHANGED D_vars, UNCHANGED pragma, recovered' = recovered
    PROVE  /\ Rests' = Rests
           /\ \A rest : Purpose(rest) => Purpose(rest)'
           /\ \A rest, h, n : /\ Checks(h, n, rest)' = Checks(h, n, rest)
                              /\ Syncs(h, n, rest)' = Syncs(h, n, rest)
                              /\ Magics(h, n, rest)' = Magics(h, n, rest)
<1>1. /\ dbOrigSize' = dbOrigSize /\ txs' = txs /\ before' = before /\ image' = image
      /\ nRec' = nRec /\ pInJournal' = pInJournal /\ dirty' = dirty
      /\ journalHdr' = journalHdr /\ journalOff' = journalOff
      /\ \A pages : CacheInv(pages)' <=> CacheInv(pages)
  BY PagerSame
<1>2. fullSync' = fullSync /\ noSync' = noSync
  BY DEF fullSync, noSync
<1>3. Finalize(Unlock("OK"))' = Finalize(Unlock("OK"))
  BY DEF Finalize, Ending, FirstEnd, LastEnd
<1>4. CommitRest' = CommitRest
  <2>1. Pagelist(dirty, image)' = Pagelist(dirty, image)
    BY <1>1 DEF Pagelist
  <2> QED  BY <1>3, <2>1, Zenon DEF CommitRest, Commits
<1>5. \A p : SpillRest(p)' = SpillRest(p)
  <2>1. \A p : Pagelist({p}, image)' = Pagelist({p}, image)
    BY <1>1 DEF Pagelist
  <2>2. Header(dbOrigSize)' = Header(dbOrigSize)
    BY <1>1, <1>2 DEF Header
  <2> QED  BY <1>1, <2>1, <2>2, Zenon DEF SpillRest
<1>6. Rests' = Rests
  BY <1>1, <1>4, <1>5 DEF Rests
<1>7. ASSUME NEW rest, Purpose(rest) PROVE Purpose(rest)'
  <2>1. CASE rest = CommitRest /\ CacheInv({}) /\ 1 \in dirty
    BY <1>1, <1>4, <2>1 DEF Purpose
  <2>2. ASSUME NEW p \in 1..Len(image), rest = SpillRest(p) /\ CacheInv({Entry(p)}),
               journalOff = journalHdr + Sector /\ nRec = 0,
               journalHdr + Sector * (MaxPages + 1) <= MaxJournal,
               p \in pInJournal \/ p > dbOrigSize
        PROVE  Purpose(rest)'
    <3>1. PICK e : e = Entry(p)
      OBVIOUS
    <3>2. CacheInv({e})'
      BY <1>1, <2>2, <3>1
    <3>3. Entry(p)' = e
      BY <1>1, <3>1 DEF Entry
    <3>4. CacheInv({Entry(p)})'
      BY <3>2, <3>3
    <3>5. p \in 1..Len(image') /\ rest = SpillRest(p)'
      BY <1>1, <1>5, <2>2
    <3> QED  BY <1>1, <2>2, <3>4, <3>5 DEF Purpose
  <2> QED  BY <1>7, <2>1, <2>2 DEF Purpose
<1>8. ASSUME NEW rest, NEW h, NEW n
      PROVE  /\ Checks(h, n, rest)' = Checks(h, n, rest)
             /\ Syncs(h, n, rest)' = Syncs(h, n, rest)
             /\ Magics(h, n, rest)' = Magics(h, n, rest)
  <2>1. Magics(h, n, rest)' = Magics(h, n, rest)
    BY DEF Magics
  <2>2. Syncs(h, n, rest)' = Syncs(h, n, rest)
    BY <1>2, <2>1 DEF Syncs
  <2> QED  BY <1>1, <2>1, <2>2 DEF Checks
<1> QED  BY <1>6, <1>7, <1>8

\* The types of what syncJournal works on.
LEMMA SyncingContext ==
    ASSUME Modes, Inv, TxModified
    PROVE  /\ TxInv /\ TypeInv /\ JournalHandle /\ HandlesInv /\ image \in Seq(Nat) /\ eState \in Writing
           /\ before \in Seq(Nat) /\ before = recovered /\ Len(before) <= MaxPages
           /\ txs \in Nat \ {0} /\ j_data \in Seq(Nat) /\ StoredJournal \in Seq(Nat)
           /\ journalHdr \in Nat /\ journalHdr <= MaxJournal /\ dbOrigSize = Len(before)
           /\ MaxPages \in Nat /\ MaxJournal \in Nat /\ ~noSync /\ pragma \in Pragmas
           /\ recovered \in Seq(Nat) /\ j_open /\ DbSize \in Nat
<1>1. TypeInv /\ HandlesInv /\ DbHandle /\ JournalHandle /\ TxInv /\ eState = "WRITER_DBMOD" /\ j_open
  BY DEF Inv, HandlesInv, TxModified
<1>2. journalHdr \in Nat /\ journalHdr <= MaxJournal /\ MaxPages \in Nat /\ MaxJournal \in Nat
  BY <1>1, BoundsAssumption DEF TypeInv
<1>3. ~noSync /\ pragma \in Pragmas
  BY <1>1, ModeFacts DEF TypeInv
<1> QED  BY <1>1, <1>2, <1>3 DEF TypeInv, TxInv, JournalHandle, DbHandle, Writing

\* A call of syncJournal leaves the pager where it was.
LEMMA SyncingNext ==
    ASSUME Modes, Inv, TxModified, need_sync = {}, NEW rest \in Rests, Purpose(rest),
           UNCHANGED pragma, NEW s, JournalStep(s), recovered' = recovered,
           TypeInv', j_open', ~Now("unlock")
    PROVE  /\ TxModified' /\ need_sync' = {} /\ (rest \in Rests)' /\ Purpose(rest)' /\ calls' = s
           /\ PagerUnchanged /\ UNCHANGED D_vars
           /\ dbOrigSize' = dbOrigSize /\ txs' = txs /\ before' = before
           /\ nRec' = nRec /\ pInJournal' = pInJournal
           /\ journalHdr' = journalHdr /\ db_size' = db_size
           /\ Cells' = Cells /\ DbSize' = DbSize
           /\ Refined
<1>1. calls' = s /\ PagerUnchanged /\ UNCHANGED D_vars
  BY DEF JournalStep
<1>2. /\ TxInv' /\ eState' = eState /\ need_sync' = need_sync
      /\ dbOrigSize' = dbOrigSize /\ txs' = txs /\ before' = before
      /\ nRec' = nRec /\ pInJournal' = pInJournal
      /\ journalHdr' = journalHdr /\ db_size' = db_size
      /\ Cells' = Cells /\ DbSize' = DbSize
  BY <1>1, PagerSame DEF TxModified
<1>3. TxModified'
  BY <1>2 DEF TxModified
<1>4. Rests' = Rests /\ Purpose(rest)'
  BY <1>1, PurposeSame
<1>5. Refined
  <2>1. image \in Seq(Nat) /\ eState \in Writing
    BY SyncingContext
  <2>2. (image \in Seq(Nat))'
    BY DEF TypeInv
  <2> QED  BY <2>1, <2>2, StaysTx
<1> QED  BY <1>1, <1>2, <1>3, <1>4, <1>5

\* The process is killed in a sync of the journal.
LEMMA KilledSyncing ==
    ASSUME Modes, Inv, TxModified, Kill, UNCHANGED pragma, Recovers, Now("sync_journal"),
           NEW h \in Nat, SafeNow(h), h <= Len(j_data), Begun(j_data, before, txs), Chained(j_data, h)
    PROVE  Inv' /\ Refined
<1>1. /\ TxInv /\ TypeInv /\ JournalHandle /\ HandlesInv
      /\ before \in Seq(Nat) /\ before = recovered /\ Len(before) <= MaxPages
      /\ txs \in Nat \ {0} /\ j_data \in Seq(Nat) /\ StoredJournal \in Seq(Nat) /\ DbSize \in Nat
      /\ TornStores \subseteq {"journal"}
  BY SyncingContext DEF Modes
<1>2. Head(calls).op = "sync_journal" /\ ~Now("write_db") /\ ~Now("delete_journal")
  BY DEF Now
<1>3. Len(j_data) >= 3 /\ j_data # << >>
  <2>1. Len(j_data) >= 3
    BY DEF Begun, Sector
  <2> QED  BY <1>1, <2>1
<1>4. /\ PagerLost /\ DbSize' = DbSize
      /\ StoredJournal' \in Seq(Nat) /\ j_key' \in Nat \cup {NoFile}
      /\ \/ Cells' = Cells /\ StoredJournal' = StoredJournal
         \/ /\ Cells' = Cells /\ Remains(j_data, StoredJournal')
            /\ ~Dead(StoredJournal) => StoredJournal' = Padded(j_data, Len(StoredJournal))
  BY <1>1, <1>2, <1>3, KillFiles
<1>5. Safe(before, Cells, DbSize, StoredJournal, j_data, h)
  BY DEF SafeNow
<1>6. Files(before, Cells', DbSize', StoredJournal')
  <2>1. CASE Cells' = Cells /\ StoredJournal' = StoredJournal
    BY <1>1, <1>4, <2>1 DEF Inv, FilesInv
  <2>2. CASE h = 0 /\ Cells' = Cells /\ Remains(j_data, StoredJournal')
    <3>1. Safe(before, Cells, DbSize, StoredJournal, j_data, 0)
      BY <1>5, <2>2
    <3>2. Files(before, Cells, DbSize, StoredJournal')
      BY <1>1, <2>2, <3>1, SafeRemains
    <3> QED  BY <1>4, <2>2, <3>2
  <2>3. CASE /\ h # 0 /\ Cells' = Cells
             /\ ~Dead(StoredJournal) => StoredJournal' = Padded(j_data, Len(StoredJournal))
    <3>1. Hot(before, Cells, DbSize, StoredJournal)
      BY <1>1, <1>5, <2>3, SafeHot
    <3>2. ~Dead(StoredJournal)
      BY <1>1, <3>1, ValidFacts DEF Hot
    <3>3. PICK size \in Nat : size = Len(StoredJournal)
      BY <1>1
    <3>4. StoredJournal' = Padded(j_data, size)
      BY <2>3, <3>2, <3>3
    <3>5. Safe(before, Cells, DbSize, StoredJournal', j_data, h)
      BY <1>1, <1>5, <2>3, <3>3, <3>4, SafeResized
    <3>6. Hot(before, Cells, DbSize, StoredJournal')
      BY <1>1, <1>4, <2>3, <3>5, SafeHot
    <3> QED  BY <1>4, <2>3, <3>6 DEF Files
  <2> QED  BY <1>4, <2>1, <2>2, <2>3
<1>7. Inv' /\ recovered' = before /\ Tx' = NoTx
  BY <1>1, <1>4, <1>6, Dies
<1> QED  BY <1>1, <1>7, KeepsRecovered

\* pagerAddPageToRollbackJournal for page 1, in a COMMIT.
LEMMA SyncRecord ==
    ASSUME Modes, Inv, TxModified, need_sync = {}, NEW rest, rest \in Rests, Purpose(rest),
           NEW h \in Nat, NEW n \in Nat, h + Sector * (n + 1) = journalHdr, n > 0, 1 \in 1..dbOrigSize,
           calls = Cons(OrigRecord(journalHdr - Sector, 1), Checks(h, n, rest)),
           NEW pages, UnsealedAt(h, n - 1, pages), pInJournal = pages \cup {1}, Next
    PROVE  Inv' /\ Refined
<1>1. IsList(Checks(h, n, rest))
  BY PurposeLists, RestsAreLists, SyncLists
<1>2. /\ calls # << >> /\ Head(calls) = OrigRecord(journalHdr - Sector, 1)
      /\ (Call \/ Kill) /\ UNCHANGED pragma /\ Recovers
  BY <1>1, ConsFacts, OnlyCall
<1>3. /\ OrigRecord(journalHdr - Sector, 1).op = "write_journal"
      /\ OrigRecord(journalHdr - Sector, 1).at = journalHdr - Sector
      /\ OrigRecord(journalHdr - Sector, 1).data = Record(1, before[1], txs)
  BY OpFacts DEF OrigRecord
<1>4. ~Now("write_db") /\ ~Now("delete_journal") /\ ~Now("sync_journal") /\ ~Now("unlock")
  BY <1>2, <1>3 DEF Now
<1>5. CASE Kill
  BY <1>2, <1>4, <1>5, DiesUntouched
<1>6. CASE Call
  <2>1. J!WriteJournal(Record(1, before[1], txs), journalHdr - Sector) /\ JournalStep(Checks(h, n, rest))
    BY <1>1, <1>3, <1>6, CallIs
  <2>2. /\ TxInv /\ TypeInv /\ JournalHandle /\ before \in Seq(Nat) /\ before = recovered
        /\ txs \in Nat \ {0} /\ j_data \in Seq(Nat) /\ journalHdr \in Nat /\ dbOrigSize = Len(before)
    BY SyncingContext
  <2>3. PICK m \in Nat : m = n - 1 /\ n = m + 1
    OBVIOUS
  <2>4. PICK at \in Nat : at = journalHdr - Sector /\ at = h + 3 * (m + 1)
    BY <2>2, <2>3 DEF Sector
  <2>5. J!WriteJournal(Record(1, before[1], txs), at) /\ UnsealedAt(h, m, pages)
    BY <2>1, <2>3, <2>4
  <2>6. StoredJournal' = StoredJournal /\ JournalHandle' /\ j_open'
    <3>1. Unsealed(j_data, before, txs, h, m, pages)
      BY <2>5 DEF UnsealedAt
    <3>2. at <= Len(j_data)
      BY <2>2, <2>4, <3>1, UnsealedFacts
    <3>3. J!WriteJournal(<<1, before[1], txs>>, at)
      BY <2>5, Zenon DEF Record
    <3>4. before[1] \in Nat
      BY <2>2
    <3> QED  BY <2>2, <3>2, <3>3, <3>4, WritesThree
  <2>7. recovered' = recovered /\ TypeInv' /\ HandlesInv' /\ FilesInv'
    BY <1>2, <2>1, <2>6, JournalCall
  <2>8. /\ TxModified' /\ need_sync' = {} /\ (rest \in Rests)' /\ Purpose(rest)' /\ calls' = Checks(h, n, rest)
        /\ PagerUnchanged /\ UNCHANGED D_vars
        /\ pInJournal' = pInJournal /\ journalHdr' = journalHdr /\ Refined
    BY <1>2, <1>4, <2>1, <2>6, <2>7, SyncingNext
  <2>9. UnsealedAt(h, m + 1, pages \cup {1})'
    BY <1>2, <2>2, <2>4, <2>5, <2>7, <2>8, Journals
  <2>10. UnsealedAt(h, n, pInJournal)'
    BY <2>3, <2>8, <2>9
  <2>11. (calls = Checks(h, n, rest))'
    BY <1>2, <2>7, <2>8, PurposeSame
  <2>12. SyncStage(h, n, rest)'
    BY <2>8, <2>10, <2>11 DEF SyncStage
  <2>13. SyncingInv'
    <3>1. h \in 0..journalHdr' /\ n \in 0..journalHdr'
      BY <2>2, <2>8 DEF Sector
    <3> QED  BY <2>8, <2>12, <3>1 DEF SyncingInv
  <2> QED  BY <2>7, <2>8, <2>13 DEF Inv, Phase
<1> QED  BY <1>2, <1>5, <1>6

\* A stale header behind the records, and the first sync.
LEMMA SyncCheck ==
    ASSUME Modes, Inv, TxModified, need_sync = {}, NEW rest, rest \in Rests, Purpose(rest),
           NEW h \in Nat, NEW n \in Nat, h + Sector * (n + 1) = journalHdr,
           calls = Checks(h, n, rest), UnsealedAt(h, n, pInJournal), Next
    PROVE  Inv' /\ Refined
<1>1. IsList(Syncs(h, n, rest)) /\ calls = Cons(CheckJ(journalHdr), Syncs(h, n, rest))
  BY RestsAreLists, SyncLists DEF Checks
<1>2. /\ calls # << >> /\ Head(calls) = CheckJ(journalHdr)
      /\ (Call \/ Kill) /\ UNCHANGED pragma /\ Recovers
  BY <1>1, ConsFacts, OnlyCall
<1>3. CheckJ(journalHdr).op = "check_next_header" /\ CheckJ(journalHdr).at = journalHdr
  BY OpFacts
<1>4. ~Now("write_db") /\ ~Now("delete_journal") /\ ~Now("sync_journal") /\ ~Now("unlock")
  BY <1>2, <1>3 DEF Now
<1>5. CASE Kill
  BY <1>2, <1>4, <1>5, DiesUntouched
<1>6. CASE Call
  <2>1. /\ JournalStep(Syncs(h, n, rest))
        /\ IF StaleHeader(journalHdr) THEN J!WriteJournal(<<0>>, journalHdr) ELSE UNCHANGED J_vars
    BY <1>1, <1>3, <1>6, CallIs
  <2>2. /\ TxInv /\ TypeInv /\ JournalHandle /\ before \in Seq(Nat) /\ before = recovered /\ j_open
        /\ txs \in Nat \ {0} /\ j_data \in Seq(Nat) /\ journalHdr \in Nat /\ dbOrigSize = Len(before)
    BY SyncingContext
  <2>3. PICK end \in Nat : end = journalHdr /\ end = h + 3 * (n + 1)
    BY <2>2 DEF Sector
  <2>4. Unsealed(j_data, before, txs, h, n, pInJournal) /\ SafeNow(h) /\ Chained(j_data, h)
    BY DEF UnsealedAt, Unsealed
  <2>5. h < end /\ end <= Len(j_data)
    BY <2>2, <2>3, <2>4, UnsealedFacts
  <2>6. /\ Unsealed(j_data', before, txs, h, n, pInJournal) /\ JournalHandle' /\ j_open'
        /\ StoredJournal' = StoredJournal
        /\ j_data' \in Seq(Nat) /\ h <= Len(j_data') /\ \A i \in 1..h : j_data'[i] = j_data[i]
    <3>1. CASE StaleHeader(journalHdr)
      <4>1. end < Len(j_data) /\ J!WriteJournal(<<0>>, end)
        BY <2>1, <2>3, <3>1 DEF StaleHeader
      <4>2. /\ PutOne(j_data', j_data, 0, end) /\ j_open' /\ StoredJournal' = StoredJournal
            /\ JournalHandle'
        BY <2>2, <2>3, <4>1, WritesOne
      <4>3. Unsealed(j_data', before, txs, h, n, pInJournal)
        BY <2>2, <2>3, <2>4, <4>1, <4>2, ZeroNextHeader
      <4>4. end \in 0 .. Len(j_data) - 1
        BY <2>2, <2>3, <4>1
      <4>5. end <= Len(j_data') /\ \A i \in 1..end : j_data'[i] = j_data[i]
        BY <2>2, <4>2, <4>4, PutOneBefore
      <4>6. j_data' \in Seq(Nat)
        BY <4>2 DEF PutOne
      <4>7. 1..h \subseteq 1..end /\ h <= Len(j_data')
        BY <2>3, <2>5, <4>5, <4>6, Shorter
      <4> QED  BY <4>2, <4>3, <4>5, <4>6, <4>7
    <3>2. CASE ~StaleHeader(journalHdr)
      <4>1. UNCHANGED J_vars
        BY <2>1, <3>2
      <4>2. j_data' = j_data /\ j_open' = j_open /\ StoredJournal' = StoredJournal /\ JournalHandle'
        BY <2>2, <4>1, JournalSame
      <4>3. h <= Len(j_data)
        BY <2>3, <2>2, <2>5
      <4> QED  BY <2>2, <2>4, <4>2, <4>3
    <3> QED  BY <3>1, <3>2
  <2>7. recovered' = recovered /\ TypeInv' /\ HandlesInv' /\ FilesInv'
    BY <1>2, <2>1, <2>6, JournalCall
  <2>8. /\ TxModified' /\ need_sync' = {} /\ (rest \in Rests)' /\ Purpose(rest)' /\ calls' = Syncs(h, n, rest)
        /\ PagerUnchanged /\ UNCHANGED D_vars /\ txs' = txs /\ before' = before
        /\ Cells' = Cells /\ DbSize' = DbSize /\ db_size' = db_size
        /\ pInJournal' = pInJournal /\ journalHdr' = journalHdr /\ Refined
    BY <1>2, <1>4, <2>1, <2>6, <2>7, SyncingNext
  <2>9. SafeNow(h)'
    <3>1. Safe(before, Cells, DbSize, StoredJournal, j_data', h)
      BY <2>2, <2>4, <2>6, SafeKept DEF SafeNow
    <3> QED  BY <2>4, <2>6, <2>8, <3>1 DEF SafeNow
  <2>10. UnsealedAt(h, n, pInJournal)'
    BY <2>6, <2>8, <2>9 DEF UnsealedAt
  <2>11. (calls = Syncs(h, n, rest))'
    BY <1>2, <2>7, <2>8, PurposeSame
  <2>12. SyncStage(h, n, rest)'
    BY <2>8, <2>10, <2>11 DEF SyncStage
  <2>13. SyncingInv'
    <3>1. h \in 0..journalHdr' /\ n \in 0..journalHdr'
      BY <2>2, <2>8 DEF Sector
    <3> QED  BY <2>8, <2>12, <3>1 DEF SyncingInv
  <2> QED  BY <2>7, <2>8, <2>13 DEF Inv, Phase
<1> QED  BY <1>2, <1>5, <1>6

\* The xSync before the record count, with synchronous=FULL.
LEMMA SyncFirst ==
    ASSUME Modes, Inv, TxModified, need_sync = {}, NEW rest, rest \in Rests, Purpose(rest),
           NEW h \in Nat, NEW n \in Nat, h + Sector * (n + 1) = journalHdr,
           calls = Cons(SyncJ, Magics(h, n, rest)), UnsealedAt(h, n, pInJournal), Next
    PROVE  Inv' /\ Refined
<1>1. IsList(Magics(h, n, rest))
  BY RestsAreLists, SyncLists
<1>2. /\ calls # << >> /\ Head(calls) = SyncJ
      /\ (Call \/ Kill) /\ UNCHANGED pragma /\ Recovers
  BY <1>1, ConsFacts, OnlyCall
<1>3. SyncJ.op = "sync_journal"
  BY OpFacts
<1>4. Now("sync_journal") /\ ~Now("unlock")
  BY <1>2, <1>3 DEF Now
<1>5. /\ TxInv /\ TypeInv /\ JournalHandle /\ before \in Seq(Nat) /\ before = recovered /\ j_open
      /\ Len(before) <= MaxPages /\ StoredJournal \in Seq(Nat) /\ DbSize \in Nat
      /\ txs \in Nat \ {0} /\ j_data \in Seq(Nat) /\ journalHdr \in Nat /\ dbOrigSize = Len(before)
  BY SyncingContext
<1>6. /\ Unsealed(j_data, before, txs, h, n, pInJournal) /\ SafeNow(h)
      /\ Chained(j_data, h) /\ Begun(j_data, before, txs)
  BY DEF UnsealedAt, Unsealed
<1>7. h <= Len(j_data)
  BY <1>6 DEF Chained
<1>8. CASE Kill
  BY <1>2, <1>4, <1>6, <1>7, <1>8, KilledSyncing
<1>9. CASE Call
  <2>1. J!Sync /\ JournalStep(Magics(h, n, rest))
    BY <1>1, <1>3, <1>9, CallIs
  <2>2. j_data # << >>
    <3>1. Len(j_data) >= 3
      BY <1>6 DEF Begun, Sector
    <3> QED  BY <1>5, <3>1
  <2>3. j_open' /\ j_data' = j_data /\ JournalHandle' /\ StoredJournal' = j_data
    BY <1>5, <2>1, <2>2, JournalSync
  <2>4. Safe(before, Cells, DbSize, j_data, j_data, h)
    BY <1>5, <1>6, SafeStored DEF SafeNow
  <2>5. Files(recovered, Cells, DbSize, StoredJournal')
    <3>1. CASE h = 0
      <4>1. Safe(before, Cells, DbSize, j_data, j_data, 0)
        BY <2>4, <3>1
      <4>2. Clean(before, Cells, DbSize, j_data)
        BY <1>5, <4>1, SafeClean
      <4> QED  BY <1>5, <2>3, <4>2 DEF Files
    <3>2. CASE h # 0
      <4>1. Hot(before, Cells, DbSize, j_data)
        BY <1>5, <1>6, <2>4, <3>2, SafeHot
      <4> QED  BY <1>5, <2>3, <4>1 DEF Files
    <3> QED  BY <3>1, <3>2
  <2>6. recovered' = recovered /\ TypeInv' /\ HandlesInv' /\ FilesInv'
    BY <1>2, <2>1, <2>3, <2>5, JournalStored
  <2>7. /\ TxModified' /\ need_sync' = {} /\ (rest \in Rests)' /\ Purpose(rest)' /\ calls' = Magics(h, n, rest)
        /\ PagerUnchanged /\ UNCHANGED D_vars /\ txs' = txs /\ before' = before
        /\ Cells' = Cells /\ DbSize' = DbSize /\ db_size' = db_size
        /\ pInJournal' = pInJournal /\ journalHdr' = journalHdr /\ Refined
    BY <1>2, <1>4, <2>1, <2>3, <2>6, SyncingNext
  <2>8. UnsealedAt(h, n, pInJournal)'
    <3>1. SafeNow(h)'
      BY <1>6, <2>3, <2>4, <2>7 DEF SafeNow
    <3> QED  BY <1>6, <2>3, <2>7, <3>1 DEF UnsealedAt
  <2>9. (calls = Magics(h, n, rest))'
    BY <1>2, <2>6, <2>7, PurposeSame
  <2>10. SyncStage(h, n, rest)'
    BY <2>7, <2>8, <2>9 DEF SyncStage
  <2>11. SyncingInv'
    <3>1. h \in 0..journalHdr' /\ n \in 0..journalHdr'
      BY <1>5, <2>7 DEF Sector
    <3> QED  BY <2>7, <2>10, <3>1 DEF SyncingInv
  <2> QED  BY <2>6, <2>7, <2>11 DEF Inv, Phase
<1> QED  BY <1>2, <1>8, <1>9

\* nRec is written into the header.
LEMMA SyncMagic ==
    ASSUME Modes, Inv, TxModified, need_sync = {}, NEW rest, rest \in Rests, Purpose(rest),
           NEW h \in Nat, NEW n \in Nat, h + Sector * (n + 1) = journalHdr,
           calls = Magics(h, n, rest), UnsealedAt(h, n, pInJournal), Next
    PROVE  Inv' /\ Refined
<1>1. IsList(Cons(SyncJ, rest)) /\ calls = Cons(WriteJ(h, <<Magic(n)>>), Cons(SyncJ, rest))
  BY RestsAreLists, SyncLists DEF Magics
<1>2. /\ calls # << >> /\ Head(calls) = WriteJ(h, <<Magic(n)>>)
      /\ (Call \/ Kill) /\ UNCHANGED pragma /\ Recovers
  BY <1>1, ConsFacts, OnlyCall
<1>3. WriteJ(h, <<Magic(n)>>).op = "write_journal" /\ WriteJ(h, <<Magic(n)>>).at = h
      /\ WriteJ(h, <<Magic(n)>>).data = <<Magic(n)>>
  BY OpFacts
<1>4. ~Now("write_db") /\ ~Now("delete_journal") /\ ~Now("sync_journal") /\ ~Now("unlock")
  BY <1>2, <1>3 DEF Now
<1>5. CASE Kill
  BY <1>2, <1>4, <1>5, DiesUntouched
<1>6. CASE Call
  <2>1. J!WriteJournal(<<Magic(n)>>, h) /\ JournalStep(Cons(SyncJ, rest))
    BY <1>1, <1>3, <1>6, CallIs
  <2>2. /\ TxInv /\ TypeInv /\ JournalHandle /\ before \in Seq(Nat) /\ before = recovered /\ j_open
        /\ Len(before) <= MaxPages
        /\ txs \in Nat \ {0} /\ j_data \in Seq(Nat) /\ journalHdr \in Nat /\ dbOrigSize = Len(before)
        /\ journalHdr <= MaxJournal /\ MaxJournal \in Nat /\ MaxPages \in Nat
    BY SyncingContext
  <2>3. PICK end \in Nat : end = journalHdr /\ end = h + 3 * (n + 1)
    BY <2>2 DEF Sector
  <2>4. Unsealed(j_data, before, txs, h, n, pInJournal) /\ SafeNow(h) /\ Chained(j_data, h)
    BY DEF UnsealedAt, Unsealed
  <2>5. h < end /\ end <= Len(j_data)
    BY <2>2, <2>3, <2>4, UnsealedFacts
  <2>6. PICK x \in Nat : x = Magic(n)
    BY <2>2 DEF Magic
  <2>7. h < Len(j_data) /\ h \in 0 .. Len(j_data) - 1
    BY <2>2, <2>3, <2>5
  <2>8. PutOne(j_data', j_data, x, h) /\ j_open' /\ StoredJournal' = StoredJournal /\ JournalHandle'
    <3>1. J!WriteJournal(<<x>>, h)
      BY <2>1, <2>6
    <3> QED  BY <2>2, <2>6, <2>7, <3>1, WritesOne
  <2>9. n # AllRecs
    BY <2>2, <2>3 DEF AllRecs
  <2>10. Sealed(j_data', before, txs, end, pInJournal)
    BY <2>2, <2>3, <2>4, <2>6, <2>8, <2>9, SealHeader
  <2>11. h <= Len(j_data') /\ j_data' \in Seq(Nat) /\ \A i \in 1..h : j_data'[i] = j_data[i]
    BY <2>2, <2>7, <2>8, PutOneBefore DEF PutOne
  <2>12. Chained(j_data', h) /\ Recorded(j_data', h) = Recorded(j_data, h)
    BY <2>2, <2>4, <2>11, ChainedSame
  <2>13. Recorded(j_data', h) \subseteq pInJournal
    BY <2>4, <2>12 DEF Unsealed
  <2>14. recovered' = recovered /\ TypeInv' /\ HandlesInv' /\ FilesInv'
    BY <1>2, <2>1, <2>8, JournalCall
  <2>15. /\ TxModified' /\ need_sync' = {} /\ (rest \in Rests)' /\ Purpose(rest)' /\ calls' = Cons(SyncJ, rest)
         /\ PagerUnchanged /\ UNCHANGED D_vars /\ txs' = txs /\ before' = before
         /\ Cells' = Cells /\ DbSize' = DbSize /\ db_size' = db_size
         /\ pInJournal' = pInJournal /\ journalHdr' = journalHdr /\ Refined
    BY <1>2, <1>4, <2>1, <2>8, <2>14, SyncingNext
  <2>16. SafeNow(h)'
    <3>1. Safe(before, Cells, DbSize, StoredJournal, j_data', h)
      BY <2>2, <2>4, <2>11, SafeKept DEF SafeNow
    <3> QED  BY <2>4, <2>8, <2>15, <3>1 DEF SafeNow
  <2>17. Sealed(j_data', before', txs', journalHdr', pInJournal')
    BY <2>3, <2>10, <2>15
  <2>18. SyncStage(h, n, rest)'
    BY <2>12, <2>13, <2>15, <2>16, <2>17 DEF SyncStage
  <2>19. SyncingInv'
    <3>1. h \in 0..journalHdr' /\ n \in 0..journalHdr'
      BY <2>2, <2>15 DEF Sector
    <3> QED  BY <2>15, <2>18, <3>1 DEF SyncingInv
  <2> QED  BY <2>14, <2>15, <2>19 DEF Inv, Phase
<1> QED  BY <1>2, <1>5, <1>6

\* The xSync after the record count: the journal is sealed.
LEMMA SyncSecond ==
    ASSUME Modes, Inv, TxModified, need_sync = {}, NEW rest, rest \in Rests, Purpose(rest),
           NEW h \in Nat, NEW n \in Nat, h + Sector * (n + 1) = journalHdr,
           calls = Cons(SyncJ, rest),
           Sealed(j_data, before, txs, journalHdr, pInJournal), SafeNow(h),
           Chained(j_data, h), Recorded(j_data, h) \subseteq pInJournal, Next
    PROVE  Inv' /\ Refined
<1>1. IsList(rest)
  BY RestsAreLists
<1>2. /\ calls # << >> /\ Head(calls) = SyncJ
      /\ (Call \/ Kill) /\ UNCHANGED pragma /\ Recovers
  BY <1>1, ConsFacts, OnlyCall
<1>3. SyncJ.op = "sync_journal"
  BY OpFacts
<1>4. Now("sync_journal") /\ ~Now("unlock")
  BY <1>2, <1>3 DEF Now
<1>5. /\ TxInv /\ TypeInv /\ JournalHandle /\ before \in Seq(Nat) /\ before = recovered /\ j_open
      /\ Len(before) <= MaxPages /\ StoredJournal \in Seq(Nat) /\ DbSize \in Nat
      /\ txs \in Nat \ {0} /\ j_data \in Seq(Nat) /\ journalHdr \in Nat /\ dbOrigSize = Len(before)
  BY SyncingContext
<1>6. Begun(j_data, before, txs) /\ Chained(j_data, journalHdr)
  BY DEF Sealed
<1>7. h <= Len(j_data)
  BY DEF Chained
<1>8. CASE Kill
  BY <1>2, <1>4, <1>6, <1>7, <1>8, KilledSyncing
<1>9. CASE Call
  <2>1. J!Sync /\ JournalStep(rest)
    BY <1>1, <1>3, <1>9, CallIs
  <2>2. j_data # << >>
    <3>1. Len(j_data) >= 3
      BY <1>6 DEF Begun, Sector
    <3> QED  BY <1>5, <3>1
  <2>3. j_open' /\ j_data' = j_data /\ JournalHandle' /\ StoredJournal' = j_data
    BY <1>5, <2>1, <2>2, JournalSync
  <2>4. journalHdr > 0 /\ journalHdr \in Nat \ {0}
    BY <1>5 DEF Sector
  <2>5. Safe(before, Cells, DbSize, j_data, j_data, journalHdr)
    BY <1>5, <2>4, SafeSynced DEF SafeNow
  <2>6. Hot(before, Cells, DbSize, j_data)
    BY <1>5, <1>6, <2>4, <2>5, SafeHot
  <2>7. Files(recovered, Cells, DbSize, StoredJournal')
    BY <1>5, <2>3, <2>6 DEF Files
  <2>8. recovered' = recovered /\ TypeInv' /\ HandlesInv' /\ FilesInv'
    BY <1>2, <2>1, <2>3, <2>7, JournalStored
  <2>9. /\ TxModified' /\ need_sync' = {} /\ (rest \in Rests)' /\ Purpose(rest)' /\ calls' = rest
        /\ PagerUnchanged /\ UNCHANGED D_vars /\ txs' = txs /\ before' = before
        /\ Cells' = Cells /\ DbSize' = DbSize /\ db_size' = db_size
        /\ pInJournal' = pInJournal /\ journalHdr' = journalHdr /\ Refined
    BY <1>2, <1>4, <2>1, <2>3, <2>8, SyncingNext
  <2>10. SafeNow(journalHdr)'
    BY <2>3, <2>4, <2>5, <2>9 DEF SafeNow
  <2>11. Sealed(j_data', before', txs', journalHdr', pInJournal')
    BY <2>3, <2>9
  <2>12. SyncingInv'
    BY <2>4, <2>9, <2>10, <2>11 DEF SyncingInv
  <2> QED  BY <2>8, <2>9, <2>12 DEF Inv, Phase
<1> QED  BY <1>2, <1>8, <1>9

\* A multiple of three that is not zero is three or more.
LEMMA ThreeAtLeast ==
    ASSUME NEW x \in Nat, x > 0, x % 3 = 0
    PROVE  x >= 3
OBVIOUS

\* pagerStress writes a new header.
LEMMA SpillHeader ==
    ASSUME Modes, Inv, TxModified, need_sync = {}, NEW p \in 1..Len(image),
           calls = SpillRest(p), CacheInv({Entry(p)}),
           journalOff = journalHdr + Sector, nRec = 0,
           journalHdr + Sector * (MaxPages + 1) <= MaxJournal,
           p \in pInJournal \/ p > dbOrigSize, journalHdr > 0,
           Sealed(j_data, before, txs, journalHdr, pInJournal), SafeNow(journalHdr), Next
    PROVE  Inv' /\ Refined
<1>0. PICK last : last = <<WriteD(Pagelist({p}, image), FALSE)>>
  OBVIOUS
<1>1. IsList(last) /\ calls = Cons(WriteJ(journalHdr, Header(dbOrigSize)), last)
  <2>1. IsList(last)
    BY <1>0, ListFacts
  <2>2. calls = Cons(WriteJ(journalHdr, Header(dbOrigSize)), last)
    BY <1>0, Zenon DEF SpillRest
  <2> QED  BY <2>1, <2>2
<1>2. /\ calls # << >> /\ Head(calls) = WriteJ(journalHdr, Header(dbOrigSize))
      /\ (Call \/ Kill) /\ UNCHANGED pragma /\ Recovers
  BY <1>1, ConsFacts, OnlyCall
<1>3. /\ WriteJ(journalHdr, Header(dbOrigSize)).op = "write_journal"
      /\ WriteJ(journalHdr, Header(dbOrigSize)).at = journalHdr
      /\ WriteJ(journalHdr, Header(dbOrigSize)).data = Header(dbOrigSize)
  BY OpFacts
<1>4. ~Now("write_db") /\ ~Now("delete_journal") /\ ~Now("sync_journal") /\ ~Now("unlock")
  BY <1>2, <1>3 DEF Now
<1>5. CASE Kill
  BY <1>2, <1>4, <1>5, DiesUntouched
<1>6. CASE Call
  <2>1. J!WriteJournal(Header(dbOrigSize), journalHdr) /\ JournalStep(last)
    BY <1>1, <1>3, <1>6, CallIs
  <2>2. /\ TxInv /\ TypeInv /\ JournalHandle /\ before \in Seq(Nat) /\ before = recovered /\ j_open
        /\ Len(before) <= MaxPages /\ Len(before) \in Nat /\ image \in Seq(Nat) /\ eState \in Writing
        /\ txs \in Nat \ {0} /\ j_data \in Seq(Nat) /\ journalHdr \in Nat /\ dbOrigSize = Len(before)
        /\ journalHdr <= MaxJournal /\ MaxJournal \in Nat /\ MaxPages \in Nat /\ ~noSync
        /\ eState = "WRITER_DBMOD"
    BY SyncingContext DEF TxModified
  <2>3. Chained(j_data, journalHdr) /\ pInJournal = Recorded(j_data, journalHdr)
    BY DEF Sealed
  <2>4. journalHdr <= Len(j_data) /\ journalHdr >= 3
    <3>1. journalHdr <= Len(j_data) /\ journalHdr % 3 = 0
      BY <2>3 DEF Chained, Sector
    <3>2. journalHdr >= 3
      <4>1. PICK x \in Nat : x = journalHdr
        BY <2>2
      <4>2. x > 0 /\ x % 3 = 0
        BY <3>1, <4>1
      <4>3. x >= 3
        BY <4>1, <4>2, ThreeAtLeast
      <4> QED  BY <4>1, <4>3
    <3> QED  BY <3>1, <3>2
  <2>5. PICK end \in Nat : end = journalHdr
    BY <2>2
  <2>6. Header(dbOrigSize) = <<0, Len(before), txs>>
    BY <2>2 DEF Header
  <2>7. /\ PutThree(j_data', j_data, 0, Len(before), txs, end) /\ j_open'
        /\ StoredJournal' = StoredJournal /\ JournalHandle'
    <3>1. J!WriteJournal(<<0, Len(before), txs>>, end)
      BY <2>1, <2>5, <2>6, Zenon
    <3>2. end <= Len(j_data) /\ 0 \in Nat
      BY <2>4, <2>5
    <3> QED  BY <2>2, <3>1, <3>2, WritesThree
  <2>8. Unsealed(j_data', before, txs, end, 0, pInJournal)
    BY <2>2, <2>4, <2>5, <2>7, AppendHeader
  <2>9. end <= Len(j_data') /\ j_data' \in Seq(Nat) /\ \A i \in 1..end : j_data'[i] = j_data[i]
    <3>1. end \in 0 .. Len(j_data)
      BY <2>2, <2>4, <2>5
    <3>2. end <= Len(j_data') /\ \A i \in 1..end : j_data'[i] = j_data[i]
      BY <2>2, <2>7, <3>1, PutThreeBefore
    <3> QED  BY <2>7, <3>2 DEF PutThree
  <2>10. Recorded(j_data', end) = Recorded(j_data, end)
    BY <2>2, <2>3, <2>5, <2>9, ChainedSame
  <2>11. recovered' = recovered /\ TypeInv' /\ HandlesInv' /\ FilesInv'
    BY <1>2, <2>1, <2>7, JournalCall
  <2>12. PagerUnchanged /\ UNCHANGED D_vars /\ calls' = last
    BY <2>1 DEF JournalStep
  <2>13. /\ TxInv' /\ CacheInv({Entry(p)})' /\ eState' = eState
         /\ dbOrigSize' = dbOrigSize /\ txs' = txs /\ before' = before /\ image' = image
         /\ nRec' = nRec /\ pInJournal' = pInJournal /\ need_sync' = need_sync
         /\ journalOff' = journalOff /\ journalHdr' = journalHdr
         /\ db_size' = db_size /\ Cells' = Cells /\ DbSize' = DbSize
    <3>1. /\ TxInv' /\ eState' = eState
          /\ dbOrigSize' = dbOrigSize /\ txs' = txs /\ before' = before /\ image' = image
          /\ nRec' = nRec /\ pInJournal' = pInJournal /\ need_sync' = need_sync
          /\ journalOff' = journalOff /\ journalHdr' = journalHdr
          /\ db_size' = db_size /\ Cells' = Cells /\ DbSize' = DbSize
          /\ \A pages : CacheInv(pages)' <=> CacheInv(pages)
      BY <1>2, <2>2, <2>11, <2>12, PagerSame
    <3>2. PICK e : e = Entry(p)
      OBVIOUS
    <3>3. Entry(p)' = e
      BY <3>1, <3>2 DEF Entry
    <3>4. CacheInv({e})'
      BY <3>1, <3>2
    <3>5. CacheInv({Entry(p)})'
      BY <3>3, <3>4
    <3> QED  BY <3>1, <3>5
  <2>14. Refined
    BY <1>4, <2>2, <2>11, <2>13, StaysTx
  <2>15. UnsealedAt(journalHdr, nRec, pInJournal)'
    <3>1. Safe(before, Cells, DbSize, StoredJournal, j_data', end)
      BY <2>2, <2>3, <2>5, <2>9, SafeKept DEF SafeNow
    <3>2. SafeNow(journalHdr)'
      BY <2>4, <2>5, <2>7, <2>13, <3>1 DEF SafeNow
    <3> QED  BY <2>5, <2>8, <2>13, <3>2 DEF UnsealedAt
  <2>16. Room'
    <3>1. pInJournal \subseteq 1..dbOrigSize
      BY DEF CacheInv
    <3>2. Cardinality(pInJournal) \in Nat
      BY <2>2, <3>1, RoomFor
    <3>3. 0 <= Cardinality(pInJournal)
      BY <3>2
    <3> QED  BY <2>2, <2>13, <3>3 DEF Room, Sector
  <2>17. Unsynced' /\ (p \in Recorded(j_data, journalHdr) \/ p > dbOrigSize)'
    BY <2>3, <2>5, <2>10, <2>13 DEF Unsynced
  <2>18. (calls = <<WriteD(Pagelist({p}, image), FALSE)>>)'
    <3>1. Pagelist({p}, image)' = Pagelist({p}, image)
      BY <2>13 DEF Pagelist
    <3> QED  BY <1>0, <2>12, <3>1, Zenon
  <2>19. SpillingInv'
    <3>1. TxModified'
      BY <2>2, <2>7, <2>13 DEF TxModified
    <3>2. p \in 1..Len(image')
      BY <2>13
    <3>3. journalHdr' > 0
      BY <2>13
    <3> QED  BY <2>13, <2>15, <2>16, <2>17, <2>18, <3>1, <3>2, <3>3 DEF SpillingInv
  <2> QED  BY <2>11, <2>14, <2>19 DEF Inv, Phase
<1> QED  BY <1>2, <1>5, <1>6

\* COMMIT begins to write the pages.
LEMMA CommitsFacts ==
    ASSUME NEW todo
    PROVE  /\ IsList(Commits(todo)) /\ Commits(todo) # << >>
           /\ Head(Commits(todo)).op = "write_db" /\ Head(Commits(todo)).todo = todo
           /\ Head(Commits(todo)).committing
           /\ Tail(Commits(todo)) = Cons(SyncD, Finalize(Unlock("OK")))
<1>1. PICK w, f : w = WriteD(todo, TRUE) /\ f = Cons(SyncD, Finalize(Unlock("OK")))
  OBVIOUS
<1>2. IsList(f)
  BY <1>1, FinalizeList, Zenon
<1>3. Commits(todo) = Cons(w, f)
  BY <1>1, Zenon DEF Commits
<1>4. w.op = "write_db" /\ w.todo = todo /\ w.committing
  BY <1>1 DEF WriteD
<1> QED  BY <1>1, <1>2, <1>3, <1>4, ConsFacts

\* A COMMIT whose journal is synced may write to the database.
LEMMA SyncedCommits ==
    ASSUME Modes, Inv, TxModified, calls = CommitRest, CacheInv({}), 1 \in dirty, journalHdr > 0,
           Sealed(j_data, before, txs, journalHdr, pInJournal), SafeNow(journalHdr)
    PROVE  CommittingInv
<1>1. PICK todo : todo = Pagelist(dirty, image)
  OBVIOUS
<1>2. calls = Commits(todo)
  BY <1>1, Zenon DEF CommitRest
<1>3. Todo = todo
  BY <1>2, CommitsFacts DEF Todo, Now
<1>4. /\ TxInv /\ TypeInv /\ before \in Seq(Nat) /\ before = recovered /\ j_open
      /\ Len(before) <= MaxPages /\ StoredJournal \in Seq(Nat) /\ DbSize \in Nat
      /\ txs \in Nat \ {0} /\ j_data \in Seq(Nat) /\ journalHdr \in Nat /\ dbOrigSize = Len(before)
      /\ eState = "WRITER_DBMOD" /\ image \in Seq(Nat) /\ Len(image) \in Nat
  BY SyncingContext DEF TxModified
<1>5. HotNow
  <2>1. Begun(j_data, before, txs) /\ Chained(j_data, journalHdr)
    BY DEF Sealed
  <2> QED  BY <1>4, <2>1, SafeHot DEF SafeNow, HotNow
<1>6. DOMAIN todo = dirty /\ \A k \in dirty : todo[k] = Entry(k)
  BY <1>1 DEF Pagelist, Entry
<1>7. /\ Len(image) > 0 /\ dbOrigSize <= db_size /\ db_size <= Len(image)
      /\ \A p \in 1..Len(image) : p \notin dirty => Filed({}, p)
      /\ dirty \subseteq 1..Len(image)
      /\ dirty \cap 1..dbOrigSize \subseteq pInJournal
  BY DEF CacheInv
<1>8. PagesInv(todo)
  <2>1. ASSUME NEW p \in 1..Len(image) PROVE Filed(Left(todo), p)
    <3>1. CASE p \in dirty
      BY <1>6, <3>1 DEF Filed, Left
    <3>2. CASE p \notin dirty
      BY <1>7, <3>2 DEF Filed
    <3> QED  BY <3>1, <3>2
  <2> QED  BY <1>7, <2>1 DEF PagesInv
<1>9. DOMAIN todo \subseteq Nat /\ DOMAIN todo # {}
  BY <1>4, <1>6, <1>7
<1>10. todo # << >>
  <2>1. 1 \in DOMAIN todo
    BY <1>6
  <2> QED  BY <2>1
<1>11. ASSUME NEW k \in DOMAIN todo
       PROVE  \E p \in 1..Len(image) : todo[k] = Entry(p) /\ (p \in pInJournal \/ p > dbOrigSize)
  <2>1. k \in dirty
    BY <1>6
  <2>2. k \in 1..Len(image)
    BY <1>7, <2>1
  <2>3. k \in Nat /\ k >= 1 /\ dbOrigSize \in Nat
    BY <1>4, <2>2
  <2>4. k \in pInJournal \/ k > dbOrigSize
    BY <1>7, <2>1, <2>3
  <2>5. todo[k] = Entry(k)
    BY <1>6, <2>1
  <2> QED  BY <2>2, <2>4, <2>5
<1>12. Books
  BY DEF CacheInv, Books
<1> QED  BY <1>2, <1>3, <1>4, <1>5, <1>8, <1>9, <1>10, <1>11, <1>12 DEF CommittingInv

\* Each call of syncJournal.
LEMMA SyncingStep ==
    ASSUME Modes, Inv, SyncingInv, Next, ~CommittingInv
    PROVE  Inv' /\ Refined
<1>1. TxModified /\ need_sync = {}
  BY DEF SyncingInv
<1>2. PICK rest \in Rests :
         /\ Purpose(rest)
         /\ \/ \E h, n \in 0..journalHdr : SyncStage(h, n, rest)
            \/ /\ calls = rest /\ journalHdr > 0
               /\ Sealed(j_data, before, txs, journalHdr, pInJournal) /\ SafeNow(journalHdr)
  BY DEF SyncingInv
<1>3. journalHdr \in Nat
  BY <1>1, SyncingContext
<1>4. ASSUME NEW h \in Nat, NEW n \in Nat, SyncStage(h, n, rest) PROVE Inv' /\ Refined
  <2>0. h + Sector * (n + 1) = journalHdr
    BY <1>4 DEF SyncStage
  <2>1. CASE /\ n > 0 /\ 1 \in 1..dbOrigSize
             /\ calls = Cons(OrigRecord(journalHdr - Sector, 1), Checks(h, n, rest))
             /\ \E pages \in {pInJournal} \cup {pInJournal \ {q} : q \in pInJournal} :
                  UnsealedAt(h, n - 1, pages) /\ pInJournal = pages \cup {1}
    <3>1. PICK pages : UnsealedAt(h, n - 1, pages) /\ pInJournal = pages \cup {1}
      BY <2>1
    <3> QED  BY <1>1, <1>2, <2>0, <2>1, <3>1, SyncRecord
  <2>2. CASE calls = Checks(h, n, rest) /\ UnsealedAt(h, n, pInJournal)
    BY <1>1, <1>2, <2>0, <2>2, SyncCheck
  <2>3. CASE calls = Magics(h, n, rest) /\ UnsealedAt(h, n, pInJournal)
    BY <1>1, <1>2, <2>0, <2>3, SyncMagic
  <2>4. CASE calls = Syncs(h, n, rest) /\ UnsealedAt(h, n, pInJournal)
    <3>1. CASE fullSync
      <4>1. calls = Cons(SyncJ, Magics(h, n, rest))
        BY <2>4, <3>1 DEF Syncs
      <4> QED  BY <1>1, <1>2, <2>0, <2>4, <4>1, SyncFirst
    <3>2. CASE ~fullSync
      <4>1. calls = Magics(h, n, rest)
        BY <2>4, <3>2 DEF Syncs
      <4> QED  BY <2>3, <2>4, <4>1
    <3> QED  BY <3>1, <3>2
  <2>5. CASE /\ calls = Cons(SyncJ, rest)
             /\ Sealed(j_data, before, txs, journalHdr, pInJournal) /\ SafeNow(h)
             /\ Chained(j_data, h) /\ Recorded(j_data, h) \subseteq pInJournal
    BY <1>1, <1>2, <2>0, <2>5, SyncSecond
  <2> QED  BY <1>4, <2>1, <2>2, <2>3, <2>4, <2>5 DEF SyncStage
<1>5. CASE /\ calls = rest /\ journalHdr > 0
           /\ Sealed(j_data, before, txs, journalHdr, pInJournal) /\ SafeNow(journalHdr)
  <2>1. CASE rest = CommitRest /\ CacheInv({}) /\ 1 \in dirty
    BY <1>1, <1>5, <2>1, SyncedCommits
  <2>2. ASSUME NEW p \in 1..Len(image), rest = SpillRest(p) /\ CacheInv({Entry(p)}),
               journalOff = journalHdr + Sector /\ nRec = 0,
               journalHdr + Sector * (MaxPages + 1) <= MaxJournal,
               p \in pInJournal \/ p > dbOrigSize
        PROVE  Inv' /\ Refined
    BY <1>1, <1>5, <2>2, SpillHeader
  <2> QED  BY <1>2, <2>1, <2>2 DEF Purpose
<1>6. CASE \E h, n \in 0..journalHdr : SyncStage(h, n, rest)
  <2>1. PICK h \in 0..journalHdr, n \in 0..journalHdr : SyncStage(h, n, rest)
    BY <1>6
  <2>2. h \in Nat /\ n \in Nat
    BY <1>3
  <2> QED  BY <1>4, <2>1, <2>2
<1> QED  BY <1>2, <1>5, <1>6
=============================================================================
