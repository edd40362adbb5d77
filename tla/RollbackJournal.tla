-------------------------- MODULE RollbackJournal --------------------------
(***************************************************************************)
(* The format of SQLite's rollback journal, and what a playback of one     *)
(* finds in it.                                                            *)
(*                                                                         *)
(* A cell of the journal is a field: a header is <<magic and nRec,         *)
(* dbOrigSize, cksumInit and sizes>>, a record is <<pgno, page, cksum>>,   *)
(* both as long as a sector.  cksumInit and cksum are the number of the    *)
(* transaction, so that a stale record of an older one, or a record cut    *)
(* short, does not match its header.                                       *)
(*                                                                         *)
(* open is the place of the header the pager is still writing, whose magic *)
(* number and nRec need not be there yet, or NoHeader in a hot journal.    *)
(***************************************************************************)
EXTENDS Integers, Sequences

CONSTANTS MaxPages, MaxJournal   \* bounds on the database and on the journal

ASSUME BoundsAssumption == {MaxPages, MaxJournal} \subseteq Nat \ {0}

NoHeader == -1

Sector == 3

\* The magic number and nRec; AllRecs stands for 0xffffffff.
Magic(n)   == MaxPages + 1 + n
IsMagic(c) == c > MaxPages
AllRecs    == MaxJournal

Record(p, cell, seed) == <<p, cell, seed>>

-----------------------------------------------------------------------------

\* readJournalHdr: the first header needs valid sizes, which one cut short
\* has not.
HasHeader(data, at, open) ==
    /\ at + Sector <= Len(data)
    /\ at # open => IsMagic(data[at + 1])
    /\ at = 0 => data[3] # 0

\* nRec, as pager_playback takes it.
RecordCount(data, at, open) ==
    LET field == IF IsMagic(data[at + 1]) THEN data[at + 1] - Magic(0) ELSE 0
        rest  == (Len(data) - at - Sector) \div Sector
    IN  IF field = AllRecs \/ (field = 0 /\ at = open) THEN rest ELSE field

\* pager_playback_one_page takes the record at that place for one of the
\* header at hdr; data[2] is the size of the database that is restored.
IsRecord(data, hdr, at) ==
    /\ at + Sector <= Len(data) /\ data[at + 1] # 0
    /\ data[at + 1] <= data[2] => data[at + 3] = data[hdr + 3]

\* How many records of the header are taken, the first that is none excluded.
Taken(data, hdr, open) ==
    {n \in 1 .. RecordCount(data, hdr, open) :
        \A i \in 1..n : IsRecord(data, hdr, hdr + Sector * i)}

AllTaken(data, hdr, open) ==
    Taken(data, hdr, open) = 1 .. RecordCount(data, hdr, open)

NextHeader(data, hdr, open) == hdr + Sector * (RecordCount(data, hdr, open) + 1)

\* The places of the records that a playback takes from the header at a place
\* on.
TakenFrom(data, open) ==
    LET from[hdr \in 0 .. Len(data)] ==
          IF ~HasHeader(data, hdr, open) THEN {}
          ELSE {hdr + Sector * n : n \in Taken(data, hdr, open)}
                 \cup (IF AllTaken(data, hdr, open)
                       THEN from[NextHeader(data, hdr, open)] ELSE {})
    IN  from

\* The places of the records that pager_playback restores.
Played(data, open) ==
    {at \in TakenFrom(data, open)[0] : data[at + 1] <= data[2]}

\* The database of that size that the records at those places make of file.
Restored(file, size, data, places) ==
    [p \in 1..size |->
        IF \E at \in places : data[at + 1] = p
        THEN data[(CHOOSE at \in places : data[at + 1] = p) + 2]
        ELSE IF p <= Len(file) THEN file[p] ELSE 0]

-----------------------------------------------------------------------------

\* hasHotJournal, for a database of that many pages; xCheckReservedLock
\* always answers that nobody holds the lock.
IsHot(pages, journal) == pages > 0 /\ journal # << >> /\ journal[1] # 0

\* What a process that opens the files would make of them.
Recovery(file, journal) ==
    IF IsHot(Len(file), journal) /\ HasHeader(journal, 0, NoHeader)
    THEN Restored(file, journal[2], journal, Played(journal, NoHeader)) ELSE file
=============================================================================
