------------------------------ MODULE VfsFile ------------------------------
(***************************************************************************)
(* What SQLite relies on when it uses one file of a VFS: a linear array of *)
(* bytes that the open handle reads and writes (live), and the bytes that  *)
(* a later open of the same name will find (saved).                        *)
(*                                                                         *)
(* The contract is the part of the sqlite3_io_methods documentation        *)
(* (sqlite3.h) that idbvfs sets out to offer.  A write may reach the saved *)
(* bytes before it is synced, as on any file system, but only inside the   *)
(* range it covers.  A process killed inside a call may leave the bytes    *)
(* that call was storing in any state, and never invents other bytes.      *)
(***************************************************************************)
EXTENDS Integers, Sequences

CONSTANTS Byte,     \* what a written cell holds
          Chunks,   \* the byte strings a client writes
          MaxSize,  \* bound on the size of the file
          NoFile,   \* live: the file is not open; saved: it does not exist
          Unknown   \* a cell no store has ever filled

VARIABLES live, saved

vars == <<live, saved>>

Cell == Byte \cup {Unknown}

Larger(m, n) == IF m > n THEN m ELSE n

\* The contents that agree with old outside ofs+1 .. ofs+n.
AgreeOutside(c, old, ofs, n) ==
    \A i \in DOMAIN c \cap DOMAIN old : i \notin ofs+1 .. ofs+n => c[i] = old[i]

\* Contents of the same size as old, where the range may hold anything.
Scrambled(old, ofs, n) ==
    {c \in [1..Len(old) -> Cell] : AgreeOutside(c, old, ofs, n)}

-----------------------------------------------------------------------------

Init == live = NoFile /\ saved = NoFile

Open == /\ live = NoFile
        /\ live' = IF saved = NoFile THEN << >> ELSE saved
        /\ UNCHANGED saved

\* A gap between the old end of the file and the write holds anything.
Write(ofs, data) ==
    /\ live # NoFile
    /\ live' \in {c \in [1..Larger(Len(live), ofs + Len(data)) -> Cell] :
                    /\ AgreeOutside(c, live, ofs, Len(data))
                    /\ \A k \in 1..Len(data) : c[ofs + k] = data[k]}
    /\ IF saved = NoFile THEN saved' = NoFile
       ELSE saved' \in {c \in Scrambled(saved, ofs, Len(data)) :
              \A k \in 1..Len(data) : ofs + k <= Len(saved) =>
                c[ofs + k] \in {saved[ofs + k], data[k]}}

FailedWrite(ofs, data) ==
    /\ live # NoFile
    /\ live' \in Scrambled(live, ofs, Len(data))
    /\ IF saved = NoFile THEN saved' = NoFile
       ELSE saved' \in Scrambled(saved, ofs, Len(data))

Truncate(size) ==
    /\ live # NoFile
    /\ live' \in {c \in [1..size -> Cell] : AgreeOutside(c, live, 0, 0)}
    /\ UNCHANGED saved

\* An empty file that was never created need not come to exist.
Sync == /\ live # NoFile
        /\ saved' = live \/ (live = << >> /\ saved = NoFile /\ saved' = NoFile)
        /\ UNCHANGED live

Close == live # NoFile /\ live' = NoFile /\ UNCHANGED saved

Delete == live = NoFile /\ saved' = NoFile /\ UNCHANGED live

-----------------------------------------------------------------------------
(* The process dies.                                                       *)

KilledInWrite(ofs, data) ==
    /\ live # NoFile /\ live' = NoFile
    /\ IF saved = NoFile THEN saved' = NoFile
       ELSE saved' \in Scrambled(saved, ofs, Len(data))

CellsAt(c, i) == IF c # NoFile /\ i \in DOMAIN c THEN {c[i]} ELSE {}

\* Every byte found afterwards is one the sync was storing, one that was
\* there before, or blank.
KilledInSync ==
    /\ live # NoFile /\ live' = NoFile
    /\ \/ saved' = saved
       \/ \E size \in 0..MaxSize :
            saved' \in {c \in [1..size -> Cell] : \A i \in 1..size :
                          c[i] \in CellsAt(live, i) \cup CellsAt(saved, i) \cup {0, Unknown}}

Next == \/ Open \/ Sync \/ Close \/ Delete \/ KilledInSync
        \/ \E ofs \in 0..MaxSize, data \in Chunks :
             Write(ofs, data) \/ FailedWrite(ofs, data) \/ KilledInWrite(ofs, data)
        \/ \E size \in 0..MaxSize : Truncate(size)

Spec == Init /\ [][Next]_vars
=============================================================================
