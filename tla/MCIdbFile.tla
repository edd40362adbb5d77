----------------------------- MODULE MCIdbFile -----------------------------
(* Small databases and journals for IdbFile. *)
EXTENDS IdbFile

Strings(n) == [1..n -> Byte]

\* A database of page size 3, written in pages.
PageChunks == {<<0, 1, 1>>, <<1, 0, 1>>}

\* A database whose page size changes from 2 to 4.
TwoPageSizes == Strings(2) \cup {<<0, 0, 0, 0>>, <<1, 1, 1, 1>>}

\* A journal is written in records and fields of any length.
RecordChunks == Strings(1) \cup Strings(2)
=============================================================================
