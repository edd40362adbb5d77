---------------------------- MODULE RegularFile ----------------------------
(***************************************************************************)
(* IdbFile on a name that is a regular file: a database that another VFS   *)
(* made.  Every method passes on to a stdio stream opened with "r+".       *)
(*                                                                         *)
(* The stream is stdio's, as in the musl of Emscripten.  A write may stay  *)
(* in its buffer, and fseek flushes it; a flush that fails drops what was  *)
(* buffered, leaves the position where it was and sets the stream's error  *)
(* indicator.  xRead, xWrite and xFileSize begin with an fseek and look    *)
(* neither at what it returns nor at the indicator.                        *)
(*                                                                         *)
(* The client is SQLite's pager: whole pages, and xTruncate from           *)
(* pager_truncate only, after an xFileSize.  A page is a number, a page    *)
(* that fails to be written is not written at all, and stdio's buffer for  *)
(* reading is left out.  The process may be killed between two calls.      *)
(***************************************************************************)
EXTENDS Integers, Sequences

CONSTANTS
    MaxPages,   \* bound on the size of the file, in pages
    Pages,      \* what a page may hold when it is written
    NoWrite,    \* the buffer of the stream is empty
    Fails,      \* the system calls that may fail
    Protected   \* may the file be write-protected?

ASSUME PagesAssumption == MaxPages \in Nat \ {0} /\ Pages \subseteq Nat /\ NoWrite \notin Nat
ASSUME FailsAssumption ==
    Fails \subseteq {"write", "ftruncate", "fsync", "unlink"} /\ Protected \in BOOLEAN

VARIABLES
    handle,   \* "closed", "stream", "null" (regular_file after a failed fopen),
              \* or "deleted" (the name is no regular file any more)
    stream,   \* the file, the position in it, the page buffered for there, and
              \* the error indicator (0, or 1 when a write has failed)
    answer,   \* the last call and what it answered
    written,  \* history: the file as the calls that succeeded have made it
    dirty,    \* history: the pages written or truncated since the last xSync
    failed    \* history: has the fopen or an ftruncate failed since xOpen?

vars == <<handle, stream, answer, written, dirty, failed>>

Stream(file, at, buffer, err) == [file |-> file, at |-> at, buffer |-> buffer, err |-> err]

Answer(op, n, ok, value) == [op |-> op, page |-> n, ok |-> ok, value |-> value]

Put(file, n, page) ==
    [i \in 1..(IF n > Len(file) THEN n ELSE Len(file)) |->
        IF i = n THEN page ELSE IF i <= Len(file) THEN file[i] ELSE 0]

-----------------------------------------------------------------------------
(* stdio: the streams a call may leave.                                    *)

Dropped(s) == Stream(s.file, s.at, NoWrite, 1)

Stored(s) == IF s.buffer = NoWrite THEN s
             ELSE Stream(Put(s.file, s.at, s.buffer), s.at, NoWrite, s.err)

FlushFails(s) == "write" \in Fails /\ s.buffer # NoWrite

Seek(s, n) == {Stream(Stored(s).file, n, NoWrite, s.err)}
                \cup (IF FlushFails(s) THEN {Dropped(s)} ELSE {})

-----------------------------------------------------------------------------

Says(op, n, ok, value) == answer' = Answer(op, n, ok, value)

\* IdbFile::IdbFile: xOpen answers OK whatever fopen returns.
Open ==
    /\ handle = "closed"
    /\ \/ handle' = "stream" /\ failed' = FALSE
       \/ Protected /\ handle' = "null" /\ failed' = TRUE
    /\ stream' = Stream(stream.file, 1, NoWrite, 0) /\ written' = stream.file
    /\ Says("open", 0, TRUE, 0) /\ dirty' = {}

Read(n) ==
    /\ handle = "stream" /\ stream' \in Seek(stream, n)
    /\ IF stream'.at <= Len(stream'.file) THEN Says("read", n, TRUE, stream'.file[stream'.at])
       ELSE Says("read", n, FALSE, 0)
    /\ UNCHANGED <<handle, written, dirty, failed>>

\* Mutant: xWrite goes on where the stream is.
WriteAnywhere(n, page) ==
    /\ handle = "stream"
    /\ \E s \in Seek(stream, stream.at) : stream' = Stream(s.file, s.at, page, s.err)
    /\ Says("write", n, TRUE, 0)
    /\ written' = Put(written, n, page) /\ dirty' = dirty \cup {n}
    /\ UNCHANGED <<handle, failed>>

\* A page larger than the buffer of stdio goes to the file at once.
Write(n, page) ==
    /\ handle = "stream"
    /\ \E s \in Seek(stream, n) :
         \/ /\ stream' \in {Stream(s.file, s.at, page, s.err),
                            Stream(Put(s.file, s.at, page), s.at, NoWrite, s.err)}
            /\ Says("write", n, TRUE, 0) /\ written' = Put(written, n, page)
         \/ /\ "write" \in Fails /\ stream' = Dropped(s)
            /\ Says("write", n, FALSE, 0) /\ UNCHANGED written
    /\ dirty' = dirty \cup {n}
    /\ UNCHANGED <<handle, failed>>

\* Mutant: the size of the file, asked from the descriptor.
SizeOfDescriptor ==
    /\ handle = "stream"
    /\ Says("size", 0, TRUE, Len(stream.file))
    /\ UNCHANGED <<handle, stream, written, dirty, failed>>

FileSize ==
    /\ handle = "stream"
    /\ \/ /\ stream' = Stream(Stored(stream).file, Len(Stored(stream).file) + 1, NoWrite,
                            stream.err)
       \/ /\ FlushFails(stream) /\ stream' = Dropped(stream)
    /\ Says("size", 0, TRUE, stream'.at - 1)
    /\ UNCHANGED <<handle, written, dirty, failed>>

Cut(file, size) == IF size < Len(file) THEN SubSeq(file, 1, size) ELSE file

\* The result of ftruncate is not looked at.
Truncated(size) ==
    /\ \/ stream' = [stream EXCEPT !.file = Cut(@, size)] /\ UNCHANGED failed
       \/ "ftruncate" \in Fails /\ failed' = TRUE /\ UNCHANGED stream
    /\ written' = Cut(written, size) /\ dirty' = dirty \cup (size + 1 .. MaxPages)
    /\ Says("truncate", size, TRUE, 0)
    /\ UNCHANGED handle

\* Mutant: pager_truncate does not ask for the size before.
TruncateBlindly(size) == handle = "stream" /\ size < Len(written) /\ Truncated(size)

\* pager_truncate calls xTruncate when xFileSize has answered more than that.
Truncate(size) ==
    handle = "stream" /\ answer.op = "size" /\ size < answer.value /\ Truncated(size)

Sync ==
    /\ handle = "stream"
    /\ \/ stream' = Stored(stream) /\ Says("sync", 0, TRUE, 0)
       \/ /\ \/ FlushFails(stream) /\ stream' = Dropped(stream)
             \/ "fsync" \in Fails /\ stream' = Stored(stream)
          /\ Says("sync", 0, FALSE, 0)
    /\ UNCHANGED <<handle, written, failed>> /\ dirty' = {}

\* Mutant: the handle goes and the stream stays open.
CloseHandle ==
    /\ handle \in {"stream", "null"} /\ handle' = "closed"
    /\ Says("close", 0, TRUE, 0)
    /\ UNCHANGED <<stream, written, dirty, failed>>

Close ==
    /\ handle \in {"stream", "null"} /\ handle' = "closed"
    /\ \/ stream' = Stored(stream)
       \/ FlushFails(stream) /\ stream' = Dropped(stream)
    /\ Says("close", 0, TRUE, 0)
    /\ UNCHANGED <<written, dirty, failed>>

\* xDelete; the pager deletes no file it has open.
Delete ==
    /\ handle = "closed"
    /\ \/ /\ handle' = "deleted" /\ stream' = Stream(<< >>, 1, NoWrite, 0)
          /\ written' = << >> /\ dirty' = 1..MaxPages
          /\ Says("delete", 0, TRUE, 0)
       \/ /\ "unlink" \in Fails /\ Says("delete", 0, FALSE, 0)
          /\ UNCHANGED <<handle, stream, written, dirty>>
    /\ UNCHANGED failed

Killed ==
    /\ handle \in {"stream", "null"} /\ handle' = "closed"
    /\ stream' = [stream EXCEPT !.buffer = NoWrite]
    /\ Says("none", 0, TRUE, 0)
    /\ UNCHANGED <<written, dirty, failed>>

\* With a null regular_file the methods take the other branch, where no page
\* and no file_size can be opened below a regular file.
UseNull(n) ==
    /\ handle = "null"
    /\ \/ Says("size", 0, TRUE, 0)
       \/ Says("read", n, FALSE, 0)
       \/ Says("write", n, FALSE, 0)
       \/ Says("sync", 0, TRUE, 0)
    /\ UNCHANGED <<handle, stream, written, dirty, failed>>

-----------------------------------------------------------------------------

Init == /\ handle = "closed" /\ failed = FALSE /\ dirty = {}
        /\ stream \in {Stream(<<page>>, 1, NoWrite, 0) : page \in Pages}
        /\ written = stream.file
        /\ answer = Answer("none", 0, TRUE, 0)

Next == \/ Open \/ FileSize \/ Sync \/ Close \/ Killed \/ Delete
        \/ \E n \in 1..MaxPages : Read(n) \/ UseNull(n) \/ \E page \in Pages : Write(n, page)
        \/ \E size \in 0..MaxPages : Truncate(size)

Spec == Init /\ [][Next]_vars

-----------------------------------------------------------------------------

Files == UNION {[1..size -> Pages \cup {0}] : size \in 0..MaxPages}

Ops == {"none", "open", "read", "write", "size", "truncate", "sync", "close", "delete"}

\* Only an open stream holds a page in its buffer.
TypeOK ==
    /\ handle \in {"closed", "stream", "null", "deleted"}
    /\ stream \in [file : Files, at : 1..MaxPages + 1, buffer : Pages \cup {NoWrite},
                  err : {0, 1}]
    /\ stream.buffer # NoWrite => handle = "stream" /\ stream.at \in 1..MaxPages
    /\ answer.op \in Ops /\ answer.page \in 0..MaxPages /\ answer.ok \in BOOLEAN
    /\ answer.value \in Nat
    /\ written \in Files /\ dirty \subseteq 1..MaxPages /\ failed \in BOOLEAN

\* No write, ftruncate or fopen has failed since xOpen, and nobody would have
\* told the client of most of those.
NothingLost == stream.err = 0 /\ ~failed

\* While nothing is lost, a page reads as it was written last, buffered or
\* not, and pages past the end are a short read.
ReadsLatest ==
    answer.op = "read" /\ NothingLost =>
        IF answer.page <= Len(written) THEN answer.ok /\ answer.value = written[answer.page]
        ELSE ~answer.ok

\* xFileSize counts the pages still in the buffer.
SizeIsTrue == answer.op = "size" /\ NothingLost => answer.value = Len(written)

\* "All writes to the database file are synced prior to the rollback journal
\* being deleted": when xSync answers OK and nothing is lost, the file is what
\* was written, whatever earlier xSyncs have answered.
SyncedIsStored == answer.op = "sync" /\ answer.ok /\ NothingLost => stream.file = written

\* Whatever fails, and wherever a failed fseek leaves the stream, a page of
\* the file changes only if it was written or truncated since the last xSync,
\* or with the whole file: a rollback finds every page it does not restore as
\* it was.
OnlyDirtyPagesChange ==
    [][\A n \in DOMAIN stream.file \ (dirty \cup dirty') :
         n \in DOMAIN stream'.file /\ stream'.file[n] = stream.file[n]]_vars
=============================================================================
