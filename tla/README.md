# A TLA+ verification of idbvfs

idbvfs is a SQLite VFS for programs compiled to WebAssembly. It keeps a SQLite
file as a directory of small files, one per page, under `/idbvfs`, a directory
of Emscripten's memory file system (MEMFS) that is mirrored to the browser's
IndexedDB by IDBFS. Compiled natively, the same code uses directories of the
ordinary file system. This directory holds TLA+ models of it, the TLC runs that
check them and TLAPS proofs about them. Paths below are relative to the
repository; unless another file is named, a line is one of `src/idbvfs.cpp`.

## 1. The system

### Components

| component | state | operations | hard behaviour |
|---|---|---|---|
| **IdbPage** (90-177): one page file | the file's contents | `load_into`, `scan_into`, `store`, `remove` | `store` empties the file before it writes; `fwrite` may be short; the result of `fclose` is dropped |
| **IdbFileSize** (179-217): the file `file_size` | decimal digits on disk; `file_size`, `is_dirty` in the handle | `load`, `get`, `set`, `update_if_greater`, `sync` | the cached size and the stored one part ways; the dirty flag decides whether a store happens at all |
| **IdbFile** (219-439): an open handle | `file_size`, `journal_data`, `regular_file`, `is_db` | `xRead`, `xWrite`, `xTruncate`, `xSync`, `xFileSize`, `xClose`; locks and controls without state | page numbers come from the length of the call; a journal lives in memory until `xSync`; `xTruncate` touches no page |
| **IdbVfs** (441-507) | none of its own | `xOpen`, `xDelete`, `xAccess`, `xFullPathname` | `xDelete` is a sequence of unlinks and stops at the first gap |
| **idbvfs_register and the sync queue** (512-548) | `Module.isIdbvfsMounted`, `syncQueue`, the `FS.syncfs` calls in flight | mount, populate, `Module.idbvfsSyncfs`, `doSync` and its callback | everything after `FS.syncfs` is a callback; populating is outside the queue; an error is not looked at; the page may be closed at any moment |
| **async_call_after_mounted** (`src/idbvfs.hpp`) | the callbacks that poll | poll, call | polls forever if populating failed |
| **IdbFile on a regular file** (233, 255-260, 278-287, 300-303, 320-322, 334-338, 451-458) | a `FILE *` | the same calls, passed on to stdio | buffered writes against `ftruncate` on the descriptor; an `fseek` that flushes, and fails unnoticed |
| **SQLite's pager** (vendored, `src/libs/sqlite-amalgamation/sqlite3.c`) | page cache, `struct Pager` | transactions: reads, writes, truncates, syncs and deletes a database and its journal | decides the order of all calls; spills, hot journals, failed commits |
| **IDBFS, MEMFS, IndexedDB** (Emscripten, browser) | external service | `FS.syncfs(true)`, `FS.syncfs(false)` | a save lists the files at one time, reads them at another and stores them at a third |
| demo, tests, build files | - | - | read for how the VFS is used |

### How they interact

SQLite calls the handle synchronously. A database's `xWrite` stores a page file
(`writeDb`, 419) and, if the file grew, changes the cached size; a journal's
`xWrite` only fills `journal_data` (432). `xSync` stores the journal as page
`"0"`, then the size (311-324), and calls `Module.idbvfsSyncfs` (327), which
only counts the request and possibly starts a save (539). The bytes reach
IndexedDB in a later callback. Nothing tells SQLite when, or whether, that
happened. At the next start of the page `FS.syncfs(true)` (520) fills MEMFS from
IndexedDB and then sets `isIdbvfsMounted`; the application is expected, but not
forced, to wait for it.

### What makes each part correct

1. Page files, `file_size` and the handle together behave as one linear file:
   reads return what was written, a write touches only its range, an OK from
   `xSync` means a later `xOpen` finds the same file, and the death of the
   process in the middle of a call damages only what that call was storing
   (`FileContract`, `ReadAgrees`, `SyncOkMeansSaved`, `WriteLeavesOtherBytes`).
2. `IdbFileSize::sync` skips the store of the size when the handle is clean, so
   a clean handle must agree with the disk (`CleanMeansSaved`).
3. No request for a save is forgotten, saves never overlap, when the queue has
   drained IndexedDB holds what was synced, nothing that reached IndexedDB is
   lost, and every `xSync` is saved in the end (`RequestsHaveASave`,
   `OneSyncfsAtATime`, `DrainedMeansSaved`, `PersistedSurvives`,
   `SyncedIsSaved`).
4. Together: whatever call the process dies in, SQLite's recovery finds the
   database as it was before or after the last transaction, a statement sees what
   is committed, and the answer to a COMMIT is true (`Atomic`,
   `ReadsWhatIsCommitted`, `AnswersAreTrue`, `OverwrittenOnlyWhenJournaled`); and
   so does a page load from what the saves have put into IndexedDB
   (`SnapshotIsCommitted`, `CommitIsSaved`).
5. A callback given to `async_call_after_mounted` is called once, after the mount
   (`CallbackInv`, `GivenIsCalled`), so that an application that uses SQLite from
   its callbacks waits for the mount (`ImplementsPatient`).
6. On a regular file stdio's buffer is never seen, and a failing system call
   touches no page but those being written (`ReadsLatest`, `SizeIsTrue`,
   `SyncedIsStored`, `OnlyDirtyPagesChange`).

`PROJECT.json` lists the hazards behind these properties, each at its line, and
names a property only where a run reaches the hazard. Where none does, a note says
why: most often the code does not keep the property then, the passing runs and the
theorems assume the case away by a constant, and one of the further configurations
of section 3 shows what happens.

## 2. Modules

| module | what it is |
|---|---|
| `VfsFile` | abstract specification: what SQLite relies on when it uses one file of a VFS |
| `IdbFile` | detailed specification of one idbvfs file, its handle, its faults and crashes; the refinement of `VfsFile`; its properties |
| `MCIdbFile` | small databases and journals for TLC |
| `IdbFileProofs` | theorems about `IdbFile`, among them that it implements `VfsFile` |
| `Transactions` | abstract specification: what SQLite promises of a database |
| `RollbackJournal` | the format of SQLite's rollback journal, and what a playback finds in one |
| `RollbackJournalProofs` | theorems about what a playback restores, and lemmas about each write to a journal |
| `Pager` | SQLite's rollback-journal transactions over two `IdbFile`s, a database and its journal; the refinement of `Transactions` |
| `MCPager` | the journal modes for TLC |
| `PagerInvariant` | the inductive invariant of `Pager` |
| `PagerJournalProofs` | that the steps of a transaction before its first write to the database keep it |
| `PagerProofs` | that the other steps do, and the theorems about `Pager` |
| `SyncQueue` | registration, mounting, populating and the queue of saves over an external model of IDBFS; its properties |
| `SyncQueueProofs` | theorems about `SyncQueue` |
| `Snapshots` | the files of a database and its journal under `SyncQueue`: what the saves put into IndexedDB |
| `SnapshotsProofs` | the theorem about `Snapshots` |
| `MountCallbacks` | `async_call_after_mounted` over `SyncQueue`; the refinement of `SyncQueue` with a patient application |
| `MountCallbacksProofs` | theorems about `MountCallbacks` |
| `RegularFile` | an idbvfs handle on a regular file, over an external model of a stdio stream |
| `RegularFileProofs` | theorems about `RegularFile` |

    VfsFile <--implements-- IdbFile <--two instances-- Pager --implements--> Transactions
    RollbackJournal <--extends-- Pager <--extends-- PagerInvariant
    SyncQueue <--extends-- Snapshots
    SyncQueue <--extends-- MountCallbacks --implements--> SyncQueue (WaitsForMount)

Definitions whose comment begins with "Mutant" are wrong variants of the
definition below them, used to check that a property would notice the error;
nothing in a specification refers to them. `PROJECT.json` says which source
lines each definition stands for.

### IdbFile and VfsFile

`page` is the directory's page files by number, `size_key` the number that
`file_size` reads as (or `NoFile`), and `is_open`, `file_size`, `is_dirty`,
`journal_data` the handle's fields under their names in the source. Both kinds
of file are in one module: `IsDb` is the `is_db` that `xOpen` (444) takes from
the flags. Each VFS call is an action: `Open`, `Read`, `WriteDb` /
`WriteJournal`, `Truncate`, `Sync`, `Close`, `Delete`. `xFileSize` has no effect
and is the operator `XFileSize`; the answer of a read is the operator `XRead`,
and `Read` does what a read changes: `readJournal` loads `journal_data`.

*Failing stores.* `IdbPage::store` returns what `fwrite` accepted. A `fopen`
that fails, or a write longer than the stdio buffer that the disk cuts short,
shows in that number (`WriteDbFails`). A page that stdio buffers whole is
written by `fclose`, whose result is dropped (`WriteDbUnnoticed`, under
`BufferedPages`), and so are the digits of the size: only a failing `fopen`
makes `IdbFileSize::sync` fail (`StoreSize`).

*The end of the process.* `Killed` comes between two calls; `KilledInWrite`,
`KilledInSync` and `KilledInDelete` come inside one and leave what the source's
order of `fopen "w"`, `fwrite`, `fclose` and `unlink` can leave: a page or a
size that is empty or cut, a size that is old, some pages gone. A kill inside
`xRead`, `xOpen`, `xClose` or `xTruncate` is one between calls, since these
change no file.

*Sizes.* `HeaderLimit` is the constant 512 of `readDb` and `Radix` the 10 of
`std::to_string`; making them parameters lets TLC meet both sides of the limit
and the loss of a digit with files of a few bytes. `Unknown` is what a cell of
the reader's buffer holds when `fread` did not fill it.

*The client.* SQLite's pager on one connection, as the README asks: it reads
header fields (below byte 512), whole aligned pages, or any journal range
(`ReadsOf`); writes whole aligned pages of a database; deletes only closed
files; writes to a journal that exists only after reading it (opening a hot
journal reads its header first). It truncates a journal only in
`journal_mode=TRUNCATE` (`TruncatesJournal`). `writeDb` does not check the
alignment that `readDb` checks; the model's client keeps it.

*The contract.* `VfsFile` has two variables, the bytes the open handle shows
(`live`) and the bytes a later open finds (`saved`), and says what each call may
do to both. It is weaker than "only a sync saves": a write of an existing page
may reach the disk at once, as on any file system, and a call that fails or is
killed may leave its own range in any state. It never lets another byte change.
`IdbFile` implements it under

    live  = journal_data if there is any, else the bytes of the pages up to file_size
    saved = the bytes of the pages up to the size in "file_size", if it exists

(`Live`, `Saved`, `Contract == INSTANCE VfsFile WITH ...`, `FileContract`). In
`VfsFile` a killed sync may leave any size up to `MaxSize`: this is the native
build's exposure to `fopen "w"` on `file_size`. Whether SQLite survives it is
asked in `Pager`.

### Pager

`D` and `J` are two instances of `IdbFile`, the database and its journal, and
SQLite's pager drives them in the place of `IdbFile`'s free client. A page of the
database is one cell; a field of the journal is one cell, and a header or a record
is a sector of three. `RollbackJournal` is the format (`Record`, `HasHeader`,
`RecordCount`, `IsRecord`): a record that was cut short, or is one of an older
transaction, does not carry the checksum seed of the header above it, here the
number of the transaction. A playback is stated by the places it takes records
from: `TakenFrom` follows the headers, `Played` leaves out the pages beyond the
old size, and `Restored` is the database that comes out.

*Calls.* A function of the pager does not run in one step. It leaves in `calls`
the list of VFS calls it is going to make, and each is a step of its own
(`CallJournal`, `CallDatabase`, `ReadHotJournal`, ...), so that the process can be
killed, or a write fail, between any two. `SyncJournal`, `SyncDb`,
`EndTransaction` and `Playback` are the lists; `Write`, `Spill`,
`Commit`, `Rollback`, `SharedLock` and `StartRollback` put them together. A
`write_db` call carries the pages still to be written, in the order of their
numbers for a commit (`Pagelist`) or of their records for a playback
(`Rewrites`), and each step writes one (`NextToWrite`, `ContinueWriting`). `Spill`
is `pagerStress`: pages of an open transaction go into the database, and the
journal gets a second header. A failed COMMIT is rolled back; a failed spill or
playback drops the cache and leaves the journal to be found hot (`Fail`).

*Kills.* `Killed` comes between two calls. `KilledInWrite`, `KilledInSync` and
`KilledInDelete` come inside one, between its stores and unlinks. `KilledInStore`
comes inside a store, after `fopen "w"` has emptied the file; `TornStores` says of
which files: a journal not yet hot, a journal that is hot already, `file_size`.

*Connections.* Connections follow one another on the same files and choose their
`journal_mode` and `synchronous` freely (`Connect`), so a journal that `PERSIST`
left behind meets a connection with `DELETE`.

*History.* `recovered` is what opening the files now would find (`Recovery`: the
hot journal played back), recomputed in every step; `before` is the database at
the start of the transaction. `Transactions` is implemented with `db` as
`recovered` and `tx` as the cache of the writer: `recovered` may change only by
becoming what the transaction made, and once.

`StaleHeader` is what the call "check_next_header" looks for: an old header behind
the new records, over which it writes a zero. Over
idbvfs nothing is ever there: a journal that was not read in this transaction
starts from nothing (433), which is also why `journal_mode=PERSIST` is safe.

### SyncQueue

The application writes and removes page files and requests saves (`Write`,
`Remove`, `IdbvfsSyncfs`); `Register` is `idbvfs_register`; `SyncCallback` is the
callback of `doSync`. A file is a *version*: the value of a clock when it was
written, which stands for its contents and its mtime, the only thing IDBFS
compares. Two writes of one file are assumed to have different mtimes.

External, modelled from how the code uses it and Emscripten's documentation:

- `FS.syncfs(false)` lists MEMFS when it is called (`DoSync`), learns what
  IndexedDB holds and reads the differing files in a later callback
  (`SaveReads`), and stores them, and deletes the files not listed, in one
  transaction (`SaveDone`). A file that was listed and is gone when it is read is
  an error; the others are stored. `SaveError` is a save that IndexedDB refuses.
- `FS.syncfs(true)` does the reverse: the listing of MEMFS at the call decides
  which files are replaced or deleted when it completes (`PopulateDone`).
- IndexedDB runs the transactions on one store in the order of their start.
- The page may go away at any point (`Reload`); only IndexedDB stays, and a
  transaction that was started may still complete.

`WaitsForMount` says whether the application waits for `idbvfs_is_mounted`. The
source offers the function and `async_call_after_mounted` but does not enforce
it, and the README's quick start does not mention it; both cases are run.
`touched`, `removed` and `last_save_ok` are history variables that only
properties read.

*Fairness.* `WF(SaveReads)`, `WF(SaveDone)`, `WF(PopulateDone)`: a browser runs
every callback that is due while the page stays. Nothing obliges the application
to write, to sync or to stay, and no fairness is put on failures.

### Snapshots

`Snapshots` extends `SyncQueue` and replaces its free application by one that
executes SQLite statements. JavaScript runs one thing at a time: a call of the
application is a `turn`, a list of page writes, `xSync`s and the `xDelete` of the
journal, and no callback of `FS.syncfs` runs before it is over (`Callback` asks
for an empty turn). A save started in the middle of the turn lists the files
there and then and reads them in a later turn, which is the hazard. The calls are
those of `Pager` with `DELETE` and `FULL`, reduced to what they do to files:
`Execute` is a statement that commits or spills, `Rollback` a `ROLLBACK` or the
playback of a hot journal. `content` says what each version of a file holds, so
that `Recovered(idb)` is what a page load would find. `WaitsForSaves` says whether
the application waits until the queue is empty before it makes its next call;
idbvfs has no function that tells.

*Fairness.* A call of the application comes to its end, and the browser runs every
callback that is due.

### MountCallbacks

`Give` is `async_call_after_mounted`, `Timer` the timer of 0 ms that
`emscripten_async_call` sets, `Invoke` the function both run: it calls the
callback if mounted and sets another timer if not. Emscripten's build is
modelled; natively `idbvfs_is_mounted` is always true and `Give` calls at once.
`SyncQueue` is extended with `WaitsForMount` FALSE: what keeps this application
from calling SQLite early is only that it waits for one of its callbacks.
`Patient` is the instance of `SyncQueue` that it is shown to implement.

*Fairness.* The browser runs every timer and every callback that is due.

### RegularFile

`IdbFile` opens a name that is a regular file with `fopen "r+"` and passes every
method on to the stream. The stream is musl's, as Emscripten has it: the file, a
position, at most one buffered page, and the error indicator. A page larger than
the buffer goes to the file at once, a smaller one may stay. `fseek` flushes, and
a flush that fails drops the buffer, leaves the position and sets the indicator;
`xRead`, `xWrite` and `xFileSize` look at neither. `xOpen` answers OK whatever
`fopen` returns, and with a null `regular_file` the other methods take the branch
for page files (`UseNull`). The client is the pager's: `pager_truncate` asks for
the size before it truncates, and this is what empties the buffer before
`ftruncate` works on the descriptor below it.

The properties about contents hold while `NothingLost`: no write has set the error
indicator and neither `ftruncate` nor `fopen` has failed since `xOpen`. The
indicator is a fact of the stream that the code could ask for (`ferror`) and does
not. `OnlyDirtyPagesChange` holds whatever fails.

## 3. Runs

The runs of `Pager` check deadlock: a connection can always go on or close, and
the bounds do not stop it. The others set `CHECK_DEADLOCK FALSE`, because their
bounds end the behaviours (a file at `MaxSize`, a clock at `MaxClock`), or, for a
regular file, because a deleted name is the end.

| run | question | bounds and why they are enough |
|---|---|---|
| `db` | Is a database a linear file through writes, failed and short stores, truncation, deletion, reopening and kills? | two pages of 3 bytes, two different page contents, sizes up to 6. Two pages make "another page" exist, a gap (page 1 written before page 0), a page beyond the size after truncation or a killed delete, and a page file that `xDelete` leaves behind. 3 bytes give a short page with one or two of them; `HeaderLimit` 3 gives header reads at every offset below and page reads above it |
| `journal` | The same of a journal, whose bytes are in memory between one `xSync` and the next (`ReadAgrees` is a question only for a database) | records of 1 and 2 bytes, up to 4 bytes: growing, overwriting inside and across the end, gaps, several syncs, loading an existing journal; the page of the journal can be stored |
| `full_disk` | Does the dirty flag stay right when stores fail unnoticed? | as `db`, with `BufferedPages` and `KeyFaults` |
| `pager` | Are transactions atomic and the answers true, and does the invariant of the proof hold? | connections with `DELETE` and `FULL` or `PERSIST` and `NORMAL`, in any order; spills, failing page stores and kills everywhere but inside the store of `file_size` or of a hot journal. Three pages: the change counter, a page spilled and one still in the cache, or one that the transaction adds. Two transactions: what the second does to the journal, pages and cache of the first. `MaxJournal` 30 holds two headers and the records of both |
| `sync_queue` | Does a patient application lose nothing and get every sync saved? | two files, so one can change between the listing and the reading while the other does not; three writes; three outstanding requests, one more than the queue ever tells apart |
| `snapshots` | Does a page load always find a committed database, if the application waits for its saves and none fails? | two pages and a journal, two transactions, ten writes: two commits, or a spill, a commit and a rollback of a hot journal after a reload; populating may fail |
| `mount_callbacks` | Is every callback called once, after the mount, and is such an application a patient one? | three callbacks, so that timers can be overtaken and given from a callback; two files, two writes, two requests |
| `regular_file` | Is stdio's buffer ever seen, and what can a failing call touch? | three pages, two contents; every system call may fail, and the file may be write-protected |
| `two_page_sizes` | violation: `WriteLeavesOtherBytes` | pages of 2 and 4 bytes in 8 |
| `early_loss` | violation: `PersistedSurvives` | as `sync_queue`, with an application that does not wait and nothing that fails |
| `pager_truncate` | violation: `AnswersAreTrue` | `TRUNCATE` and `FULL`, nothing fails and nothing is killed |
| `snapshots_impatient` | violation: `SnapshotIsCommitted` | as `snapshots`, with an application that does not wait for the queue |

Distinct states of the passing runs: `db` 12,864, `journal` 11,565, `full_disk`
16,448, `pager` 188,371, `sync_queue` 27,574, `snapshots` 45,672,
`mount_callbacks` 84,656, `regular_file` 290,429.

Symmetry is not used: the page contents are bytes with a distinguished 0, files
are told apart in `snapshots`, and the other runs over model values check
liveness.

### What the passing runs show

- One idbvfs file, with one page size, is a file as SQLite expects one, in spite
  of everything `xTruncate` and `xDelete` leave behind: stale pages lie beyond
  the size, where a read is not answerable to the contract, and are covered again
  only by writes, or are the arbitrary contents of a gap.
- A journal is safe through any number of syncs as long as its store succeeds.
- The dirty flag is sound because nothing clears it before the handle goes. It
  is one of the places where an obvious optimisation (clear it after a successful
  store) would break the code: a store that was short reports success.
- SQLite's transactions survive idbvfs's order of stores and unlinks: `xSync`
  stores the journal before its size, `xDelete` removes the size before the page,
  and `xAccess` looks at the size alone, so a journal that is half there is none,
  and one is half there only when it is not needed. A failed page store in the
  middle of a commit is rolled back from `journal_data`, and one in the middle of
  that is left to the hot journal.
- For an application that waits for the mount the counter is enough. Whatever
  fails, each request is followed by a save that listed the files at or after it.
- If the application also waits for the queue, and no save fails, IndexedDB holds
  a committed database after every save, and between them. The save that the first
  `xSync` of a commit starts lists the pages that IndexedDB has already and the
  journal, which is gone when the save reads it: it changes nothing, and what
  IndexedDB has of an older journal stays. The next save lists the finished
  commit. The deletion of the journal asks for no save and is saved by that one,
  because it lists the files only when its turn comes.
- Callbacks are called once. They need not be called in the order they were
  given: one given after the mount overtakes those still in timers.
- On a regular file the one order that matters, size before truncation, is kept
  by SQLite and not by idbvfs (`TruncateBlindly` is the mutant).

### What the violations show

1. **Changing the page size in place** (`two_page_sizes`). `writeDb` makes a page
   file of every write, numbered by offset / length, so writes of two lengths
   alias: with pages of 2 bytes, then 4, byte range 4..7 is stored as page file 1,
   where bytes 2..3 were. `xSectorSize` answers 32 although SQLite defines it as
   what can be written without disturbing other bytes. `PRAGMA page_size` followed
   by `VACUUM` on a database without WAL does this.
2. **An application that follows the quick start** (`early_loss`): its first
   `xSync` runs beside the populating `FS.syncfs(true)`, which the queue does not
   know, and with a MEMFS that is still empty; the save then deletes from
   IndexedDB what earlier sessions stored.
3. **`journal_mode=TRUNCATE`** (`pager_truncate`): the commit is an `xTruncate(0)`
   of the journal that touches neither `journal_data` nor page `"0"`, and the
   `xSync` after it stores the journal in full again. COMMIT answers `SQLITE_OK`
   and the next reader rolls the transaction back.
4. **Two calls within one save** (`snapshots_impatient`): the save of a commit
   lists the files, the application goes on to its next transaction, and the save
   reads pages of both and no journal. A page load then finds a database that was
   never committed. The README asks only for a single connection.

### Further configurations

These configurations are kept beside the runs. Each checks one statement that the
code does not keep, and TLC finds the counterexample in a few seconds. What they
show is outside the passing runs: those exclude each case by a constant
(`PageFaults`, `KeyFaults`, `BufferedPages`, `TornStores`, `Pragmas`, `SaveFails`).

| configuration (module) | property | what happens |
|---|---|---|
| `ShortRead` (`MCIdbFile`) | `ShortReadZeroFills` | a short read (396, 412) leaves the rest of the buffer as it was, although `sqlite3.h` asks a VFS to fill it with zeros; a new file's first read shows it |
| `BufferedPages` (`MCIdbFile`) | `WriteOkMeansRead` | on a full disk a page that stdio buffers whole is lost by the `fclose` (154) that nobody looks at, and `xWrite` answers `SQLITE_OK` |
| `JournalFullDisk` (`MCIdbFile`) | `SyncOkMeansSaved` | `xSync` drops the result of the journal's store (316) and answers `SQLITE_OK`, after which SQLite overwrites the database counting on a journal that is not there |
| `JournalTruncate` (`MCIdbFile`) | `TruncateSetsSize` | the file level of `pager_truncate`: `xTruncate` (305) leaves the journal as long as it was |
| `EarlySyncfs` (`SyncQueue`) | `OneSyncfsAtATime` | the overlap behind `early_loss`; the comment at 529 says the queue avoids it |
| `PagerOffDelete` (`MCPager`) | `CommitAnswersOk` | with `synchronous=OFF` the journal has no `file_size`, `xDelete` (461) answers `SQLITE_IOERR_DELETE`, and COMMIT reports an error after it has stored everything |
| `PagerOffPersist` (`MCPager`) | `AnswersAreTrue` | with `synchronous=OFF` nothing stores `file_size`: `xClose` (246) does not, and a database that was committed and closed in order opens empty |
| `PagerTornSize` (`MCPager`) | `Atomic` | a kill between the `fopen "w"` of `file_size` (207) and its digits leaves a database of 0 bytes, and SQLite deletes the hot journal of an empty database |
| `PagerTornSpill` (`MCPager`) | `Atomic` | `xSync` of a journal stores all of it again (316): after a spill, a kill in the second store loses records of pages already overwritten |
| `SnapshotsFailedSave` (`Snapshots`) | `SnapshotIsCommitted` | a save of a spill fails, and nothing tries again (532); the first save of the commit then lists a spilled page with the journal, finds the journal gone and stores the page alone. If the page goes away before the next save, its next load finds a database that was never committed |
| `CallbackNotAsync` (`MountCallbacks`) | `CalledFromTimer` | when mounted already, `async_call_after_mounted` runs the callback itself before it returns; its comment (`src/idbvfs.hpp` 65) promises a timer |

The two `PagerTorn` cases concern the native build, where a process can die inside
a `store`, and a browser only as far as a tab can be killed inside a call; MEMFS
does not outlive the tab.

Two more are visible in `RegularFile` by leaving `NothingLost` out of a property. A
page that an `fseek` (258, 279, 335) failed to flush is gone, `xSync` finds nothing
left to flush and answers `SQLITE_OK`. And a database that is write-protected opens
as an empty one: `fopen "r+"` (233) fails, `xOpen` answers `SQLITE_OK`, and
`xFileSize` answers 0.

## 4. Proofs

TLAPS proves, for every value of the constants that the modules' named
assumptions allow (any page size, alphabet, set of write strings and bound; any
set of files and of callbacks), the following.

| theorem | module | extra assumption |
|---|---|---|
| `TypeCorrect`: `Spec => []TypeOK` | `IdbFileProofs` | - |
| `CleanSaved`: `Spec => []CleanMeansSaved` | `IdbFileProofs` | - |
| `ReadsAgree`: `Spec => []ReadAgrees` | `IdbFileProofs` | - |
| `SyncSaves`: `Spec => SyncOkMeansSaved` | `IdbFileProofs` | the size can be stored and, for a journal, its page can |
| `WritesKeepOthers`: `Spec => WriteLeavesOtherBytes` | `IdbFileProofs` | all pages have one size (`UniformPages`) |
| `FileImplementsContract`: `Spec => FileContract` | `IdbFileProofs` | `ContractAssumption`: no store fails unnoticed; a database has one page size; the pages of a journal can be stored and it is not truncated |
| `TypeCorrect`: `Spec => [](TypeOK /\ NothingUnwritten)` | `SyncQueueProofs` | - |
| `NoRequestForgotten`: `Spec => []RequestsHaveASave` | `SyncQueueProofs` | - |
| `NoConcurrentSyncfs`: `Spec => []OneSyncfsAtATime` | `SyncQueueProofs` | `WaitsForMount` |
| `NothingSavedIsLost`: `Spec => PersistedSurvives` | `SyncQueueProofs` | `WaitsForMount` |
| `DrainCorrect`: `Spec => []DrainedMeansSaved` | `SyncQueueProofs` | `WaitsForMount` |
| `CallbacksCorrect`: `SpecAll => []CallbackInv` | `MountCallbacksProofs` | - |
| `CallbackAppIsPatient`: `SpecAll => ImplementsPatient` | `MountCallbacksProofs` | - |
| `CallbackAppLosesNothing`: `SpecAll => PersistedSurvives` | `MountCallbacksProofs` | - |
| `CallbackAppIsSaved`: `SpecAll => []DrainedMeansSaved` | `MountCallbacksProofs` | - |
| `TypeCorrect`: `Spec => []TypeOK` | `RegularFileProofs` | - |
| `OthersUntouched`: `Spec => OnlyDirtyPagesChange` | `RegularFileProofs` | - |
| `AnswersTrue`: `Spec => [](ReadsLatest /\ SizeIsTrue /\ SyncedIsStored)` | `RegularFileProofs` | - |
| `ReadsAreLatest`: `Spec => []ReadsLatest` | `RegularFileProofs` | - |
| `SizesAreTrue`: `Spec => []SizeIsTrue` | `RegularFileProofs` | - |
| `SnapshotsAreCommitted`: `SpecAll => []SnapshotIsCommitted` | `SnapshotsProofs` | `Patient`: `WaitsForMount`, `WaitsForSaves` and not `SaveFails` |
| `PlayedSound`: what a playback takes from a sound journal are originals | `RollbackJournalProofs` | - |
| `RestoresBase`: a sound playback over a file with every other page restores the database | `RollbackJournalProofs` | - |
| `ChainPlayed`: a playback follows the chain of headers and misses no record | `RollbackJournalProofs` | - |
| `UnsealedPlayed`: a rollback plays also the records behind the last header, whose nRec is 0 | `RollbackJournalProofs` | - |
| `Invariant`: `Spec => []Inv` | `PagerProofs` | `Modes` |
| `TypeCorrect`: `Spec => []TypeOK` | `PagerProofs` | `Modes` |
| `StatementsReadCommits`: `Spec => []ReadsWhatIsCommitted` | `PagerProofs` | `Modes` |
| `RepliesAreTrue`: `Spec => []AnswersAreTrue` | `PagerProofs` | `Modes` |
| `JournalsFirst`: `Spec => OverwrittenOnlyWhenJournaled` | `PagerProofs` | `Modes` |
| `TransactionsAreAtomic`: `Spec => Atomic` | `PagerProofs` | `Modes` |

`Modes` says that connections choose any of `DELETE` and `PERSIST` with any of
`NORMAL` and `FULL`, that of the stores only that of a journal not yet hot may be
torn (`TornStores`), and that the bound `MaxJournal` leaves room for a header and a
record of each page. The number of pages, of transactions and of headers in a
journal is not bounded by it, and spills, failing page stores and kills may happen
or not.

The extra assumptions are needed: `two_page_sizes`, `early_loss`,
`snapshots_impatient`, `pager_truncate` and the configurations `JournalFullDisk`,
`JournalTruncate`, `EarlySyncfs`, `SnapshotsFailedSave`, `PagerOffDelete`,
`PagerOffPersist`, `PagerTornSize` and `PagerTornSpill` are what happens without
them.

*IdbFile.* The inductive invariant is
`IInv == TypeOK /\ DbHasNoJournal /\ CleanMeansSaved`. `DbHasNoJournal` (a
database has no `journal_data`) is what makes the page that `xSync` stores a
journal's and nothing else's. `SyncSaves` is one step from `IInv`: with
`journal_data` the page just stored and the size just stored give the journal
back; without, both sides are the same bytes up to the same size, or the file
was never created and is empty. The clean case is where the invariant is used:
`xSync` did not store the size, and it need not have. `ReadsAgree` compares the
cells of a range with those of the page that the call's length selects
(`DbReadAgrees`). `WritesKeepOthers` is about numbers: with
one page size two aligned writes are the same page or disjoint
(`DisjointPages`).

*The refinement.* `ContractStep` says that a step of `IdbFile` from `IInv` and
`SizesInv` is a step of `VfsFile` or a stutter. `SizesInv` (no size beyond
`MaxSize`) is needed since `VfsFile` bounds its files too. The bytes of the
abstract file are cells of pages (`CellIn`); each VFS call has a lemma that says
which cells it leaves alone and what it puts into the others, and every fault or
kill maps to the weakened outcome that `VfsFile` allows for that call. For a
journal `LoadedIn` says that what a later open loads is a prefix of what page
`"0"` holds.

*SyncQueue.* `QueueInv` (at most one save, and one exactly when the counter is
positive) is inductive with `TypeOK`, whatever the application does. So is
`NothingUnwritten`: only a write makes a version, and a save, a populating or a
reload puts each file's version where another copy of it was (`UnwrittenStep`). `MountInv`
says what a patient application has not done yet: before the mount MEMFS is empty
and no save runs, which keeps the first save apart from populating.
`PersistedSurvives` needs a chain of three: `FilesInv` says that IndexedDB is
succeeded by the running save's files, and those by MEMFS, where a file may be
missing only if its removal is on record, and no version is from the future.
Each action moves one link and must keep the other: writing and removing move
MEMFS, `SaveReads` moves the middle, `SaveDone` makes the middle the new
IndexedDB and MEMFS the new middle. `DrainedMeansSaved` needs `DrainInv`: a last
request is answered by a save that began after it, whose files are those of MEMFS
except where a file was touched since.

*MountCallbacks.* From `CalledWhenMounted` each step of the application is a step
of the patient `SyncQueue`. The safety theorems of `SyncQueue` are stated over
`PatientStep`, a step of `Next` that makes no call before the mount, rather than
over `WaitsForMount`; that is how `MountCallbacksProofs` gets the two of them
without the assumption. `CallbackInv` is inductive as it stands; `AppendFacts`
and `TailFacts` say what a move between the two sequences keeps.

*RegularFile.* `StreamInv` says that a buffered page is one of the dirty pages, at
the position of the stream, and that only an open stream has one: so whatever a
flush does, it does to a dirty page. `TrueInv` says that, while nothing is lost,
the file with the buffer flushed into it is the file as written, and that the
buffer is empty after `xFileSize`, which is when `pager_truncate` truncates.

*Snapshots.* The files are few facts at a time: `PatientInv` is what `SyncQueue`'s
invariants say of an application that waits for the mount, and `Typed` that
every version has contents. `SnapshotInv` adds where the application is. While it
makes no call (`QuietInv`), the files, or the last save that listed them, hold a
committed database, and whatever the next save may store (`WillStore`) is one. In
the middle of a turn the invariant goes through the stages of the call, from
`BeforeOld`, where IndexedDB has the old database and no save has the new pages
without the journal, to `Ending`, where only the deletion of the journal is left.
A save that listed the journal and reads its files when it is gone changes
nothing, which is why the first save of a commit is harmless.

*The rollback journal.* What a playback takes is a recursive function of the
place of the header. That the recursion has a value at all, and what it is
contained in and contains, is an induction over places, which the provers cannot
take from the library's induction theorems; it is done here in the form of sets,
by the least place at which a statement fails (`Least`, from
`FS_StrictSubsetOrderingWellFounded` of the library). `Sound` says that every
whole record with the seed of its journal holds the original of its page, and
gives `PlayedSound`. `Chained` (each header but the last counts the records up to
the next) and `Unsealed` (the last header's count is still 0) say that nothing is
missed, and give `ChainPlayed` and `UnsealedPlayed`. `RestoresBase` puts the two
halves together. The lemmas after them say what each write of the pager does to
these predicates: the first header (`BeginJournal`), a record (`AppendRecord`),
the zero over a stale header (`ZeroNextHeader`), the count (`SealHeader`), a
second header (`AppendHeader`), the zeroed header of `PERSIST`
(`ZeroFirstHeader`).

*Pager.* `Inv` has four parts. `FilesInv` is what a crash relies on: the files hold
the committed database `recovered` in one of two ways, either they are it
(`Clean`), or a playback of the stored journal makes it of them (`Hot`).
`HandlesInv` says what a handle knows of its file; a clean handle has the stored
size. `Phase` is where the pager is. A function of the pager is the list of calls it
still has to make, so the invariant says for each list that `calls` can be what the
journal, the files and the cache hold at that point: `IdleInv` between two functions;
`OpeningInv`, `RecordingInv` and `SyncingInv` for the journal; `SpillingInv` and
`CommittingInv` for the writes to the database; `UndoInv` for a playback, of a
`ROLLBACK` or of a hot journal; `SharedLockInv` and `UnlockInv`. That a recovery finds the database after a kill
follows from `FilesInv` alone; that `FilesInv` survives the next write to the database
does not, and this is what the rest is for: it must be known which originals are
already *stored* and not only in `journal_data`. `Safe` says that the stored journal
holds the headers and records before `h`, and that only pages recorded there may
differ in the database. `SafeOverwritten` is what a write to the database does to it,
`SafeStored` and `SafeSynced` what an `xSync` of the journal does, and `SafePlayed`
says that a playback restores the pages so recorded. `Unsynced` and `ModeInv` tie the
cache to it: a journalled page that needs no sync is in a sealed section.

There is a lemma for each call of each function (`SyncMagic` is the `xWrite` of nRec,
`CommitWrite` that of a page, `JournalEnds` the end of a journal by `DELETE` or
`PERSIST`), over the lemmas of `PagerJournalProofs` that say what one call does to one
file, done, failed or killed (`DbWrite`, `JournalTorn`, ...) and those of
`RollbackJournalProofs` for the contents of the journal. Each proves two things of
its step: that `Inv` holds again, and that the step is one of `Transactions` or a
stutter (`Refined`); `Steps` collects them. `JournalEnds` is the only one where
`recovered` changes: the commit point is the `xDelete` of the journal or the zero
over its header reaching the disk, and an `xDelete` killed between its unlinks is on
one side of it or the other. `Journaled` reads `OverwrittenOnlyWhenJournaled` off the
phases that have a page to write.

*Model-checked only.* The liveness properties `SyncedIsSaved`, `CommitIsSaved` and
`GivenIsCalled`, which the prover does not handle. Two definitions are recursive
functions, `TakenFrom` of `RollbackJournal` and the digits of `LeadingDigits` in
`IdbFile`; of `LeadingDigits` the proofs use only that what is left of a size is not
larger.

## 5. What the models leave out

- The bytes' meaning: pages and records are short strings of 0 and 1, or one
  cell.
- `xLock`, `xUnlock`, `xCheckReservedLock`, `xFileControl`, `xSectorSize`,
  `xDeviceCharacteristics`: they change nothing. That the locks do nothing is why
  the models have one connection; two of them cache `file_size` apart, and the
  README asks for one. `xFullPathname` only spells names.
- `mkdir` and `rmdir`: a directory without files and no directory are the same
  to every call modelled.
- Integer widths: sizes are far from 2^31 in the cases the models are about.
- Two writes of a file within one tick of the mtime clock.
- Power failures natively: the models' crash is the end of the process, after
  which the operating system still has what `fclose` gave it. `IdbPage::store`
  never calls `fsync`.
- Of SQLite's pager: WAL, super-journals, savepoints, auto-vacuum,
  `locking_mode=EXCLUSIVE`, in-memory journals, and an `xSync` or an `xOpen` that
  fails.
- A transaction that makes the database smaller: `VACUUM` leaves the pages beyond
  the new end in the file until the commit is over and truncates it then
  (`pager_end_transaction`, `sqlite3.c` 59244-59253). The model's image never
  shrinks; what the `xTruncate` does to the file is in `IdbFile`, where it may come
  at any time. Since it follows the last `xSync`, the smaller size is stored only
  by the next transaction; SQLite goes by the page count in the header until then.
- Pages the b-tree has freed (`PGHDR_DONT_WRITE`): SQLite does not write them
  (61552), and grows the file with `xTruncate` when the last page is one
  (63744-63749). The model's b-tree frees nothing, so each dirty page is written.
  The page file that is missing then is in `IdbFile`, as a gap.
- The rest of SQLite and its shell: third-party code of more than 260,000 lines
  that never calls idbvfs but through the pager. Nothing of the VFS depends on it,
  and it is by far the largest part of the repository, which is why most of the
  repository's lines are not behind any definition.
- The demo (an example application: `run_sql` keeps `isRunningSql` set when an
  open fails), the tests and the build files.

## 6. How to run

    tlc -config Db.cfg MCIdbFile.tla          # Journal, FullDisk, TwoPageSizes, ...
    tlc -config Pager.cfg MCPager.tla         # PagerTruncate, PagerOffDelete, ...
    tlc -config SyncQueue.cfg SyncQueue.tla   # EarlySyncfs, EarlyLoss
    tlc -config Snapshots.cfg Snapshots.tla   # SnapshotsImpatient, SnapshotsFailedSave
    tlc -config MountCallbacks.cfg MountCallbacks.tla   # CallbackNotAsync
    tlc -config RegularFile.cfg RegularFile.tla
    tlapm IdbFileProofs.tla                   # SyncQueueProofs, MountCallbacksProofs,
                                              # SnapshotsProofs, RegularFileProofs,
                                              # RollbackJournalProofs,
                                              # PagerJournalProofs, PagerProofs

`PROJECT.json` gives the module and the configuration of every run. `pager` is the
longest, about two minutes with two workers. `PagerJournalProofs` and
`PagerProofs` take some ten minutes each.

Definitions whose comment begins with "Mutant" are listed there with the property
that TLC finds violated when they take the place of the definition below them.

## 7. What remains

1. Two connections to one file, to say exactly what the README's request for one
   protects from.
2. Savepoints and WAL in the pager (idbvfs has no shared memory methods, so WAL
   would need `locking_mode=EXCLUSIVE`).
