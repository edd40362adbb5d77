----------------------------- MODULE SyncQueue -----------------------------
(***************************************************************************)
(* How the page files reach IndexedDB.  idbvfs_register mounts IDBFS on    *)
(* /idbvfs, starts the FS.syncfs(true) that populates it, and installs     *)
(* Module.idbvfsSyncfs, which every xSync calls: a counter of requests,    *)
(* syncQueue, that keeps one FS.syncfs(false) running while it is above 0. *)
(*                                                                         *)
(* FS.syncfs and IDBFS are Emscripten's.  A save lists the files of MEMFS  *)
(* when it is called, learns later what IndexedDB holds, reads then the    *)
(* files that differ, and stores them and deletes the unlisted ones in one *)
(* transaction; its callback runs after that.  Populating works the other  *)
(* way round.  A file is abstracted to a version, the value of a clock     *)
(* when it was written, which stands for its contents and its mtime.       *)
(*                                                                         *)
(* The page can be closed or reloaded at any time; only IndexedDB remains. *)
(***************************************************************************)
EXTENDS Integers, Sequences

CONSTANTS
    Files,          \* the page files, "file_size" included, of all databases
    Absent,         \* the version of a file that does not exist
    MaxClock,       \* bound on the writes of a behaviour
    MaxQueue,       \* bound on syncQueue
    WaitsForMount,  \* does the application wait for idbvfs_is_mounted?
    SaveFails,      \* may IndexedDB refuse a save?
    PopulateFails   \* may populating fail?

ASSUME BoundsAssumption == MaxClock \in Nat /\ MaxQueue \in Nat \ {0}
ASSUME AbsentAssumption == Absent \notin Nat
ASSUME SwitchesAssumption == {WaitsForMount, SaveFails, PopulateFails} \subseteq BOOLEAN

VARIABLES
    mem,         \* the files in MEMFS
    idb,         \* the files in IndexedDB
    registered,  \* is Module.idbvfsSyncfs defined?
    mounted,     \* Module.isIdbvfsMounted
    populating,  \* the FS.syncfs(true) in flight: at most one
    syncQueue,   \* the counter of idbvfsSyncfs
    saves,       \* the FS.syncfs(false) in flight, oldest first
    clock,       \* the last version written
    touched,     \* history: files changed since the last xSync
    removed,     \* history: per file, the last version the application removed
    last_save_ok \* history: what the last save reported, which nobody looks at

browser == <<mem, registered, mounted, populating, syncQueue, saves>>
history == <<touched, removed, last_save_ok>>
vars    == <<browser, idb, clock, history>>

Version == 1..MaxClock
Listing == [Files -> Version \cup {Absent}]

NoListing == [kind |-> "none"]
Populate(files) == [kind |-> "populate", files |-> files]

\* phase "listed": files is what MEMFS held when FS.syncfs was called;
\* phase "stored": files is what IndexedDB will hold after the transaction.
Save(phase, files, ok) == [phase |-> phase, files |-> files, ok |-> ok]

Empty == [f \in Files |-> Absent]

-----------------------------------------------------------------------------

Init == /\ mem = Empty /\ idb = Empty
        /\ registered = FALSE /\ mounted = FALSE /\ populating = NoListing
        /\ syncQueue = 0 /\ saves = << >> /\ clock = 0
        /\ touched = {} /\ removed = [f \in Files |-> 0] /\ last_save_ok = TRUE

\* Mutant: mounted as soon as FS.syncfs is called.
RegisterMounts ==
    /\ ~registered
    /\ registered' = TRUE /\ populating' = Populate(mem) /\ mounted' = TRUE
    /\ UNCHANGED <<mem, syncQueue, saves, idb, clock, history>>

\* idbvfs_register; a second call finds Module.idbvfsSyncfs and does nothing.
Register ==
    /\ ~registered
    /\ registered' = TRUE /\ populating' = Populate(mem)
    /\ UNCHANGED <<mem, mounted, syncQueue, saves, idb, clock, history>>

-----------------------------------------------------------------------------
(* The application, through SQLite.                                        *)

CanUse == registered /\ (WaitsForMount => mounted)

\* IdbPage::store
Write(f) ==
    /\ CanUse /\ clock < MaxClock
    /\ clock' = clock + 1
    /\ mem' = [mem EXCEPT ![f] = clock']
    /\ touched' = touched \cup {f}
    /\ UNCHANGED <<registered, mounted, populating, syncQueue, saves, idb,
                   removed, last_save_ok>>

\* IdbPage::remove
Remove(f) ==
    /\ CanUse /\ mem[f] # Absent
    /\ mem' = [mem EXCEPT ![f] = Absent]
    /\ removed' = [removed EXCEPT ![f] = mem[f]]
    /\ touched' = touched \cup {f}
    /\ UNCHANGED <<registered, mounted, populating, syncQueue, saves, idb, clock,
                   last_save_ok>>

\* doSync: FS.syncfs(false, ...) lists the files at once.
DoSync(running) == saves' = Append(running, Save("listed", mem, TRUE))

\* Mutants: no queue, and a queue that counts one request while a save runs.
IdbvfsSyncfsAtOnce ==
    /\ CanUse /\ syncQueue < MaxQueue
    /\ syncQueue' = syncQueue + 1
    /\ DoSync(saves)
    /\ touched' = {}
    /\ UNCHANGED <<mem, registered, mounted, populating, idb, clock, removed,
                   last_save_ok>>

IdbvfsSyncfsOnce ==
    /\ CanUse /\ syncQueue' = 1
    /\ IF syncQueue = 0 THEN DoSync(saves) ELSE saves' = saves
    /\ touched' = {}
    /\ UNCHANGED <<mem, registered, mounted, populating, idb, clock, removed,
                   last_save_ok>>

\* Module.idbvfsSyncfs, called by xSync
IdbvfsSyncfs ==
    /\ CanUse /\ syncQueue < MaxQueue
    /\ syncQueue' = syncQueue + 1
    /\ IF syncQueue' = 1 THEN DoSync(saves) ELSE saves' = saves
    /\ touched' = {}
    /\ UNCHANGED <<mem, registered, mounted, populating, idb, clock, removed,
                   last_save_ok>>

-----------------------------------------------------------------------------
(* FS.syncfs(false)                                                        *)

\* What IndexedDB holds after a save of the files listed: the files that
\* differ are read from MEMFS now, the unlisted ones deleted.  A file gone
\* from MEMFS meanwhile is an error, and the other files are stored.
Reconciled(listed) ==
    [f \in Files |-> IF listed[f] \in {Absent, idb[f]} THEN listed[f]
                     ELSE IF mem[f] = Absent THEN idb[f] ELSE mem[f]]

AllReadable(listed) ==
    \A f \in Files : listed[f] \notin {Absent, idb[f]} => mem[f] # Absent

SaveReads ==
    /\ saves # << >> /\ Head(saves).phase = "listed"
    /\ LET listed == Head(saves).files
       IN  saves' = <<Save("stored", Reconciled(listed), AllReadable(listed))>> \o Tail(saves)
    /\ UNCHANGED <<mem, registered, mounted, populating, syncQueue, idb, clock, history>>

\* Mutants of the callback: run twice, off by one, and without the next save.
SyncCallbackTwice ==
    /\ syncQueue' = syncQueue - 2
    /\ IF syncQueue' > 0 THEN DoSync(Tail(saves)) ELSE saves' = Tail(saves)
    /\ UNCHANGED <<mem, registered, mounted, populating, clock, touched, removed>>

SyncCallbackOffByOne ==
    /\ syncQueue' = syncQueue - 1
    /\ IF syncQueue' > 1 THEN DoSync(Tail(saves)) ELSE saves' = Tail(saves)
    /\ UNCHANGED <<mem, registered, mounted, populating, clock, touched, removed>>

SyncCallbackStops ==
    /\ syncQueue' = syncQueue - 1
    /\ saves' = Tail(saves)
    /\ UNCHANGED <<mem, registered, mounted, populating, clock, touched, removed>>

\* The callback of doSync takes no argument: an error counts as a save.
SyncCallback ==
    /\ syncQueue' = syncQueue - 1
    /\ IF syncQueue' > 0 THEN DoSync(Tail(saves)) ELSE saves' = Tail(saves)
    /\ UNCHANGED <<mem, registered, mounted, populating, clock, touched, removed>>

\* IndexedDB runs the transactions on one store in the order of their start,
\* and populating was there first.
Storing == saves # << >> /\ Head(saves).phase = "stored" /\ populating = NoListing

SaveDone == /\ Storing
            /\ idb' = Head(saves).files
            /\ last_save_ok' = Head(saves).ok
            /\ SyncCallback

SaveError == /\ SaveFails /\ saves # << >>
             /\ idb' = idb
             /\ last_save_ok' = FALSE
             /\ SyncCallback

-----------------------------------------------------------------------------
(* FS.syncfs(true)                                                         *)

\* Files that IndexedDB lacks go, if they were listed; files that differ
\* from the listing come from IndexedDB.
PopulateDone ==
    /\ populating # NoListing
    /\ mem' = [f \in Files |-> IF populating.files[f] = idb[f] THEN mem[f] ELSE idb[f]]
    /\ mounted' = TRUE /\ populating' = NoListing
    /\ UNCHANGED <<registered, syncQueue, saves, idb, clock, history>>

\* The error is logged; nothing sets isIdbvfsMounted later.
PopulateError ==
    /\ PopulateFails /\ populating # NoListing
    /\ populating' = NoListing
    /\ UNCHANGED <<mem, registered, mounted, syncQueue, saves, idb, clock, history>>

-----------------------------------------------------------------------------

\* The page goes away; a transaction it had started may still complete.
Reload ==
    /\ registered
    /\ idb' \in {idb} \cup (IF Storing THEN {Head(saves).files} ELSE {})
    /\ mem' = Empty /\ registered' = FALSE /\ mounted' = FALSE
    /\ populating' = NoListing /\ syncQueue' = 0 /\ saves' = << >>
    /\ touched' = {} /\ removed' = [f \in Files |-> 0] /\ last_save_ok' = TRUE
    /\ UNCHANGED clock

Next == \/ Register \/ IdbvfsSyncfs \/ SaveReads \/ SaveDone \/ SaveError
        \/ PopulateDone \/ PopulateError \/ Reload
        \/ \E f \in Files : Write(f) \/ Remove(f)

\* The browser runs every callback that is due.
Fairness == WF_vars(SaveReads) /\ WF_vars(SaveDone) /\ WF_vars(PopulateDone)

Spec == Init /\ [][Next]_vars /\ Fairness

-----------------------------------------------------------------------------

TypeOK ==
    /\ mem \in Listing /\ idb \in Listing
    /\ registered \in BOOLEAN /\ mounted \in BOOLEAN
    /\ populating \in {NoListing} \cup {Populate(l) : l \in Listing}
    /\ syncQueue \in 0..MaxQueue
    /\ saves \in Seq([phase : {"listed", "stored"}, files : Listing, ok : BOOLEAN])
    /\ clock \in 0..MaxClock
    /\ touched \subseteq Files /\ removed \in [Files -> 0..MaxClock]
    /\ last_save_ok \in BOOLEAN

\* syncQueue counts the requests a running save has not answered: it is above
\* 0 exactly when a save is running, so that no request is forgotten and the
\* counter never sticks.
RequestsHaveASave == (syncQueue > 0) = (saves # << >>)

\* "Run FS.syncfs in a queue, to avoid concurrent execution errors": never are
\* two FS.syncfs in flight.
OneSyncfsAtATime ==
    Len(saves) + (IF populating = NoListing THEN 0 ELSE 1) <= 1

\* When the queue has drained and the last save went well, IndexedDB holds
\* every file as it was at the last xSync, unless it changed since.
DrainedMeansSaved ==
    mounted /\ syncQueue = 0 /\ last_save_ok =>
        \A f \in Files \ touched : idb[f] = mem[f]

\* What IndexedDB holds of a file is never lost or replaced by something
\* older, unless the application removed that version itself.
PersistedSurvives ==
    [][\A f \in Files : idb[f] # Absent =>
         IF idb'[f] = Absent THEN removed[f] >= idb[f] ELSE idb'[f] >= idb[f]]_vars

\* A file that has been synced is saved in the end, if it is not changed
\* again, the page stays, and no save fails.
SyncedIsSaved ==
    \A f \in Files, v \in Version \cup {Absent} :
        (mounted /\ f \notin touched /\ mem[f] = v)
          ~> (idb[f] = v \/ mem[f] # v \/ ~mounted \/ ~last_save_ok)

-----------------------------------------------------------------------------
(* The inductive invariants behind RequestsHaveASave, OneSyncfsAtATime,    *)
(* PersistedSurvives and DrainedMeansSaved.                                *)

QueueInv == Len(saves) <= 1 /\ RequestsHaveASave

\* Before it has registered, and before it knows the files are there, a
\* patient application has started nothing.
MountInv ==
    /\ ~registered => ~mounted /\ populating = NoListing /\ saves = << >>
    /\ mounted => populating = NoListing
    /\ ~mounted => saves = << >> /\ mem = Empty
    /\ populating # NoListing => populating.files = mem

\* Nothing of old is missing in new, or older there, unless it was removed.
Succeeds(new, old, gone) ==
    \A f \in Files : old[f] # Absent =>
        IF new[f] = Absent THEN gone[f] >= old[f] ELSE new[f] >= old[f]

NotAfter(files, time) == \A f \in Files : files[f] # Absent => files[f] <= time

Saving == Head(saves).files

FilesInv ==
    /\ NotAfter(mem, clock) /\ NotAfter(idb, clock)
    /\ mounted => Succeeds(mem, idb, removed)
    /\ saves # << >> => /\ NotAfter(Saving, clock)
                        /\ Succeeds(mem, Saving, removed)
                        /\ Succeeds(Saving, idb, removed)

PatientInv == TypeOK /\ QueueInv /\ MountInv /\ FilesInv

\* A last request is answered by a save that began after it: what this save
\* lists or stores of a file is what MEMFS holds, unless it changed since.
DrainInv ==
    /\ syncQueue = 1 => \A f \in Files \ touched : Saving[f] = mem[f]
    /\ DrainedMeansSaved
=============================================================================
