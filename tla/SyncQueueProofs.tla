-------------------------- MODULE SyncQueueProofs --------------------------
(***************************************************************************)
(* Theorems about SyncQueue for every set of files and every bound,        *)
(* whatever fails and whenever the page is closed.                         *)
(***************************************************************************)
EXTENDS SyncQueue, SequenceTheorems, TLAPS

SaveType == [phase : {"listed", "stored"}, files : Listing, ok : BOOLEAN]

\* The fields of a save.
LEMMA SaveIsTyped ==
    ASSUME NEW phase \in {"listed", "stored"}, NEW files \in Listing, NEW ok \in BOOLEAN
    PROVE  /\ Save(phase, files, ok) \in SaveType
           /\ Save(phase, files, ok).phase = phase
           /\ Save(phase, files, ok).files = files
           /\ Save(phase, files, ok).ok = ok
BY DEF Save, SaveType

\* With at most one save, the queue is empty or it is its head.
LEMMA OneSave ==
    ASSUME TypeOK, QueueInv, saves # << >>
    PROVE  Head(saves) \in SaveType /\ Tail(saves) = << >>
<1>1. saves \in Seq(SaveType) /\ Len(saves) <= 1
  BY DEF TypeOK, QueueInv, SaveType
<1>2. Len(saves) \in Nat \ {0}
  BY <1>1, EmptySeq
<1>3. /\ Head(saves) \in SaveType /\ Tail(saves) \in Seq(SaveType)
      /\ Len(Tail(saves)) = Len(saves) - 1
  BY <1>1, HeadTailProperties
<1>4. Len(Tail(saves)) = 0
  BY <1>1, <1>2, <1>3
<1> QED  BY <1>3, <1>4, EmptySeq

\* A queue of one save.
LEMMA Singleton ==
    ASSUME NEW save \in SaveType
    PROVE  /\ Append(<< >>, save) = <<save>> /\ <<save>> \o << >> = <<save>>
           /\ <<save>> \in Seq(SaveType) /\ Len(<<save>>) = 1
           /\ <<save>> # << >> /\ Head(<<save>>) = save
OBVIOUS

\* A queue of no save.
LEMMA NoSaves == << >> \in Seq(SaveType) /\ Len(<< >>) = 0
OBVIOUS

\* No file at all is a listing.
LEMMA EmptyIsListing == Empty \in Listing
BY DEF Empty, Listing

\* What a save stores is a listing.
LEMMA ReconciledIsListing ==
    ASSUME TypeOK, NEW listed \in Listing
    PROVE  Reconciled(listed) \in Listing
BY DEF TypeOK, Reconciled, Listing

-----------------------------------------------------------------------------
(* The queue.                                                              *)

QueueTyped == TypeOK /\ QueueInv

\* The queue is empty and typed at the start.
LEMMA QueueInit == Init => QueueTyped
<1> SUFFICES ASSUME Init PROVE QueueTyped
  OBVIOUS
<1>1. saves \in Seq(SaveType) /\ Len(saves) = 0 /\ QueueInv
  BY NoSaves DEF Init, QueueInv, RequestsHaveASave
<1>2. mem \in Listing /\ idb \in Listing
  BY EmptyIsListing DEF Init
<1>3. syncQueue \in 0..MaxQueue /\ clock \in 0..MaxClock /\ removed \in [Files -> 0..MaxClock]
  BY BoundsAssumption DEF Init
<1> QED  BY <1>1, <1>2, <1>3 DEF Init, QueueTyped, TypeOK, SaveType

\* What a step that starts, ends or keeps a save does to the queue.
LEMMA SavesAfter ==
    ASSUME QueueTyped, [Next]_vars
    PROVE  /\ saves' \in Seq(SaveType) /\ Len(saves') <= 1
           /\ syncQueue' \in 0..MaxQueue /\ (syncQueue' > 0) = (saves' # << >>)
<1> USE DEF QueueTyped
<1>0. saves \in Seq(SaveType) /\ syncQueue \in 0..MaxQueue /\ mem \in Listing
  BY DEF TypeOK, SaveType
<1> DEFINE fresh == Save("listed", mem, TRUE)
<1>1. /\ fresh \in SaveType /\ <<fresh>> \in Seq(SaveType) /\ Len(<<fresh>>) = 1
      /\ <<fresh>> # << >> /\ Append(<< >>, fresh) = <<fresh>>
  <2>1. fresh \in SaveType
    BY <1>0, SaveIsTyped
  <2> HIDE DEF fresh
  <2> QED  BY <2>1, Singleton
<1>2. CASE UNCHANGED <<syncQueue, saves>>
  BY <1>0, <1>2 DEF QueueInv, RequestsHaveASave
<1>3. CASE IdbvfsSyncfs
  <2>1. syncQueue' = syncQueue + 1 /\ syncQueue' \in 0..MaxQueue
    BY <1>0, <1>3, BoundsAssumption DEF IdbvfsSyncfs
  <2>2. CASE syncQueue = 0
    <3>1. saves = << >>
      BY <2>2 DEF QueueInv, RequestsHaveASave
    <3>2. saves' = Append(saves, fresh)
      <4>1. syncQueue' = 1
        BY <2>1, <2>2
      <4> QED  BY <1>3, <4>1 DEF IdbvfsSyncfs, DoSync
    <3>3. saves' = <<fresh>>
      BY <1>1, <3>1, <3>2
    <3> HIDE DEF fresh
    <3>4. (syncQueue' > 0) = TRUE /\ (saves' # << >>) = TRUE
      BY <1>1, <2>1, <2>2, <3>3
    <3> QED  BY <1>1, <2>1, <3>3, <3>4
  <2>3. CASE syncQueue > 0
    <3>1. saves' = saves
      BY <1>0, <1>3, <2>1, <2>3 DEF IdbvfsSyncfs
    <3> QED  BY <1>0, <2>1, <2>3, <3>1 DEF QueueInv, RequestsHaveASave
  <2> QED  BY <1>0, <2>2, <2>3
<1>4. CASE SaveReads
  <2>1. saves # << >> /\ Head(saves) \in SaveType /\ Tail(saves) = << >>
    BY <1>4, OneSave DEF SaveReads
  <2> DEFINE listed == Head(saves).files
             save == Save("stored", Reconciled(listed), AllReadable(listed))
  <2>2. save \in SaveType
    BY <2>1, ReconciledIsListing, SaveIsTyped DEF SaveType, AllReadable
  <2>3. saves' = <<save>>
    BY <1>4, <2>1, <2>2, Singleton DEF SaveReads
  <2>4. syncQueue' = syncQueue
    BY <1>4 DEF SaveReads
  <2> HIDE DEF save
  <2> QED
    BY <1>0, <2>1, <2>2, <2>3, <2>4, Singleton DEF QueueInv, RequestsHaveASave
<1>5. CASE saves # << >> /\ SyncCallback
  <2>1. Tail(saves) = << >> /\ syncQueue > 0
    BY <1>5, OneSave DEF QueueInv, RequestsHaveASave
  <2>2. syncQueue' = syncQueue - 1 /\ syncQueue' \in 0..MaxQueue
    BY <1>0, <1>5, <2>1, BoundsAssumption DEF SyncCallback
  <2>3. saves' = IF syncQueue' > 0 THEN <<fresh>> ELSE << >>
    BY <1>1, <1>5, <2>1 DEF SyncCallback, DoSync
  <2> HIDE DEF fresh
  <2>4. CASE syncQueue' > 0
    BY <1>1, <2>2, <2>3, <2>4
  <2>5. CASE ~(syncQueue' > 0)
    BY <2>2, <2>3, <2>5, NoSaves
  <2> QED  BY <2>4, <2>5
<1>6. CASE Reload
  BY <1>6, NoSaves, BoundsAssumption DEF Reload
<1> QED
  BY <1>2, <1>3, <1>4, <1>5, <1>6
  DEF Next, vars, browser, Register, SaveDone, SaveError, Storing, PopulateDone,
      PopulateError, Write, Remove

\* Every step keeps the types and the queue.
LEMMA QueueStep == QueueTyped /\ [Next]_vars => QueueTyped'
<1> SUFFICES ASSUME QueueTyped, [Next]_vars PROVE QueueTyped'
  OBVIOUS
<1>1. saves' \in Seq(SaveType) /\ syncQueue' \in 0..MaxQueue /\ QueueInv'
  BY SavesAfter DEF QueueInv, RequestsHaveASave
<1>2. mem' \in Listing
  <2>1. ASSUME NEW f \in Files, Write(f) PROVE mem' \in Listing
    BY <2>1, BoundsAssumption DEF QueueTyped, TypeOK, Write, Listing, Version
  <2>2. ASSUME NEW f \in Files, Remove(f) PROVE mem' \in Listing
    BY <2>2 DEF QueueTyped, TypeOK, Remove, Listing
  <2>3. CASE PopulateDone
    BY <2>3 DEF QueueTyped, TypeOK, PopulateDone, Listing
  <2>4. CASE Reload
    BY <2>4, EmptyIsListing DEF Reload
  <2>5. CASE mem' = mem
    BY <2>5 DEF QueueTyped, TypeOK
  <2> QED
    BY <2>1, <2>2, <2>3, <2>4, <2>5
    DEF Next, vars, browser, Register, IdbvfsSyncfs, SaveReads, SaveDone, SaveError,
        SyncCallback, PopulateError
<1>3. idb' \in Listing
  <2>1. ASSUME saves # << >> PROVE Head(saves).files \in Listing
    BY <2>1, OneSave DEF QueueTyped, SaveType
  <2>2. idb' = idb \/ (saves # << >> /\ idb' = Head(saves).files)
    BY DEF Next, vars, Register, IdbvfsSyncfs, SaveReads, SaveDone, SaveError, Storing,
           PopulateDone, PopulateError, Write, Remove, Reload
  <2> QED  BY <2>1, <2>2 DEF QueueTyped, TypeOK
<1>4. populating' \in {NoListing} \cup {Populate(l) : l \in Listing}
  BY DEF QueueTyped, TypeOK, Next, vars, browser, Register, IdbvfsSyncfs, SaveReads,
         SaveDone, SaveError, SyncCallback, PopulateDone, PopulateError, Write, Remove,
         Reload
<1>5. registered' \in BOOLEAN /\ mounted' \in BOOLEAN
  BY DEF QueueTyped, TypeOK, Next, vars, browser, Register, IdbvfsSyncfs, SaveReads,
         SaveDone, SaveError, SyncCallback, PopulateDone, PopulateError, Write, Remove,
         Reload
<1>8. clock' \in 0..MaxClock
  <2>1. ASSUME NEW f \in Files, Write(f) PROVE clock' \in 0..MaxClock
    BY <2>1, BoundsAssumption DEF QueueTyped, TypeOK, Write
  <2>2. clock' = clock \/ \E f \in Files : Write(f)
    BY DEF Next, vars, Register, IdbvfsSyncfs, SaveReads, SaveDone, SaveError,
           SyncCallback, PopulateDone, PopulateError, Remove, Reload
  <2> QED  BY <2>1, <2>2 DEF QueueTyped, TypeOK
<1>6. touched' \subseteq Files /\ removed' \in [Files -> 0..MaxClock]
  <2>1. ASSUME NEW f \in Files, Remove(f)
        PROVE  touched' \subseteq Files /\ removed' \in [Files -> 0..MaxClock]
    BY <2>1, BoundsAssumption DEF QueueTyped, TypeOK, Remove, Listing, Version
  <2>2. CASE Reload
    BY <2>2, BoundsAssumption DEF Reload
  <2> QED
    BY <2>1, <2>2
    DEF QueueTyped, TypeOK, Next, vars, history, Register, IdbvfsSyncfs, SaveReads,
        SaveDone, SaveError, SyncCallback, PopulateDone, PopulateError, Write
<1>7. last_save_ok' \in BOOLEAN
  <2>1. ASSUME saves # << >> PROVE Head(saves).ok \in BOOLEAN
    BY <2>1, OneSave DEF QueueTyped, SaveType
  <2> QED
    BY <2>1
    DEF QueueTyped, TypeOK, Next, vars, history, Register, IdbvfsSyncfs, SaveReads,
        SaveDone, SaveError, Storing, PopulateDone, PopulateError, Write, Remove,
        Reload
<1> QED
  BY <1>1, <1>2, <1>3, <1>4, <1>5, <1>6, <1>7, <1>8 DEF QueueTyped, TypeOK, SaveType

\* The types and the queue's invariant always hold.
LEMMA QueueCorrect == Spec => []QueueTyped
BY QueueInit, QueueStep, PTL DEF Spec

\* A request is outstanding exactly when a save is running: no xSync is
\* forgotten and the counter never sticks, however the saves end.
THEOREM NoRequestForgotten == Spec => []RequestsHaveASave
<1>1. QueueTyped => RequestsHaveASave
  BY DEF QueueTyped, QueueInv
<1> QED  BY <1>1, QueueCorrect, PTL

-----------------------------------------------------------------------------
(* An application that waits for the mount.                                *)

\* A step that makes no call before the mount.
PatientStep ==
    \/ mounted /\ (IdbvfsSyncfs \/ \E f \in Files : Write(f) \/ Remove(f))
    \/ Register \/ SaveReads \/ SaveDone \/ SaveError \/ PopulateDone \/ PopulateError
    \/ Reload \/ UNCHANGED vars

\* Such a step is one of Next.
LEMMA PatientIsNext == PatientStep => [Next]_vars
BY DEF PatientStep, Next

\* The steps of an application that waits for the mount.
LEMMA WaitingIsPatient == WaitsForMount /\ [Next]_vars => PatientStep
BY DEF PatientStep, Next, IdbvfsSyncfs, Write, Remove, CanUse

\* Nothing is mounted at the start.
LEMMA MountInit == Init => MountInv
BY DEF Init, MountInv

\* Every step of a patient application keeps MountInv.
LEMMA MountStep == MountInv /\ PatientStep => MountInv'
<1> SUFFICES ASSUME MountInv, PatientStep PROVE MountInv'
  OBVIOUS
<1>1. CASE Register
  BY <1>1 DEF Register, MountInv, Populate, NoListing, Empty
<1>2. CASE mounted /\ (IdbvfsSyncfs \/ \E f \in Files : Write(f) \/ Remove(f))
  <2>1. UNCHANGED <<registered, mounted, populating>>
    BY <1>2 DEF IdbvfsSyncfs, Write, Remove
  <2>2. registered /\ populating = NoListing
    BY <1>2 DEF MountInv
  <2> QED  BY <1>2, <2>1, <2>2 DEF MountInv
<1>3. CASE SaveReads \/ SaveDone \/ SaveError
  BY <1>3 DEF SaveReads, SaveDone, SaveError, SyncCallback, Storing, MountInv
<1>4. CASE PopulateDone \/ PopulateError
  BY <1>4 DEF PopulateDone, PopulateError, MountInv, Empty
<1>5. CASE Reload
  BY <1>5 DEF Reload, MountInv, Empty
<1>6. CASE UNCHANGED vars
  BY <1>6 DEF vars, browser, MountInv, Empty
<1> QED  BY <1>1, <1>2, <1>3, <1>4, <1>5, <1>6 DEF PatientStep

\* MountInv always holds of a patient application.
LEMMA MountCorrect == ASSUME WaitsForMount PROVE Spec => []MountInv
BY MountInit, MountStep, WaitingIsPatient, PTL DEF Spec

\* With an application that waits for idbvfs_is_mounted, two FS.syncfs are
\* never in flight: the queue keeps the saves apart, the mount the first one
\* from populating.
THEOREM NoConcurrentSyncfs == ASSUME WaitsForMount PROVE Spec => []OneSyncfsAtATime
<1>1. QueueTyped /\ MountInv => OneSyncfsAtATime
  <2> SUFFICES ASSUME QueueTyped, MountInv PROVE OneSyncfsAtATime
    OBVIOUS
  <2>1. Len(saves) \in Nat /\ Len(saves) <= 1 /\ Len(<< >>) = 0
    BY LenProperties, NoSaves DEF QueueTyped, TypeOK, QueueInv
  <2> QED  BY <2>1 DEF MountInv, OneSyncfsAtATime
<1> QED  BY <1>1, QueueCorrect, MountCorrect, PTL

-----------------------------------------------------------------------------
(* Nothing saved is lost.                                                  *)

\* The versions of the typed variables are numbers.
LEMMA ListingFacts ==
    ASSUME TypeOK
    PROVE  /\ mem \in [Files -> Nat \cup {Absent}] /\ idb \in [Files -> Nat \cup {Absent}]
           /\ removed \in [Files -> Nat] /\ clock \in Nat
           /\ \A f \in Files : removed[f] <= MaxClock
BY BoundsAssumption DEF TypeOK, Listing, Version

\* The files of the running save are a listing.
LEMMA SavingFacts ==
    ASSUME QueueTyped, saves # << >>
    PROVE  Saving \in Listing /\ Saving \in [Files -> Nat \cup {Absent}]
<1>1. Saving \in Listing
  BY OneSave DEF QueueTyped, Saving, SaveType
<1> QED  BY <1>1, BoundsAssumption DEF Listing, Version

\* The save that doSync starts lists MEMFS as it is.
LEMMA FreshSave ==
    ASSUME QueueTyped
    PROVE  /\ Append(<< >>, Save("listed", mem, TRUE)) # << >>
           /\ Head(Append(<< >>, Save("listed", mem, TRUE))).files = mem
<1> DEFINE fresh == Save("listed", mem, TRUE)
<1>1. fresh \in SaveType /\ fresh.files = mem
  BY SaveIsTyped DEF QueueTyped, TypeOK
<1> HIDE DEF fresh
<1>2. Append(<< >>, fresh) # << >> /\ Head(Append(<< >>, fresh)).files = mem
  BY <1>1, Singleton
<1> QED  BY <1>2 DEF fresh

\* A step of the queue leaves the save as it was, or starts one of MEMFS as
\* it is, or reconciles the one there is.
LEMMA SavingAfter ==
    ASSUME QueueTyped, [Next]_vars, saves' # << >>
    PROVE  \/ saves # << >> /\ Saving' = Saving
           \/ /\ Saving' = mem /\ mem' = mem /\ removed' = removed /\ clock' = clock
              /\ IdbvfsSyncfs \/ SaveDone \/ SaveError
           \/ /\ SaveReads /\ saves # << >> /\ Saving' = Reconciled(Saving)
<1>1. CASE saves' = saves
  BY <1>1 DEF Saving
<1>2. CASE IdbvfsSyncfs
  <2>1. CASE syncQueue' = 1
    <3>1. saves = << >>
      BY <1>2, <2>1 DEF IdbvfsSyncfs, QueueTyped, TypeOK, QueueInv, RequestsHaveASave
    <3> QED  BY <1>2, <2>1, <3>1, FreshSave DEF IdbvfsSyncfs, DoSync, Saving
  <2>2. CASE syncQueue' # 1
    BY <1>1, <1>2, <2>2 DEF IdbvfsSyncfs
  <2> QED  BY <2>1, <2>2
<1>3. CASE SaveReads
  <2>1. saves # << >> /\ Tail(saves) = << >> /\ Saving \in Listing
    BY <1>3, OneSave, SavingFacts DEF SaveReads, QueueTyped
  <2> DEFINE save == Save("stored", Reconciled(Saving), AllReadable(Saving))
  <2>2. save \in SaveType /\ save.files = Reconciled(Saving)
    BY <2>1, ReconciledIsListing, SaveIsTyped DEF QueueTyped, AllReadable
  <2>3. saves' = <<save>> \o << >>
    BY <1>3, <2>1 DEF SaveReads, Saving
  <2> HIDE DEF save
  <2>4. Head(saves') = save
    BY <2>2, <2>3, Singleton
  <2> QED  BY <1>3, <2>1, <2>2, <2>4 DEF Saving
<1>4. CASE SaveDone \/ SaveError
  <2>1. saves # << >> /\ Tail(saves) = << >>
    BY <1>4, OneSave DEF SaveDone, SaveError, Storing, QueueTyped
  <2>2. saves' = Append(<< >>, Save("listed", mem, TRUE))
    BY <1>4, <2>1 DEF SaveDone, SaveError, SyncCallback, DoSync
  <2> QED  BY <1>4, <2>2, FreshSave DEF SaveDone, SaveError, SyncCallback, Saving
<1> QED
  BY <1>1, <1>2, <1>3, <1>4
  DEF Next, vars, browser, Register, PopulateDone, PopulateError, Write, Remove, Reload

\* FilesInv holds at the start.
LEMMA FilesInit == Init => FilesInv
BY DEF Init, FilesInv, NotAfter, Empty

FileSet == [Files -> Nat \cup {Absent}]

\* Reading the files loses nothing that is saved.
LEMMA ReconciledSucceeds ==
    ASSUME TypeOK, FilesInv, mounted, NEW listed \in FileSet,
           NotAfter(listed, clock), Succeeds(mem, listed, removed),
           Succeeds(listed, idb, removed)
    PROVE  /\ NotAfter(Reconciled(listed), clock)
           /\ Succeeds(mem, Reconciled(listed), removed)
           /\ Succeeds(Reconciled(listed), idb, removed)
BY ListingFacts, AbsentAssumption DEF FilesInv, NotAfter, Succeeds, Reconciled, FileSet

\* Nothing is missing from a listing that is in it.
LEMMA SucceedsItself ==
    ASSUME NEW files \in FileSet, NEW gone PROVE Succeeds(files, files, gone)
BY AbsentAssumption DEF Succeeds, FileSet

\* Writing the next version keeps MEMFS ahead.
LEMMA WriteSucceeds ==
    ASSUME NEW new \in FileSet, NEW old \in FileSet, NEW gone, NEW time \in Nat,
           NEW f \in Files, NotAfter(old, time), Succeeds(new, old, gone)
    PROVE  Succeeds([new EXCEPT ![f] = time + 1], old, gone)
BY AbsentAssumption DEF NotAfter, Succeeds, FileSet

\* Files written by now were written by any later time.
LEMMA LaterClock ==
    ASSUME NEW files \in FileSet, NEW time \in Nat, NotAfter(files, time)
    PROVE  /\ NotAfter(files, time + 1)
           /\ \A f \in Files : NotAfter([files EXCEPT ![f] = time + 1], time + 1)
BY AbsentAssumption DEF NotAfter, FileSet

\* Removing a file accounts for every version before the one removed.
LEMMA RemoveSucceeds ==
    ASSUME NEW new \in FileSet, NEW old \in FileSet, NEW gone \in [Files -> Nat],
           NEW f \in Files, new[f] # Absent, Succeeds(new, old, gone)
    PROVE  Succeeds([new EXCEPT ![f] = Absent], old, [gone EXCEPT ![f] = new[f]])
BY AbsentAssumption DEF Succeeds, FileSet

\* A removal accounts for what the save in flight will drop, too.
LEMMA RemovedBySuccessor ==
    ASSUME NEW new \in FileSet, NEW mid \in FileSet, NEW old \in FileSet,
           NEW gone \in [Files -> Nat], NEW f \in Files, new[f] # Absent,
           Succeeds(new, old, gone), Succeeds(mid, old, gone)
    PROVE  Succeeds(mid, old, [gone EXCEPT ![f] = new[f]])
BY AbsentAssumption DEF Succeeds, FileSet

\* Removing a file leaves no later version.
LEMMA NotAfterRemoved ==
    ASSUME NEW files \in FileSet, NEW time, NEW f \in Files, NotAfter(files, time)
    PROVE  NotAfter([files EXCEPT ![f] = Absent], time)
BY DEF NotAfter, FileSet

\* What FilesInv says of the save in flight.
SavingInv == saves # << >> => /\ NotAfter(Saving, clock)
                              /\ Succeeds(mem, Saving, removed)
                              /\ Succeeds(Saving, idb, removed)

\* MEMFS stays ahead of IndexedDB and of the save between them.
LEMMA FilesStep ==
    ASSUME QueueTyped, MountInv, FilesInv, PatientStep
    PROVE  FilesInv'
<1> USE PatientIsNext DEF QueueTyped
<1>1. /\ mem \in FileSet /\ idb \in FileSet /\ removed \in [Files -> Nat] /\ clock \in Nat
      /\ NotAfter(mem, clock) /\ NotAfter(idb, clock)
      /\ mounted => Succeeds(mem, idb, removed)
  BY ListingFacts DEF FilesInv, FileSet
<1>2. ASSUME saves # << >>
      PROVE  /\ mounted /\ Saving \in FileSet /\ NotAfter(Saving, clock)
             /\ Succeeds(mem, Saving, removed) /\ Succeeds(Saving, idb, removed)
  BY <1>2, SavingFacts DEF MountInv, FilesInv, FileSet
<1>3. ASSUME mounted, NEW f \in Files, Write(f) PROVE FilesInv'
  <2>1. /\ mem' = [mem EXCEPT ![f] = clock + 1] /\ clock' = clock + 1 /\ idb' = idb
        /\ removed' = removed /\ saves' = saves /\ mounted' = mounted /\ mounted
    BY <1>3 DEF Write
  <2>2. Saving' = Saving
    BY <2>1 DEF Saving
  <2> QED
    BY <1>1, <1>2, <2>1, <2>2, WriteSucceeds, LaterClock DEF FilesInv
<1>4. ASSUME mounted, NEW f \in Files, Remove(f) PROVE FilesInv'
  <2>1. /\ mem' = [mem EXCEPT ![f] = Absent] /\ removed' = [removed EXCEPT ![f] = mem[f]]
        /\ clock' = clock /\ idb' = idb /\ saves' = saves /\ mounted' = mounted
        /\ mem[f] # Absent /\ mounted
    BY <1>4 DEF Remove
  <2>2. Saving' = Saving
    BY <2>1 DEF Saving
  <2> QED
    BY <1>1, <1>2, <2>1, <2>2, RemoveSucceeds, RemovedBySuccessor, NotAfterRemoved
    DEF FilesInv
<1>5. CASE SaveReads
  <2>1. /\ mem' = mem /\ idb' = idb /\ removed' = removed /\ clock' = clock
        /\ mounted' = mounted /\ saves # << >>
    BY <1>5 DEF SaveReads, history
  <2>2. Saving' \in {Saving, Reconciled(Saving), mem}
    <3>1. saves' # << >>
      BY <1>5, <2>1, SavesAfter DEF SaveReads, QueueInv, RequestsHaveASave
    <3> QED  BY <3>1, SavingAfter
  <2> QED
    BY <1>1, <1>2, <2>1, <2>2, ReconciledSucceeds, SucceedsItself DEF FilesInv
<1>6. CASE (mounted /\ IdbvfsSyncfs) \/ SaveDone \/ SaveError
  <2>1. /\ mem' = mem /\ removed' = removed /\ clock' = clock /\ mounted' = mounted
        /\ mounted
    BY <1>2, <1>6 DEF IdbvfsSyncfs, CanUse, SaveDone, SaveError, Storing, SyncCallback
  <2>2. idb' = idb \/ (saves # << >> /\ idb' = Saving)
    BY <1>6 DEF IdbvfsSyncfs, SaveDone, SaveError, Storing, Saving
  <2>3. saves' # << >> => Saving' = mem \/ (saves # << >> /\ idb' = idb /\ Saving' = Saving)
    <3>1. CASE IdbvfsSyncfs
      BY <1>6, <3>1, SavingAfter DEF IdbvfsSyncfs, SaveReads
    <3>2. CASE SaveDone \/ SaveError
      <4>1. Tail(saves) = << >>
        BY <3>2, OneSave DEF SaveDone, SaveError, Storing
      <4> QED
        BY <3>2, <4>1, FreshSave DEF SaveDone, SaveError, SyncCallback, DoSync, Saving
    <3> QED  BY <1>6, <3>1, <3>2
  <2> QED
    <3>1. NotAfter(idb', clock) /\ Succeeds(mem, idb', removed)
      BY <1>1, <1>2, <2>1, <2>2
    <3> QED
      BY <1>1, <1>2, <2>1, <2>3, <3>1, SucceedsItself DEF FilesInv
<1>7. CASE Register \/ PopulateError
  BY <1>1, <1>2, <1>7 DEF Register, PopulateError, history, FilesInv, Saving
<1>8. CASE PopulateDone
  <2>1. saves = << >> /\ saves' = saves /\ populating.files = mem
    BY <1>8 DEF PopulateDone, MountInv
  <2>2. mem' = idb
    BY <1>1, <1>8, <2>1 DEF PopulateDone, FileSet
  <2> QED
    BY <1>1, <1>8, <2>1, <2>2, SucceedsItself DEF PopulateDone, history, FilesInv
<1>9. CASE Reload
  <2>1. NotAfter(idb', clock) /\ NotAfter(mem', clock)
    BY <1>1, <1>2, <1>9 DEF Reload, Storing, Saving, NotAfter, Empty
  <2> QED  BY <1>9, <2>1 DEF Reload, FilesInv
<1>10. CASE UNCHANGED vars
  BY <1>10 DEF vars, browser, history, FilesInv, Saving
<1> QED
  BY <1>3, <1>4, <1>5, <1>6, <1>7, <1>8, <1>9, <1>10 DEF PatientStep

\* The inductive invariant always holds of a patient application.
LEMMA PatientCorrect == ASSUME WaitsForMount PROVE Spec => []PatientInv
<1>1. Init => PatientInv
  BY QueueInit, MountInit, FilesInit DEF PatientInv, QueueTyped
<1>2. PatientInv /\ [Next]_vars => PatientInv'
  BY QueueStep, MountStep, FilesStep, WaitingIsPatient DEF PatientInv, QueueTyped
<1> QED  BY <1>1, <1>2, PTL DEF Spec

\* What PersistedSurvives says of a step.
Survives ==
    \A f \in Files : idb[f] # Absent =>
        IF idb'[f] = Absent THEN removed[f] >= idb[f] ELSE idb'[f] >= idb[f]

\* A step leaves IndexedDB alone or puts the running save into it.
LEMMA SurvivesStep == ASSUME PatientInv, [Next]_vars PROVE Survives
<1>1. idb' = idb \/ (saves # << >> /\ idb' = Saving)
  BY DEF Next, vars, Register, IdbvfsSyncfs, SaveReads, SaveDone, SaveError, SyncCallback,
         Storing, Saving, PopulateDone, PopulateError, Write, Remove, Reload
<1>2. idb \in FileSet
  BY ListingFacts DEF PatientInv, FileSet
<1>3. CASE idb' = idb
  BY <1>2, <1>3, SucceedsItself DEF Succeeds, Survives
<1>4. CASE saves # << >> /\ idb' = Saving
  BY <1>4 DEF PatientInv, FilesInv, Succeeds, Survives
<1> QED  BY <1>1, <1>3, <1>4

\* With an application that waits for the mount, a file that reached
\* IndexedDB is neither lost nor taken back to an older version, through any
\* number of reloads, failed saves and callbacks in between.
THEOREM NothingSavedIsLost == ASSUME WaitsForMount PROVE Spec => PersistedSurvives
<1>1. PatientInv /\ [Next]_vars => [Survives]_vars
  BY SurvivesStep
<1> QED  BY <1>1, PatientCorrect, PTL DEF Spec, PersistedSurvives, Survives

-----------------------------------------------------------------------------
(* No version from the future, whether or not the application waits.       *)

\* MEMFS, IndexedDB and the save in flight only hold what has been written.
NothingUnwritten ==
    /\ NotAfter(mem, clock) /\ NotAfter(idb, clock)
    /\ saves # << >> => NotAfter(Saving, clock)

\* A listing made of several files by choosing is not later than they are.
LEMMA ChosenNotAfter ==
    ASSUME NEW new, NEW time, NEW one, NEW other, NEW third,
           NotAfter(one, time), NotAfter(other, time), NotAfter(third, time),
           \A f \in Files : new[f] \in {one[f], other[f], third[f], Absent}
    PROVE  NotAfter(new, time)
BY DEF NotAfter

\* Only a write makes a version, the next one.
LEMMA UnwrittenStep == ASSUME QueueTyped, NothingUnwritten, [Next]_vars PROVE NothingUnwritten'
<1>1. /\ mem \in FileSet /\ idb \in FileSet /\ clock \in Nat
      /\ NotAfter(mem, clock) /\ NotAfter(idb, clock)
      /\ saves # << >> => Saving \in FileSet /\ NotAfter(Saving, clock)
  BY ListingFacts, SavingFacts DEF QueueTyped, NothingUnwritten, FileSet
<1>2. ASSUME NEW f \in Files, Write(f) PROVE NothingUnwritten'
  <2>1. /\ mem' = [mem EXCEPT ![f] = clock + 1] /\ clock' = clock + 1 /\ idb' = idb
        /\ saves' = saves /\ Saving' = Saving
    BY <1>2 DEF Write, Saving
  <2> QED  BY <1>1, <2>1, LaterClock DEF NothingUnwritten
<1>3. ASSUME ~(\E f \in Files : Write(f)) PROVE NothingUnwritten'
  <2>1. clock' = clock
    BY <1>3 DEF Next, vars, Register, IdbvfsSyncfs, SaveReads, SaveDone, SaveError,
                SyncCallback, PopulateDone, PopulateError, Remove, Reload
  <2>2. idb' = idb \/ (saves # << >> /\ idb' = Saving)
    BY <1>3 DEF Next, vars, Register, IdbvfsSyncfs, SaveReads, SaveDone, SaveError,
                SyncCallback, Storing, Saving, PopulateDone, PopulateError, Remove, Reload
  <2>3. NotAfter(mem', clock)
    <3>1. \/ mem' = mem \/ mem' = Empty
          \/ \E f \in Files : mem' = [mem EXCEPT ![f] = Absent]
          \/ mem' = [f \in Files |-> IF populating.files[f] = idb[f] THEN mem[f] ELSE idb[f]]
      BY <1>3 DEF Next, vars, browser, Register, IdbvfsSyncfs, SaveReads, SaveDone,
                  SaveError, SyncCallback, PopulateDone, PopulateError, Remove, Reload
    <3>2. \A f \in Files : mem'[f] \in {mem[f], idb[f], Absent}
      BY <1>1, <3>1 DEF FileSet, Empty
    <3> QED  BY <1>1, <3>2, ChosenNotAfter
  <2>4. saves' # << >> => NotAfter(Saving', clock)
    <3> SUFFICES ASSUME saves' # << >> PROVE NotAfter(Saving', clock)
      OBVIOUS
    <3>1. CASE saves # << >> /\ Saving' = Saving
      BY <1>1, <3>1
    <3>2. CASE Saving' = mem
      BY <1>1, <3>2
    <3>3. CASE saves # << >> /\ Saving' = Reconciled(Saving)
      <4>1. \A f \in Files : Reconciled(Saving)[f] \in {Saving[f], idb[f], mem[f], Absent}
        BY DEF Reconciled
      <4> QED  BY <1>1, <3>3, <4>1, ChosenNotAfter
    <3> QED  BY <3>1, <3>2, <3>3, SavingAfter
  <2> QED  BY <1>1, <2>1, <2>2, <2>3, <2>4 DEF NothingUnwritten
<1> QED  BY <1>2, <1>3

\* Whatever the application does and whatever fails, the variables keep their
\* types, and neither MEMFS, nor IndexedDB, nor the save between them ever holds
\* a version that was not written: no save and no populating makes one up.
THEOREM TypeCorrect == Spec => [](TypeOK /\ NothingUnwritten)
<1>1. Init => NothingUnwritten
  BY DEF Init, NothingUnwritten, NotAfter, Empty
<1>2. QueueTyped /\ NothingUnwritten /\ [Next]_vars => NothingUnwritten'
  BY UnwrittenStep
<1>3. QueueTyped => TypeOK
  BY DEF QueueTyped
<1> QED  BY <1>1, <1>2, <1>3, QueueCorrect, PTL DEF Spec

-----------------------------------------------------------------------------
(* A drained queue has saved everything.                                   *)

\* DrainInv holds at the start.
LEMMA DrainInit == Init => DrainInv
BY DEF Init, DrainInv, DrainedMeansSaved, Empty

\* Reading the files that have not changed keeps them as listed.
LEMMA ReconciledAgrees ==
    ASSUME TypeOK, NEW listed \in Listing, NEW f \in Files, listed[f] = mem[f]
    PROVE  Reconciled(listed)[f] = mem[f]
BY DEF TypeOK, Listing, Reconciled

\* A save that a step starts lists every file; one that goes on keeps those
\* that have not changed.
LEMMA DrainStep ==
    ASSUME QueueTyped, MountInv, DrainInv, PatientStep
    PROVE  DrainInv'
<1> USE PatientIsNext
<1>0. /\ syncQueue \in 0..MaxQueue /\ mem \in Listing /\ idb \in Listing
      /\ (syncQueue > 0) = (saves # << >>) /\ (syncQueue' > 0) = (saves' # << >>)
      /\ syncQueue' \in 0..MaxQueue
  BY SavesAfter DEF QueueTyped, TypeOK, QueueInv, RequestsHaveASave
<1>1. ASSUME NEW f \in Files, Write(f) \/ Remove(f) PROVE DrainInv'
  <2>1. /\ touched' = touched \cup {f} /\ idb' = idb /\ saves' = saves
        /\ syncQueue' = syncQueue /\ mounted' = mounted /\ last_save_ok' = last_save_ok
        /\ \A g \in Files \ {f} : mem'[g] = mem[g]
    BY <1>0, <1>1 DEF Write, Remove, Listing
  <2> QED  BY <2>1 DEF DrainInv, DrainedMeansSaved, Saving
<1>2. CASE IdbvfsSyncfs
  <2>1. /\ mem' = mem /\ syncQueue' = syncQueue + 1 /\ syncQueue' # 0
        /\ touched' = {}
    BY <1>0, <1>2 DEF IdbvfsSyncfs
  <2>2. syncQueue' = 1 => Saving' = mem
    <3> SUFFICES ASSUME syncQueue' = 1 PROVE Saving' = mem
      OBVIOUS
    <3>1. saves = << >>
      BY <1>0, <2>1
    <3>2. saves' = Append(<< >>, Save("listed", mem, TRUE))
      BY <1>2, <3>1 DEF IdbvfsSyncfs, DoSync
    <3> QED  BY <3>2, FreshSave DEF Saving
  <2> QED  BY <2>1, <2>2 DEF DrainInv, DrainedMeansSaved
<1>3. CASE SaveReads
  <2>1. /\ saves # << >> /\ Saving \in Listing /\ mem' = mem /\ touched' = touched
        /\ syncQueue' = syncQueue /\ syncQueue # 0 /\ saves' # << >>
    BY <1>0, <1>3, SavingFacts DEF SaveReads, history
  <2>2. Saving' \in {Saving, mem, Reconciled(Saving)}
    BY <2>1, SavingAfter
  <2> QED
    BY <2>1, <2>2, ReconciledAgrees DEF DrainInv, DrainedMeansSaved, QueueTyped
<1>4. CASE SaveDone \/ SaveError
  <2>1. /\ saves # << >> /\ Tail(saves) = << >> /\ mem' = mem /\ touched' = touched
        /\ mounted' = mounted /\ syncQueue' = syncQueue - 1
    BY <1>4, OneSave DEF SaveDone, SaveError, Storing, SyncCallback, QueueTyped
  <2>2. syncQueue' > 0 => Saving' = mem
    BY <1>4, <2>1, FreshSave DEF SaveDone, SaveError, SyncCallback, DoSync, Saving
  <2>3. idb' = Saving \/ last_save_ok' = FALSE
    BY <1>4 DEF SaveDone, SaveError, Saving
  <2> QED
    BY <1>0, <2>1, <2>2, <2>3 DEF DrainInv, DrainedMeansSaved
<1>5. CASE PopulateDone
  <2>1. /\ saves = << >> /\ saves' = saves /\ populating.files = mem /\ idb' = idb
        /\ syncQueue' = syncQueue
    BY <1>5 DEF PopulateDone, MountInv
  <2>2. mem' = idb
    BY <1>0, <1>5, <2>1 DEF PopulateDone, Listing
  <2> QED  BY <1>0, <2>1, <2>2 DEF DrainInv, DrainedMeansSaved
<1>6. CASE Register \/ PopulateError
  <2>1. UNCHANGED <<mem, idb, touched, syncQueue, saves, mounted, last_save_ok>>
    BY <1>6 DEF Register, PopulateError, history
  <2> QED  BY <2>1 DEF DrainInv, DrainedMeansSaved, Saving
<1>7. CASE Reload
  BY <1>7 DEF Reload, DrainInv, DrainedMeansSaved
<1>8. CASE UNCHANGED vars
  BY <1>8 DEF vars, browser, history, DrainInv, DrainedMeansSaved, Saving
<1> QED  BY <1>1, <1>2, <1>3, <1>4, <1>5, <1>6, <1>7, <1>8 DEF PatientStep

\* With an application that waits for the mount, whenever the queue has
\* drained and the last save went well, IndexedDB holds every file as it was
\* at the last xSync: however many requests the counter had absorbed.
THEOREM DrainCorrect == ASSUME WaitsForMount PROVE Spec => []DrainedMeansSaved
<1>1. Init => DrainInv
  BY DrainInit
<1>2. QueueTyped /\ MountInv /\ DrainInv /\ [Next]_vars => DrainInv'
  BY DrainStep, WaitingIsPatient
<1>3. DrainInv => DrainedMeansSaved
  BY DEF DrainInv
<1> QED  BY <1>1, <1>2, <1>3, QueueCorrect, MountCorrect, PTL DEF Spec
=============================================================================
