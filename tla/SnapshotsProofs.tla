-------------------------- MODULE SnapshotsProofs --------------------------
(***************************************************************************)
(* What a page load finds in IndexedDB is a committed database, for every  *)
(* number of pages and of transactions, provided that the application      *)
(* waits for the mount and for syncQueue to be 0, and that no save fails.  *)
(***************************************************************************)
EXTENDS Snapshots, SyncQueueProofs, FiniteSetTheorems

-----------------------------------------------------------------------------
(* Files and their contents.                                               *)

\* Image, Originals and Recovered of files, by a given content.
ImageBy(values, files) ==
    [f \in DbFiles |-> IF files[f] = Absent THEN 0 ELSE values[files[f]]]

Restored(originals, image) ==
    [f \in DbFiles |-> IF f \in DOMAIN originals THEN originals[f] ELSE image[f]]

RecoveredBy(values, files) ==
    IF files[Journal] = Absent THEN ImageBy(values, files)
    ELSE Restored(values[files[Journal]], ImageBy(values, files))

PageValues    == 0 .. MaxTx
JournalValues == UNION {[S -> PageValues] : S \in SUBSET DbFiles}
Values        == PageValues \cup JournalValues

\* The files are there, with contents of their kinds.
Contained(values, files) ==
    /\ \A f \in Files : files[f] # Absent => files[f] \in 1 .. Len(values)
    /\ \A f \in DbFiles : files[f] # Absent => values[files[f]] \in PageValues
    /\ files[Journal] # Absent => values[files[Journal]] \in JournalValues

Extends(new, old) == Len(old) <= Len(new) /\ \A i \in 1 .. Len(old) : new[i] = old[i]

\* The definitions of the model, by its content.
LEMMA ByContent ==
    ASSUME NEW files
    PROVE  /\ Image(files) = ImageBy(content, files)
           /\ Originals(files) = content[files[Journal]]
           /\ Recovered(files) = RecoveredBy(content, files)
BY DEF Image, Originals, Recovered, RolledBack, HasJournal, ImageBy, RecoveredBy, Restored

\* The image of files has a value for every page.
LEMMA ImageType ==
    ASSUME NEW values, NEW files, Contained(values, files)
    PROVE  ImageBy(values, files) \in [DbFiles -> PageValues]
<1>1. 0 \in PageValues
  BY SnapshotsAssumption DEF PageValues
<1> QED  BY <1>1 DEF ImageBy, Contained

\* The value of a journal is the image of some pages.
LEMMA JournalType ==
    ASSUME NEW journal \in JournalValues
    PROVE  DOMAIN journal \subseteq DbFiles /\ journal \in [DOMAIN journal -> PageValues]
BY DEF JournalValues

\* Writing more leaves files what they were.
LEMMA ExtendsKeeps ==
    ASSUME NEW old \in Seq(Values), NEW new \in Seq(Values), Extends(new, old),
           NEW files, Contained(old, files)
    PROVE  /\ Contained(new, files) /\ ImageBy(new, files) = ImageBy(old, files)
           /\ RecoveredBy(new, files) = RecoveredBy(old, files)
           /\ files[Journal] # Absent => new[files[Journal]] = old[files[Journal]]
<1>1. \A f \in Files : files[f] # Absent =>
         files[f] \in 1 .. Len(new) /\ new[files[f]] = old[files[f]]
  BY DEF Contained, Extends
<1>2. Journal \in Files /\ DbFiles \subseteq Files
  BY SnapshotsAssumption DEF DbFiles
<1>3. ImageBy(new, files) = ImageBy(old, files)
  BY <1>1, <1>2 DEF ImageBy
<1>4. Contained(new, files)
  BY <1>1, <1>2 DEF Contained
<1> QED  BY <1>1, <1>2, <1>3, <1>4 DEF RecoveredBy

\* One more version, of the file f.
WrittenAt(values, files, f, value, new, now) ==
    /\ new \in Seq(Values) /\ Len(new) = Len(values) + 1 /\ Extends(new, values)
    /\ new[Len(values) + 1] = value
    /\ now[f] = Len(values) + 1 /\ \A g \in Files \ {f} : now[g] = files[g]

\* Writing a page changes its value.
LEMMA WritePage ==
    ASSUME NEW values \in Seq(Values), NEW files, Contained(values, files),
           NEW f \in DbFiles, NEW value \in PageValues,
           NEW new, NEW now, WrittenAt(values, files, f, value, new, now)
    PROVE  /\ Contained(new, now) /\ now[Journal] = files[Journal]
           /\ \A g \in DbFiles : ImageBy(new, now)[g] =
                                   IF g = f THEN value ELSE ImageBy(values, files)[g]
<1>1. new \in Seq(Values) /\ Extends(new, values) /\ Len(new) = Len(values) + 1
      /\ new[Len(values) + 1] = value /\ Len(values) \in Nat
  BY DEF WrittenAt
<1>2. /\ f \in Files /\ f # Journal /\ Journal \in Files /\ DbFiles \subseteq Files
      /\ Len(values) + 1 # Absent
  BY <1>1, SnapshotsAssumption, AbsentAssumption DEF DbFiles
<1>3. /\ now[f] = Len(values) + 1 /\ \A g \in Files \ {f} : now[g] = files[g]
      /\ now[Journal] = files[Journal]
  BY <1>2 DEF WrittenAt
<1>4. Contained(new, files) /\ ImageBy(new, files) = ImageBy(values, files)
  BY <1>1, ExtendsKeeps
<1>5. Contained(new, now)
  BY <1>1, <1>2, <1>3, <1>4 DEF Contained
<1>6. \A g \in DbFiles : ImageBy(new, now)[g] =
                           IF g = f THEN value ELSE ImageBy(new, files)[g]
  BY <1>1, <1>2, <1>3 DEF ImageBy
<1> QED  BY <1>3, <1>4, <1>5, <1>6

\* Writing a page that the journal holds changes nothing that recovery finds.
LEMMA RestoredAnyway ==
    ASSUME NEW originals, NEW image \in [DbFiles -> PageValues], NEW f \in DOMAIN originals,
           NEW value
    PROVE  Restored(originals, [image EXCEPT ![f] = value]) = Restored(originals, image)
BY DEF Restored

\* Writing the journal changes no page.
LEMMA WriteOriginals ==
    ASSUME NEW values \in Seq(Values), NEW files, Contained(values, files),
           NEW value \in JournalValues,
           NEW new, NEW now, WrittenAt(values, files, Journal, value, new, now)
    PROVE  /\ Contained(new, now) /\ now[Journal] # Absent
           /\ \A f \in DbFiles : now[f] = files[f]
           /\ ImageBy(new, now) = ImageBy(values, files)
           /\ new[now[Journal]] = value
<1>1. new \in Seq(Values) /\ Extends(new, values) /\ Len(new) = Len(values) + 1
      /\ new[Len(values) + 1] = value /\ Len(values) \in Nat
  BY DEF WrittenAt
<1>2. Journal \in Files /\ DbFiles \subseteq Files /\ Journal \notin DbFiles
      /\ Len(values) + 1 # Absent
  BY <1>1, SnapshotsAssumption, AbsentAssumption DEF DbFiles
<1>3. now[Journal] = Len(values) + 1 /\ \A f \in DbFiles : now[f] = files[f]
  BY <1>2 DEF WrittenAt
<1>4. \A g \in Files : now[g] = files[g] \/ now[g] = Len(values) + 1
  BY DEF WrittenAt
<1>5. Contained(new, files) /\ ImageBy(new, files) = ImageBy(values, files)
  BY <1>1, ExtendsKeeps
<1>6. Contained(new, now)
  BY <1>1, <1>2, <1>3, <1>4, <1>5 DEF Contained
<1>7. ImageBy(new, now) = ImageBy(new, files)
  BY <1>3 DEF ImageBy
<1> QED  BY <1>1, <1>2, <1>3, <1>5, <1>6, <1>7

-----------------------------------------------------------------------------
(* The calls of a turn.                                                    *)

Puts == [op : {"write"}, file : DbFiles, value : PageValues]
          \cup [op : {"write"}, file : {Journal}, value : JournalValues]

VfsCalls == Puts \cup {SyncFile, EndTx}

IsPutOf(call, S) == call.op = "write" /\ call.file \in S

\* After the first k calls, todo writes pages of S.
Spills(todo, k, S) == \A i \in k + 1 .. Len(todo) : IsPutOf(todo[i], S)

\* After the first k calls, todo writes pages of S and ends the transaction.
Ends(todo, k, S) ==
    LET n == Len(todo)
    IN  /\ n >= k + 2 /\ todo[n - 1] = SyncFile /\ todo[n] = EndTx
        /\ \A i \in k + 1 .. n - 2 : IsPutOf(todo[i], S)

\* A call, and its fields.
LEMMA PutType ==
    ASSUME NEW f, NEW value, \/ f \in DbFiles /\ value \in PageValues
                             \/ f = Journal /\ value \in JournalValues
    PROVE  /\ Put(f, value) \in VfsCalls /\ Put(f, value) # SyncFile /\ Put(f, value) # EndTx
           /\ Put(f, value).op = "write" /\ Put(f, value).file = f
           /\ Put(f, value).value = value
BY DEF Put, VfsCalls, Puts, SyncFile, EndTx

\* The calls that are not writes.
LEMMA OtherCalls ==
    /\ SyncFile \in VfsCalls /\ EndTx \in VfsCalls /\ SyncFile # EndTx
    /\ SyncFile.op = "sync" /\ EndTx.op = "remove"
BY DEF VfsCalls, SyncFile, EndTx

\* A call that writes.
LEMMA WriteCall ==
    ASSUME NEW call \in VfsCalls, call.op = "write"
    PROVE  \/ call.file \in DbFiles /\ call.value \in PageValues
           \/ call.file = Journal /\ call.value \in JournalValues
BY OtherCalls DEF VfsCalls, Puts

\* The first call of a turn, and the rest.
LEMMA NextCall ==
    ASSUME NEW todo \in Seq(VfsCalls), todo # << >>
    PROVE  /\ Head(todo) = todo[1] /\ todo[1] \in VfsCalls /\ Tail(todo) \in Seq(VfsCalls)
           /\ Len(todo) \in Nat \ {0} /\ Len(Tail(todo)) = Len(todo) - 1
           /\ \A i \in 1 .. Len(todo) - 1 : Tail(todo)[i] = todo[i + 1]
<1>1. Len(todo) \in Nat \ {0}
  BY EmptySeq
<1> QED  BY <1>1, HeadTailProperties

\* The pages of a turn come one call nearer.
LEMMA PagesNearer ==
    ASSUME NEW todo \in Seq(VfsCalls), todo # << >>, NEW k \in Nat \ {0}, NEW S
    PROVE  /\ Spills(todo, k, S) => Spills(Tail(todo), k - 1, S)
           /\ Ends(todo, k, S) => Ends(Tail(todo), k - 1, S)
<1>1. /\ Len(todo) \in Nat \ {0} /\ Len(Tail(todo)) = Len(todo) - 1
      /\ \A i \in 1 .. Len(todo) - 1 : Tail(todo)[i] = todo[i + 1]
  BY NextCall
<1>2. ASSUME Spills(todo, k, S) PROVE Spills(Tail(todo), k - 1, S)
  <2> SUFFICES ASSUME NEW i \in k .. Len(todo) - 1 PROVE IsPutOf(Tail(todo)[i], S)
    BY <1>1 DEF Spills
  <2>1. i + 1 \in k + 1 .. Len(todo) /\ i \in 1 .. Len(todo) - 1
    BY <1>1
  <2> QED  BY <1>1, <1>2, <2>1 DEF Spills
<1>3. ASSUME Ends(todo, k, S) PROVE Ends(Tail(todo), k - 1, S)
  <2> DEFINE n == Len(todo) - 1
  <2>1. n >= k + 1 /\ n - 1 \in 1 .. n /\ n \in 1 .. n
    BY <1>1, <1>3 DEF Ends
  <2>2. Tail(todo)[n - 1] = SyncFile /\ Tail(todo)[n] = EndTx
    BY <1>1, <1>3, <2>1 DEF Ends
  <2>3. ASSUME NEW i \in k .. n - 2 PROVE IsPutOf(Tail(todo)[i], S)
    <3>1. i + 1 \in k + 1 .. Len(todo) - 2 /\ i \in 1 .. n
      BY <1>1
    <3> QED  BY <1>1, <1>3, <3>1 DEF Ends
  <2> QED  BY <1>1, <2>1, <2>2, <2>3 DEF Ends
<1> QED  BY <1>2, <1>3

\* A page of the turn is written.
LEMMA PageDone ==
    ASSUME NEW todo \in Seq(VfsCalls), todo # << >>, NEW S
    PROVE  /\ Spills(todo, 0, S) => IsPutOf(todo[1], S) /\ Spills(Tail(todo), 0, S)
           /\ Ends(todo, 0, S) /\ todo[1].op = "write" =>
                 IsPutOf(todo[1], S) /\ Ends(Tail(todo), 0, S)
<1>1. /\ Len(todo) \in Nat \ {0} /\ Len(Tail(todo)) = Len(todo) - 1
      /\ \A i \in 1 .. Len(todo) - 1 : Tail(todo)[i] = todo[i + 1]
  BY NextCall
<1>2. ASSUME Spills(todo, 0, S) PROVE IsPutOf(todo[1], S) /\ Spills(todo, 1, S)
  BY <1>1, <1>2 DEF Spills
<1>3. ASSUME Ends(todo, 0, S), todo[1].op = "write"
      PROVE  IsPutOf(todo[1], S) /\ Ends(todo, 1, S)
  <2>1. Len(todo) # 2
    BY <1>3, OtherCalls DEF Ends
  <2>2. Len(todo) >= 3
    BY <1>1, <1>3, <2>1 DEF Ends
  <2>3. 1 \in 1 .. Len(todo) - 2 /\ \A i \in 2 .. Len(todo) - 2 : i \in 1 .. Len(todo) - 2
    BY <1>1, <2>2
  <2> QED  BY <1>1, <1>3, <2>2, <2>3 DEF Ends
<1> QED  BY <1>2, <1>3, PagesNearer

\* What a turn of calls does after its first k.
LEMMA LastCalls ==
    ASSUME NEW todo \in Seq(VfsCalls), todo # << >>, NEW S, Ends(todo, 0, S),
           todo[1].op # "write"
    PROVE  Len(todo) = 2 /\ todo[1] = SyncFile /\ Tail(todo) = <<EndTx>>
<1>1. /\ Len(todo) \in Nat \ {0} /\ Len(Tail(todo)) = Len(todo) - 1
      /\ \A i \in 1 .. Len(todo) - 1 : Tail(todo)[i] = todo[i + 1]
      /\ Tail(todo) \in Seq(VfsCalls)
  BY NextCall
<1>2. Len(todo) = 2
  <2> SUFFICES ASSUME Len(todo) >= 3 PROVE FALSE
    BY <1>1 DEF Ends
  <2>1. 1 \in 1 .. Len(todo) - 2
    BY <1>1
  <2> QED  BY <2>1 DEF Ends, IsPutOf
<1>3. todo[1] = SyncFile /\ todo[2] = EndTx
  BY <1>2 DEF Ends
<1>4. Len(Tail(todo)) = 1 /\ Tail(todo)[1] = EndTx
  <2>1. Len(Tail(todo)) = 1
    BY <1>1, <1>2
  <2>2. 1 \in 1 .. Len(todo) - 1
    BY <1>2
  <2>3. Tail(todo)[1] = todo[1 + 1]
    BY <1>1, <2>2
  <2>4. 1 + 1 = 2
    OBVIOUS
  <2>5. Tail(todo)[1] = todo[2]
    BY <2>3, <2>4, Zenon
  <2> QED  BY <1>3, <2>1, <2>5, Zenon
<1> DEFINE rest == Tail(todo)
<1>5. rest \in Seq(VfsCalls) /\ Len(rest) = 1 /\ rest[1] = EndTx
  BY <1>1, <1>4
<1> HIDE DEF rest
<1>6. rest = <<EndTx>>
  <2>1. rest \in [1 .. 1 -> VfsCalls]
    BY <1>5, LenProperties
  <2> QED  BY <1>5, <2>1
<1> QED  BY <1>2, <1>3, <1>6 DEF rest

\* The Cardinality of the community modules is that of FiniteSets.
LEMMA SameCardinality == ASSUME NEW S PROVE Seqs!Cardinality(S) = Cardinality(S)
BY DEF Cardinality, Seqs!Cardinality

\* SetToSeq lists every element.
LEMMA ListsAll ==
    ASSUME NEW S, IsFiniteSet(S)
    PROVE  LET list == Seqs!SetToSeq(S)
           IN  /\ list \in [1 .. Cardinality(S) -> S]
               /\ \A x \in S : \E i \in 1 .. Cardinality(S) : list[i] = x
<1>1. ExistsBijection(1..Cardinality(S), S) /\ Cardinality(S) \in Nat
  BY FS_CardinalityType
<1>2. PICK f : f \in Bijection(1..Cardinality(S), S)
  BY <1>1 DEF ExistsBijection
<1>3. \E g \in [1 .. Cardinality(S) -> S] : Seqs!IsInjective(g)
  BY <1>2 DEF Seqs!IsInjective, Bijection, Injection, IsInjective
<1>4. Seqs!SetToSeq(S) \in [1 .. Cardinality(S) -> S] /\ Seqs!IsInjective(Seqs!SetToSeq(S))
  BY <1>3, SameCardinality DEF Seqs!SetToSeq
<1>5. IsFiniteSet(1..Cardinality(S)) /\ Cardinality(1..Cardinality(S)) = Cardinality(S)
  BY <1>1, FS_Interval
<1>6. Seqs!SetToSeq(S) \in Injection(1..Cardinality(S), S)
  BY <1>4 DEF Injection, Seqs!IsInjective, IsInjective
<1>7. Seqs!SetToSeq(S) \in Surjection(1..Cardinality(S), S)
  BY <1>5, <1>6, FS_Injection
<1> QED  BY <1>4, <1>7 DEF Surjection

\* PutAll writes every file of S, its value, and no other.
LEMMA PutAllFacts ==
    ASSUME NEW S \in SUBSET DbFiles, NEW values, \A f \in S : values[f] \in PageValues
    PROVE  LET puts == PutAll(S, values)
           IN  /\ puts \in Seq(VfsCalls)
               /\ \A i \in 1 .. Len(puts) : IsPutOf(puts[i], S)
                                            /\ puts[i].value = values[puts[i].file]
               /\ \A f \in S : \E i \in 1 .. Len(puts) : puts[i].file = f
<1> DEFINE list == Seqs!SetToSeq(S)
           n == Cardinality(S)
           puts == PutAll(S, values)
<1>1. IsFiniteSet(S) /\ n \in Nat
  <2>1. S \subseteq Files
    BY DEF DbFiles
  <2>2. IsFiniteSet(S)
    BY <2>1, FS_Subset, SnapshotsAssumption
  <2> QED  BY <2>2, FS_CardinalityType
<1>2. list \in [1 .. n -> S] /\ \A f \in S : \E i \in 1 .. n : list[i] = f
  BY <1>1, ListsAll
<1>3. puts = [i \in 1 .. n |-> Put(list[i], values[list[i]])]
  <2>1. DOMAIN list = 1 .. n
    BY <1>2
  <2> QED  BY <2>1 DEF PutAll
<1>4. ASSUME NEW i \in 1 .. n
      PROVE  /\ puts[i] \in VfsCalls /\ puts[i].op = "write" /\ puts[i].file = list[i]
             /\ puts[i].value = values[list[i]] /\ list[i] \in S
  <2>1. list[i] \in S /\ list[i] \in DbFiles /\ values[list[i]] \in PageValues
    BY <1>2
  <2>2. puts[i] = Put(list[i], values[list[i]])
    BY <1>3
  <2> HIDE DEF list, puts
  <2> QED  BY <2>1, <2>2, PutType
<1> HIDE DEF list, puts
<1>5. puts \in [1 .. n -> VfsCalls]
  BY <1>3, <1>4
<1>6. puts \in Seq(VfsCalls) /\ Len(puts) = n
  <2>1. puts \in Seq(VfsCalls)
    BY <1>1, <1>5, SeqDef
  <2> QED  BY <1>1, <1>5, <2>1, LenProperties
<1>7. \A f \in S : \E i \in 1 .. n : puts[i].file = f
  BY <1>2, <1>4
<1> QED  BY <1>4, <1>6, <1>7 DEF IsPutOf, puts

-----------------------------------------------------------------------------
(* Types.                                                                  *)

Typed ==
    /\ content \in Seq(Values) /\ Len(content) = clock
    /\ turn \in Seq(VfsCalls) /\ txs \in 0 .. MaxTx
    /\ Contained(content, mem) /\ Contained(content, idb)
    /\ saves # << >> => Contained(content, Saving)

\* The calls of a turn are those of SyncQueue by a patient application.
LEMMA TurnIsPatient ==
    ASSUME WaitsForMount, turn \in Seq(VfsCalls), [NextAll]_all_vars
    PROVE  PatientStep
<1>1. CASE DoWrite
  <2>1. Head(turn).file \in Files /\ mounted /\ Write(Head(turn).file)
    <3>1. turn # << >> /\ Head(turn).op = "write"
      BY <1>1 DEF DoWrite, Doing
    <3>2. Head(turn).file \in DbFiles \cup {Journal}
      BY <3>1, NextCall, WriteCall
    <3> QED  BY <1>1, <3>2, SnapshotsAssumption DEF DoWrite, Write, CanUse, DbFiles
  <2> QED  BY <2>1 DEF PatientStep
<1>5. CASE DoSyncFile \/ DoEndTx
  <2>1. mounted /\ (IdbvfsSyncfs \/ Remove(Journal))
    BY <1>5 DEF DoSyncFile, DoEndTx, Remove, IdbvfsSyncfs, CanUse
  <2> QED  BY <2>1, SnapshotsAssumption DEF PatientStep
<1>2. CASE Load \/ Leave \/ Callback
  BY <1>2 DEF Load, Leave, Callback, PatientStep
<1>3. CASE Rollback \/ \E S \in SUBSET DbFiles, commits \in BOOLEAN : Execute(S, commits)
  BY <1>3 DEF Rollback, Execute, PatientStep
<1>4. CASE UNCHANGED all_vars
  BY <1>4 DEF all_vars, PatientStep
<1> QED  BY <1>1, <1>2, <1>3, <1>4, <1>5 DEF NextAll

\* The invariant of the patient application of SyncQueue holds of this one.
LEMMA PatientKept ==
    ASSUME WaitsForMount, PatientInv, turn \in Seq(VfsCalls), [NextAll]_all_vars
    PROVE  PatientInv'
BY TurnIsPatient, PatientIsNext, QueueStep, MountStep, FilesStep DEF PatientInv, QueueTyped

\* Files made of contained files are contained.
LEMMA ContainedMix ==
    ASSUME NEW values, NEW a, NEW b, NEW c, NEW files,
           Contained(values, a), Contained(values, b), Contained(values, c),
           \A f \in Files : files[f] \in {Absent, a[f], b[f], c[f]}
    PROVE  Contained(values, files)
<1>1. Journal \in Files /\ DbFiles \subseteq Files
  BY SnapshotsAssumption DEF DbFiles
<1> QED  BY <1>1 DEF Contained

\* The journal of a new transaction is empty, and the next journal of a
\* transaction adds the pages that the statement changes.
LEMMA NewOriginals ==
    ASSUME NEW old \in JournalValues, NEW image \in [DbFiles -> PageValues],
           NEW S \in SUBSET DbFiles
    PROVE  LET new == [f \in DOMAIN old \cup S |-> IF f \in DOMAIN old THEN old[f] ELSE image[f]]
           IN  /\ new \in JournalValues /\ DOMAIN new = DOMAIN old \cup S
               /\ Restored(new, image) = Restored(old, image)
<1> DEFINE T == DOMAIN old \cup S
           new == [f \in T |-> IF f \in DOMAIN old THEN old[f] ELSE image[f]]
<1>1. T \in SUBSET DbFiles /\ \A f \in DOMAIN old : old[f] \in PageValues
  BY JournalType
<1>2. \A f \in T : (IF f \in DOMAIN old THEN old[f] ELSE image[f]) \in PageValues
  BY <1>1
<1>3. new \in [T -> PageValues]
  BY <1>2
<1>4. new \in JournalValues
  BY <1>1, <1>3 DEF JournalValues
<1>5. Restored(new, image) = Restored(old, image)
  BY DEF Restored
<1> QED  BY <1>4, <1>5

\* The empty journal.
LEMMA NoOriginals ==
    /\ [f \in {} |-> 0] \in JournalValues /\ DOMAIN [f \in {} |-> 0] = {}
    /\ \A image \in [DbFiles -> PageValues] : Restored([f \in {} |-> 0], image) = image
<1>1. [f \in {} |-> 0] \in [{} -> PageValues]
  OBVIOUS
<1>2. [f \in {} |-> 0] \in JournalValues
  BY <1>1 DEF JournalValues
<1> QED  BY <1>2 DEF Restored

\* One sequence of calls after another.
LEMMA Joined ==
    ASSUME NEW a \in Seq(VfsCalls), NEW b \in Seq(VfsCalls)
    PROVE  /\ a \o b \in Seq(VfsCalls) /\ Len(a \o b) = Len(a) + Len(b)
           /\ \A i \in 1 .. Len(a) : (a \o b)[i] = a[i]
           /\ \A i \in 1 .. Len(b) : (a \o b)[Len(a) + i] = b[i]
<1>1. Len(a) \in Nat /\ Len(b) \in Nat
  BY LenProperties
<1>2. /\ a \o b \in Seq(VfsCalls) /\ Len(a \o b) = Len(a) + Len(b)
      /\ \A i \in 1 .. Len(a) + Len(b) : (a \o b)[i] =
                     IF i <= Len(a) THEN a[i] ELSE b[i - Len(a)]
  BY ConcatProperties
<1>3. ASSUME NEW i \in 1 .. Len(a) PROVE (a \o b)[i] = a[i]
  BY <1>1, <1>2
<1>4. ASSUME NEW i \in 1 .. Len(b) PROVE (a \o b)[Len(a) + i] = b[i]
  <2>1. /\ Len(a) + i \in 1 .. Len(a) + Len(b) /\ ~(Len(a) + i <= Len(a))
        /\ Len(a) + i - Len(a) = i
    BY <1>1
  <2> QED  BY <1>2, <2>1
<1> QED  BY <1>2, <1>3, <1>4

\* The turn of a statement: the journal as it was and with more originals,
\* and then the pages.
LEMMA StatementTurn ==
    ASSUME NEW old \in JournalValues, NEW new \in JournalValues,
           NEW S \in SUBSET DOMAIN new, NEW values, \A f \in S : values[f] \in PageValues,
           NEW commits \in BOOLEAN
    PROVE  LET todo == StoreJournal(old, new) \o PutAll(S, values)
                         \o (IF commits THEN <<SyncFile, EndTx>> ELSE << >>)
           IN  /\ todo \in Seq(VfsCalls) /\ Len(todo) >= 4
               /\ todo[1] = Put(Journal, old) /\ todo[2] = SyncFile
               /\ todo[3] = Put(Journal, new) /\ todo[4] = SyncFile
               /\ IF commits THEN Ends(todo, 4, DOMAIN new) ELSE Spills(todo, 4, DOMAIN new)
<1> DEFINE puts == PutAll(S, values)
           first == StoreJournal(old, new)
           last == IF commits THEN <<SyncFile, EndTx>> ELSE << >>
           todo == first \o puts \o last
<1>1. S \in SUBSET DbFiles /\ DOMAIN new \subseteq DbFiles
  BY JournalType
<1>2. puts \in Seq(VfsCalls) /\ \A i \in 1 .. Len(puts) : IsPutOf(puts[i], S)
  BY <1>1, PutAllFacts
<1>3. /\ first \in Seq(VfsCalls) /\ Len(first) = 4
      /\ first[1] = Put(Journal, old) /\ first[2] = SyncFile
      /\ first[3] = Put(Journal, new) /\ first[4] = SyncFile
  BY PutType, OtherCalls DEF StoreJournal
<1>4. /\ last \in Seq(VfsCalls) /\ Len(last) = IF commits THEN 2 ELSE 0
      /\ commits => last[1] = SyncFile /\ last[2] = EndTx
  BY OtherCalls
<1> HIDE DEF puts, first, last
<1> DEFINE n == Len(puts)
<1>5. n \in Nat
  BY <1>2, LenProperties
<1>6. /\ todo \in Seq(VfsCalls) /\ Len(todo) = 4 + n + Len(last)
      /\ \A i \in 1 .. 4 : todo[i] = first[i]
      /\ \A i \in 1 .. n : todo[4 + i] = puts[i]
      /\ \A i \in 1 .. Len(last) : todo[4 + n + i] = last[i]
  <2> DEFINE start == first \o puts
  <2>1. /\ start \in Seq(VfsCalls) /\ Len(start) = 4 + n
        /\ \A i \in 1 .. 4 : start[i] = first[i]
        /\ \A i \in 1 .. n : start[4 + i] = puts[i]
    <3>1. /\ first \o puts \in Seq(VfsCalls) /\ Len(first \o puts) = Len(first) + Len(puts)
          /\ \A i \in 1 .. Len(first) : (first \o puts)[i] = first[i]
          /\ \A i \in 1 .. Len(puts) : (first \o puts)[Len(first) + i] = puts[i]
      BY <1>2, <1>3, Joined
    <3> QED  BY <1>3, <3>1
  <2>2. todo = start \o last
    OBVIOUS
  <2> HIDE DEF start, todo
  <2>3. todo \in Seq(VfsCalls) /\ Len(todo) = Len(start) + Len(last)
    BY <1>4, <2>1, <2>2, Joined
  <2>4. \A i \in 1 .. Len(start) : todo[i] = start[i]
    BY <1>4, <2>1, <2>2, Joined
  <2>5. \A i \in 1 .. Len(last) : todo[Len(start) + i] = last[i]
    BY <1>4, <2>1, <2>2, Joined
  <2> HIDE DEF n
  <2>6. \A i \in 1 .. 4 : i \in 1 .. 4 + n
    BY <1>5
  <2>7. \A i \in 1 .. n : 4 + i \in 1 .. 4 + n
    BY <1>5
  <2> QED  BY <2>1, <2>3, <2>4, <2>5, <2>6, <2>7
<1> HIDE DEF todo, n
<1>7. \A i \in 5 .. 4 + n : IsPutOf(todo[i], DOMAIN new)
  <2> SUFFICES ASSUME NEW i \in 5 .. 4 + n PROVE IsPutOf(todo[i], DOMAIN new)
    OBVIOUS
  <2>1. i - 4 \in 1 .. n /\ 4 + (i - 4) = i
    BY <1>5
  <2>2. todo[i] = puts[i - 4]
    BY <1>6, <2>1
  <2> QED  BY <1>2, <2>1, <2>2 DEF IsPutOf, n
<1>8. CASE commits
  <2> HIDE DEF n
  <2>1. Len(todo) = n + 6
    BY <1>4, <1>5, <1>6, <1>8
  <2>2. todo[n + 5] = SyncFile /\ todo[n + 6] = EndTx
    <3>1. todo[4 + n + 1] = SyncFile /\ todo[4 + n + 2] = EndTx
      BY <1>4, <1>6, <1>8
    <3>2. 4 + n + 1 = n + 5 /\ 4 + n + 2 = n + 6
      BY <1>5
    <3> QED  BY <3>1, <3>2
  <2>3. n + 6 - 1 = n + 5 /\ n + 6 - 2 = 4 + n /\ n + 6 >= 4 + 2 /\ 4 + 1 = 5
    BY <1>5
  <2>4. Ends(todo, 4, DOMAIN new)
    <3>1. \A i \in 4 + 1 .. Len(todo) - 2 : IsPutOf(todo[i], DOMAIN new)
      BY <1>5, <1>7, <2>1, <2>3
    <3>2. todo[Len(todo) - 1] = SyncFile /\ todo[Len(todo)] = EndTx /\ Len(todo) >= 4 + 2
      BY <1>5, <2>1, <2>2, <2>3
    <3> QED  BY <3>1, <3>2 DEF Ends
  <2>5. \A i \in 1 .. 4 : todo[i] = first[i]
    BY <1>6
  <2> QED  BY <1>3, <1>5, <1>6, <1>8, <2>1, <2>4, <2>5 DEF todo, first, puts, last
<1>9. CASE ~commits
  <2>1. Len(todo) = 4 + n
    BY <1>4, <1>5, <1>6, <1>9
  <2>2. Spills(todo, 4, DOMAIN new)
    BY <1>7, <2>1 DEF Spills
  <2> QED  BY <1>3, <1>5, <1>6, <1>9, <2>1, <2>2 DEF todo, first, puts, last
<1> QED  BY <1>8, <1>9

\* The turn of a rollback: the originals, and the end of the transaction.
LEMMA RollbackTurn ==
    ASSUME NEW originals \in JournalValues, NEW hot \in BOOLEAN
    PROVE  LET todo == (IF ~hot THEN << >> ELSE <<SyncFile>>)
                         \o PutAll(DOMAIN originals, originals) \o <<SyncFile, EndTx>>
               k == IF hot THEN 1 ELSE 0
           IN  /\ todo \in Seq(VfsCalls) /\ Ends(todo, k, DOMAIN originals)
               /\ hot => todo[1] = SyncFile
               /\ \A i \in k + 1 .. Len(todo) - 2 : todo[i].value = originals[todo[i].file]
               /\ \A f \in DOMAIN originals :
                    \E i \in k + 1 .. Len(todo) - 2 : todo[i].file = f
<1> DEFINE S == DOMAIN originals
           puts == PutAll(S, originals)
           first == IF ~hot THEN << >> ELSE <<SyncFile>>
           last == <<SyncFile, EndTx>>
           todo == first \o puts \o last
           k == IF hot THEN 1 ELSE 0
           n == Len(puts)
<1>1. S \in SUBSET DbFiles /\ \A f \in S : originals[f] \in PageValues
  BY JournalType
<1>2. /\ puts \in Seq(VfsCalls)
      /\ \A i \in 1 .. n : IsPutOf(puts[i], S) /\ puts[i].value = originals[puts[i].file]
      /\ \A f \in S : \E i \in 1 .. n : puts[i].file = f
  BY <1>1, PutAllFacts
<1>3. first \in Seq(VfsCalls) /\ Len(first) = k /\ k \in Nat /\ (hot => first[1] = SyncFile)
  BY OtherCalls
<1>4. last \in Seq(VfsCalls) /\ Len(last) = 2 /\ last[1] = SyncFile /\ last[2] = EndTx
  BY OtherCalls
<1>5. n \in Nat
  BY <1>2, LenProperties
<1> DEFINE start == first \o puts
<1>6. todo = start \o last
  OBVIOUS
<1> HIDE DEF puts, first, last
<1>7. /\ start \in Seq(VfsCalls) /\ Len(start) = Len(first) + Len(puts)
      /\ \A i \in 1 .. Len(first) : start[i] = first[i]
      /\ \A i \in 1 .. Len(puts) : start[Len(first) + i] = puts[i]
  BY <1>2, <1>3, Joined
<1> HIDE DEF start, todo
<1>8. /\ todo \in Seq(VfsCalls) /\ Len(todo) = Len(start) + Len(last)
      /\ \A i \in 1 .. Len(start) : todo[i] = start[i]
      /\ \A i \in 1 .. Len(last) : todo[Len(start) + i] = last[i]
  BY <1>4, <1>6, <1>7, Joined
<1>9. Len(start) = k + n /\ Len(todo) = k + n + 2
  BY <1>3, <1>4, <1>7, <1>8
<1>10. ASSUME NEW i \in k + 1 .. k + n PROVE i - k \in 1 .. n /\ todo[i] = puts[i - k]
  <2>1. i - k \in 1 .. Len(puts) /\ Len(first) + (i - k) = i /\ i \in 1 .. Len(start)
    BY <1>3, <1>5, <1>9
  <2> HIDE DEF k, n
  <2> QED  BY <1>7, <1>8, <2>1 DEF n
<1>11. ASSUME NEW i \in 1 .. n PROVE k + i \in k + 1 .. k + n /\ k + i - k = i
  BY <1>3, <1>5
<1>12. hot => todo[1] = SyncFile
  <2> SUFFICES ASSUME hot PROVE todo[1] = SyncFile
    OBVIOUS
  <2>1. 1 \in 1 .. Len(first) /\ 1 \in 1 .. Len(start)
    BY <1>3, <1>5, <1>9
  <2> QED  BY <1>3, <1>7, <1>8, <2>1
<1>13. todo[k + n + 1] = SyncFile /\ todo[k + n + 2] = EndTx
  BY <1>4, <1>8, <1>9
<1> HIDE DEF k, n
<1>14. k + n + 2 - 2 = k + n /\ k + n + 2 - 1 = k + n + 1 /\ k + n + 2 >= k + 2
  BY <1>3, <1>5
<1>15. \A i \in k + 1 .. k + n : IsPutOf(todo[i], S) /\ todo[i].value = originals[todo[i].file]
  BY <1>2, <1>10
<1>16. \A f \in S : \E i \in k + 1 .. k + n : todo[i].file = f
  <2> SUFFICES ASSUME NEW f \in S PROVE \E i \in k + 1 .. k + n : todo[i].file = f
    OBVIOUS
  <2>1. PICK i \in 1 .. n : puts[i].file = f
    BY <1>2
  <2>5. PICK j : j = k + i
    OBVIOUS
  <2>4. k + i \in k + 1 .. k + n /\ k + i - k = i
    BY <1>11
  <2>2. j \in k + 1 .. k + n /\ j - k = i
    BY <1>3, <1>5, <2>5
  <2>3. todo[j] = puts[j - k]
    BY <1>10, <2>2
  <2> QED  BY <2>1, <2>2, <2>3
<1>17. Ends(todo, k, S)
  BY <1>9, <1>13, <1>14, <1>15 DEF Ends
<1> QED  BY <1>8, <1>9, <1>12, <1>14, <1>15, <1>16, <1>17 DEF todo, first, last, puts, k

-----------------------------------------------------------------------------
(* Typed is an invariant.                                                  *)

Patient == WaitsForMount /\ WaitsForSaves /\ ~SaveFails

Base == PatientInv /\ Typed

\* The values of the typed variables.
LEMMA BaseFacts ==
    ASSUME Base
    PROVE  /\ mem \in Listing /\ idb \in Listing /\ clock \in Nat
           /\ mem \in [Files -> Nat \cup {Absent}] /\ idb \in [Files -> Nat \cup {Absent}]
           /\ saves # << >> => /\ Saving \in Listing /\ mounted /\ Tail(saves) = << >>
                               /\ Saving \in [Files -> Nat \cup {Absent}]
           /\ syncQueue \in Nat /\ (syncQueue > 0) = (saves # << >>)
           /\ Journal \in Files /\ Journal \notin DbFiles /\ DbFiles = Files \ {Journal}
           /\ ImageBy(content, mem) \in [DbFiles -> PageValues]
           /\ ImageBy(content, idb) \in [DbFiles -> PageValues]
<1>1. TypeOK /\ QueueTyped
  BY DEF Base, PatientInv, QueueTyped
<1>2. saves # << >> => Saving \in Listing /\ Saving \in [Files -> Nat \cup {Absent}]
  BY <1>1, SavingFacts
<1>3. saves # << >> => mounted
  BY DEF Base, PatientInv, MountInv
<1>4. syncQueue \in Nat /\ (syncQueue > 0) = (saves # << >>)
  BY <1>1, BoundsAssumption DEF TypeOK, QueueTyped, QueueInv, RequestsHaveASave
<1>5. mem \in Listing /\ idb \in Listing
  BY <1>1 DEF TypeOK
<1>6. /\ ImageBy(content, mem) \in [DbFiles -> PageValues]
      /\ ImageBy(content, idb) \in [DbFiles -> PageValues]
  BY ImageType DEF Base, Typed
<1>7. saves # << >> => Tail(saves) = << >>
  BY <1>1, OneSave DEF QueueTyped
<1> QED
  BY <1>1, <1>2, <1>3, <1>4, <1>5, <1>6, <1>7, ListingFacts, SnapshotsAssumption DEF DbFiles

\* A call that writes a file.
LEMMA WriteFacts ==
    ASSUME Base, DoWrite
    PROVE  /\ turn # << >> /\ turn[1] \in VfsCalls /\ turn[1].op = "write" /\ turn' = Tail(turn)
           /\ content' \in Seq(Values) /\ Len(content') = clock + 1 /\ clock' = clock + 1
           /\ WrittenAt(content, mem, turn[1].file, turn[1].value, content', mem')
           /\ UNCHANGED <<idb, saves, Saving, syncQueue, mounted, committed, writing, txs>>
<1>1. turn # << >> /\ Head(turn).op = "write" /\ turn' = Tail(turn) /\ Head(turn) = turn[1]
      /\ turn[1] \in VfsCalls
  BY NextCall DEF DoWrite, Doing, Base, Typed
<1>2. turn[1].value \in Values
  BY <1>1, WriteCall DEF Values
<1>3. content \in Seq(Values) /\ Len(content) = clock /\ clock \in Nat
  BY BaseFacts DEF Base, Typed
<1>4. content' = Append(content, turn[1].value)
  BY <1>1 DEF DoWrite
<1>5. /\ content' \in Seq(Values) /\ Len(content') = Len(content) + 1
      /\ Extends(content', content) /\ content'[Len(content) + 1] = turn[1].value
  BY <1>2, <1>3, <1>4 DEF Extends
<1>6. /\ mem' = [mem EXCEPT ![turn[1].file] = Len(content) + 1] /\ clock' = clock + 1
      /\ idb' = idb /\ saves' = saves
  BY <1>1, <1>3 DEF DoWrite, Write
<1>7. WrittenAt(content, mem, turn[1].file, turn[1].value, content', mem')
  <2>1. turn[1].file \in Files /\ mem \in [Files -> Nat \cup {Absent}]
    BY <1>1, WriteCall, BaseFacts
  <2> QED  BY <1>5, <1>6, <2>1 DEF WrittenAt
<1> QED
  BY <1>1, <1>3, <1>5, <1>6, <1>7 DEF DoWrite, Write, Saving

\* An xSync: the first one of a turn lists the files.
LEMMA SyncFacts ==
    ASSUME Base, DoSyncFile
    PROVE  /\ turn # << >> /\ turn[1] = SyncFile /\ turn' = Tail(turn)
           /\ saves' # << >> /\ syncQueue' = syncQueue + 1
           /\ saves = << >> => /\ Saving' = mem /\ Head(saves').phase = "listed"
           /\ saves # << >> => saves' = saves /\ Saving' = Saving /\ syncQueue' > 1
           /\ UNCHANGED <<idb, mem, clock, content, mounted, committed, writing, txs>>
<1>1. turn # << >> /\ Head(turn).op = "sync" /\ turn' = Tail(turn) /\ Head(turn) = turn[1]
      /\ turn[1] \in VfsCalls
  BY NextCall DEF DoSyncFile, Doing, Base, Typed
<1>2. turn[1] = SyncFile
  BY <1>1, OtherCalls DEF VfsCalls, Puts
<1>3. /\ syncQueue' = syncQueue + 1
      /\ IF syncQueue' = 1 THEN DoSync(saves) ELSE saves' = saves
  BY DEF DoSyncFile, IdbvfsSyncfs
<1> DEFINE fresh == Save("listed", mem, TRUE)
<1>4. fresh \in SaveType /\ fresh.files = mem /\ fresh.phase = "listed"
  BY BaseFacts, SaveIsTyped
<1>5. CASE saves = << >>
  <2>1. saves' = Append(<< >>, fresh)
    <3>1. syncQueue' = 1
      BY <1>3, <1>5, BaseFacts
    <3> QED  BY <1>3, <1>5, <3>1 DEF DoSync
  <2> HIDE DEF fresh
  <2>2. saves' = <<fresh>> /\ saves' # << >> /\ Head(saves') = fresh
    BY <1>4, <2>1, Singleton
  <2> QED  BY <1>1, <1>2, <1>3, <1>4, <1>5, <2>2 DEF DoSyncFile, IdbvfsSyncfs, Saving
<1>6. CASE saves # << >>
  <2>1. syncQueue' > 1 /\ saves' = saves
    BY <1>3, <1>6, BaseFacts
  <2> QED  BY <1>1, <1>2, <1>3, <1>6, <2>1 DEF DoSyncFile, IdbvfsSyncfs, Saving
<1> QED  BY <1>5, <1>6

\* The deletion of the journal ends the transaction.
LEMMA EndFacts ==
    ASSUME Base, DoEndTx
    PROVE  /\ turn # << >> /\ turn[1] = EndTx /\ turn' = Tail(turn)
           /\ mem' = [mem EXCEPT ![Journal] = Absent] /\ mem[Journal] # Absent
           /\ committed' = committed \cup {ImageBy(content, mem)}
           /\ UNCHANGED <<idb, saves, Saving, syncQueue, clock, content, mounted, writing, txs>>
<1>1. turn # << >> /\ Head(turn).op = "remove" /\ turn' = Tail(turn) /\ Head(turn) = turn[1]
      /\ turn[1] \in VfsCalls
  BY NextCall DEF DoEndTx, Doing, Base, Typed
<1>2. turn[1] = EndTx
  BY <1>1, OtherCalls DEF VfsCalls, Puts
<1> QED  BY <1>1, <1>2, ByContent DEF DoEndTx, Remove, Saving

\* Nothing at all is contained.
LEMMA EmptyContained == ASSUME NEW values PROVE Contained(values, Empty)
BY SnapshotsAssumption DEF Contained, Empty, DbFiles

\* Typed holds at the start.
LEMMA TypedInit == InitAll => Typed
<1> SUFFICES ASSUME InitAll PROVE Typed
  OBVIOUS
<1>1. << >> \in Seq(Values) /\ << >> \in Seq(VfsCalls) /\ Len(<< >>) = 0
  OBVIOUS
<1>2. 0 \in 0 .. MaxTx
  BY SnapshotsAssumption
<1> QED  BY <1>1, <1>2, EmptyContained DEF InitAll, Init, Typed

\* Every step keeps Typed.
LEMMA TypedStep ==
    ASSUME WaitsForMount, Base, turn = << >> /\ writing => HasJournal(mem), [NextAll]_all_vars
    PROVE  Typed'
<1> USE DEF Typed
<1>0. Typed /\ [Next]_vars /\ QueueTyped
  BY TurnIsPatient, PatientIsNext DEF Base, PatientInv, QueueTyped
<1>1. CASE DoWrite
  <2>1. turn' \in Seq(VfsCalls) /\ txs' \in 0 .. MaxTx /\ Len(content') = clock'
        /\ content' \in Seq(Values)
    BY <1>0, <1>1, WriteFacts, NextCall
  <2>2. Contained(content', idb') /\ (saves' # << >> => Contained(content', Saving'))
    BY <1>0, <1>1, WriteFacts, ExtendsKeeps DEF WrittenAt
  <2>3. Contained(content', mem')
    <3>1. CASE turn[1].file \in DbFiles /\ turn[1].value \in PageValues
      BY <1>0, <1>1, <3>1, WriteFacts, WritePage
    <3>2. CASE turn[1].file = Journal /\ turn[1].value \in JournalValues
      BY <1>0, <1>1, <3>2, WriteFacts, WriteOriginals
    <3> QED  BY <1>1, <3>1, <3>2, WriteFacts, WriteCall
  <2> QED  BY <2>1, <2>2, <2>3
<1>2. ASSUME NEW S \in SUBSET DbFiles, NEW commits \in BOOLEAN, Execute(S, commits)
      PROVE  Typed'
  <2> DEFINE old == IF writing THEN Originals(mem) ELSE [f \in {} |-> 0]
             new == [f \in DOMAIN old \cup S |->
                        IF f \in DOMAIN old THEN old[f] ELSE Image(mem)[f]]
  <2>1. txs' \in 0 .. MaxTx
    BY <1>0, <1>2, SnapshotsAssumption DEF Execute
  <2>2. old \in JournalValues
    <3>1. turn = << >>
      BY <1>2 DEF Execute, CanCall
    <3>2. CASE writing
      BY <1>0, <3>1, <3>2, ByContent DEF HasJournal, Contained
    <3>3. CASE ~writing
      BY <3>3, NoOriginals
    <3> QED  BY <3>2, <3>3
  <2>3. new \in JournalValues /\ S \in SUBSET DOMAIN new
    <3>1. Image(mem) = ImageBy(content, mem) /\ ImageBy(content, mem) \in [DbFiles -> PageValues]
      BY BaseFacts, ByContent
    <3> HIDE DEF old
    <3>2. new = [f \in DOMAIN old \cup S |->
                    IF f \in DOMAIN old THEN old[f] ELSE ImageBy(content, mem)[f]]
      BY <3>1
    <3> HIDE DEF new
    <3>3. new \in JournalValues /\ DOMAIN new = DOMAIN old \cup S
      BY <2>2, <3>1, <3>2, NewOriginals
    <3> QED  BY <3>3
  <2>4. PICK values : /\ values = [f \in S |-> txs']
                      /\ turn' = StoreJournal(old, new) \o PutAll(S, values)
                                   \o (IF commits THEN <<SyncFile, EndTx>> ELSE << >>)
    BY <1>2 DEF Execute
  <2> HIDE DEF old, new
  <2>5. turn' \in Seq(VfsCalls)
    <3>1. \A f \in S : values[f] \in PageValues
      BY <2>1, <2>4 DEF PageValues
    <3> QED  BY <2>2, <2>3, <2>4, <3>1, StatementTurn
  <2>6. UNCHANGED <<vars, content>>
    BY <1>2 DEF Execute
  <2> QED  BY <1>0, <2>1, <2>5, <2>6 DEF vars, browser, Saving
<1>3. CASE Rollback
  <2>1. UNCHANGED <<vars, content, txs>> /\ HasJournal(mem)
    BY <1>3 DEF Rollback
  <2>2. Originals(mem) \in JournalValues
    BY <1>0, <2>1, ByContent DEF HasJournal, Contained
  <2>3. turn' \in Seq(VfsCalls)
    <3>1. turn' = (IF writing THEN << >> ELSE <<SyncFile>>)
                    \o PutAll(DOMAIN Originals(mem), Originals(mem)) \o <<SyncFile, EndTx>>
      BY <1>3 DEF Rollback
    <3>2. CASE writing
      BY <2>2, <3>1, <3>2, RollbackTurn
    <3>3. CASE ~writing
      BY <2>2, <3>1, <3>3, RollbackTurn
    <3> QED  BY <3>2, <3>3
  <2> QED  BY <1>0, <2>1, <2>3 DEF vars, browser, Saving
<1>4. CASE DoSyncFile \/ DoEndTx \/ Load \/ Leave \/ Callback \/ UNCHANGED all_vars
  <2>1. /\ turn' \in {turn, << >>} \/ (turn # << >> /\ turn' = Tail(turn))
        /\ txs' = txs /\ clock' = clock /\ content' = content
    BY <1>4 DEF DoSyncFile, IdbvfsSyncfs, DoEndTx, Remove, Load, Register, Leave, Reload,
                Callback, SaveReads, SaveDone, SaveError, SyncCallback, PopulateDone,
                PopulateError, all_vars, vars, calls, Doing
  <2>2. turn' \in Seq(VfsCalls)
    <3>1. << >> \in Seq(VfsCalls)
      OBVIOUS
    <3> QED  BY <1>0, <2>1, <3>1, NextCall
  <2>3. idb' = idb \/ (saves # << >> /\ idb' = Saving)
    BY <1>4 DEF DoSyncFile, IdbvfsSyncfs, DoEndTx, Remove, Load, Register, Leave, Reload,
                Callback, SaveReads, SaveDone, SaveError, Storing, PopulateDone,
                PopulateError, all_vars, vars, Saving
  <2>4. Contained(content, idb')
    BY <1>0, <2>3
  <2>5. \A f \in Files : mem'[f] \in {Absent, mem[f], idb[f]}
    BY <1>4, BaseFacts
       DEF DoSyncFile, IdbvfsSyncfs, DoEndTx, Remove, Load, Register, Leave, Reload,
           Callback, SaveReads, SaveDone, SaveError, SyncCallback, PopulateDone,
           PopulateError, all_vars, vars, browser, Empty
  <2>6. Contained(content, mem')
    BY <1>0, <2>5, ContainedMix
  <2>7. ASSUME saves' # << >> PROVE Contained(content, Saving')
    <3>1. \/ saves # << >> /\ Saving' = Saving
          \/ Saving' = mem
          \/ saves # << >> /\ Saving' = Reconciled(Saving)
      BY <1>0, <2>7, SavingAfter
    <3>2. ASSUME saves # << >> PROVE Contained(content, Reconciled(Saving))
      <4>1. \A f \in Files : Reconciled(Saving)[f] \in {Absent, Saving[f], idb[f], mem[f]}
        BY DEF Reconciled
      <4> QED  BY <1>0, <3>2, <4>1, ContainedMix
    <3> QED  BY <1>0, <3>1, <3>2
  <2> QED  BY <1>0, <2>1, <2>2, <2>4, <2>6, <2>7
<1> QED  BY <1>1, <1>2, <1>3, <1>4 DEF NextAll

-----------------------------------------------------------------------------
(* The inductive invariant.                                                *)

SamePages(a, b) == \A f \in DbFiles : a[f] = b[f]

\* The journal with those originals makes the files a committed database.
Undoes(originals, files) == Restored(originals, ImageBy(content, files)) \in committed

\* All is saved, but for the deletion of a journal that was played back.
Saved(values, new, old) ==
    /\ SamePages(new, old)
    /\ \/ new[Journal] = old[Journal]
       \/ old[Journal] = Absent /\ RecoveredBy(values, new) = ImageBy(values, new)

\* No page has changed since the last save.
Unlisted == saves = << >> /\ SamePages(mem, idb)

\* A save has listed the pages that IndexedDB holds, and a journal.
Listed ==
    /\ saves # << >> /\ Head(saves).phase = "listed"
    /\ SamePages(Saving, idb) /\ Saving[Journal] # Absent

Pages(k, originals) ==
    \/ Spills(turn, k, DOMAIN originals)
    \/ Ends(turn, k, DOMAIN originals) /\ ~writing

BeforeOld(old, new) ==
    /\ Unlisted /\ Undoes(old, mem) /\ Undoes(new, mem) /\ Pages(4, new)
    /\ Len(turn) >= 4 /\ turn[1] = Put(Journal, old) /\ turn[2] = SyncFile
    /\ turn[3] = Put(Journal, new) /\ turn[4] = SyncFile

BeforeFirstSync(new) ==
    /\ Unlisted /\ mem[Journal] # Absent /\ Undoes(new, mem) /\ Pages(3, new)
    /\ Len(turn) >= 3 /\ turn[1] = SyncFile
    /\ turn[2] = Put(Journal, new) /\ turn[3] = SyncFile

BeforeNew(new) ==
    /\ Listed /\ SamePages(mem, idb) /\ mem[Journal] # Absent /\ Undoes(new, mem)
    /\ Pages(2, new)
    /\ Len(turn) >= 2 /\ turn[1] = Put(Journal, new) /\ turn[2] = SyncFile

BeforeSecondSync ==
    /\ Listed /\ SamePages(mem, idb) /\ mem[Journal] # Absent
    /\ Pages(1, content[mem[Journal]])
    /\ Len(turn) >= 1 /\ turn[1] = SyncFile

\* The rollback of a hot journal syncs it first.
BeforeHotSync ==
    /\ saves = << >> /\ mem = idb /\ mem[Journal] # Absent
    /\ turn[1] = SyncFile /\ Ends(turn, 1, DOMAIN content[mem[Journal]]) /\ ~writing

\* The pages are on their way, and both journals that the save may store undo
\* those of IndexedDB.
WritingPages ==
    /\ Listed /\ mem[Journal] # Absent /\ Undoes(content[mem[Journal]], idb)
    /\ Pages(0, content[mem[Journal]])
    /\ Spills(turn, 0, DOMAIN content[mem[Journal]]) => syncQueue > 1

\* ROLLBACK puts the originals back; they have been saved.
Undoing ==
    LET originals == content[mem[Journal]]
    IN  /\ saves = << >> /\ mem[Journal] # Absent /\ mem[Journal] = idb[Journal]
        /\ Ends(turn, 0, DOMAIN originals) /\ ~writing
        /\ \A i \in 1 .. Len(turn) - 2 : turn[i].value = originals[turn[i].file]
        /\ \A f \in DOMAIN originals :
             \/ ImageBy(content, mem)[f] = originals[f]
             \/ \E i \in 1 .. Len(turn) - 2 : turn[i].file = f

\* The last xSync has answered.
Ending ==
    /\ turn = <<EndTx>> /\ ~writing /\ mem[Journal] # Absent
    /\ \/ Listed /\ Undoes(content[mem[Journal]], idb) /\ syncQueue > 1
       \/ /\ saves # << >> /\ Head(saves).phase = "listed" /\ Saving = mem
          /\ mem[Journal] = idb[Journal]
          /\ RecoveredBy(content, mem) = ImageBy(content, mem)

TurnInv ==
    \/ \E old, new \in JournalValues : BeforeOld(old, new)
    \/ \E new \in JournalValues : BeforeFirstSync(new) \/ BeforeNew(new)
    \/ BeforeSecondSync \/ BeforeHotSync \/ WritingPages \/ Undoing \/ Ending

\* What the save in flight will put into IndexedDB, if nothing else happens.
WillStore == IF Head(saves).phase = "listed" THEN Reconciled(Saving) ELSE Saving

\* Between two turns.
QuietInv ==
    /\ writing => mounted /\ mem[Journal] # Absent
    /\ mounted /\ saves = << >> => Saved(content, idb, mem)
    /\ saves # << >> => /\ RecoveredBy(content, WillStore) \in committed
                        /\ syncQueue = 1 => Saved(content, WillStore, mem)

CommittedInv ==
    /\ RecoveredBy(content, idb) \in committed
    /\ mounted => RecoveredBy(content, mem) \in committed

SnapshotInv ==
    /\ Base /\ CommittedInv
    /\ IF turn = << >> THEN QuietInv ELSE mounted /\ TurnInv

\* Files with the same pages have the same image.
LEMMA SameImage ==
    ASSUME NEW values, NEW a, NEW b, SamePages(a, b)
    PROVE  ImageBy(values, a) = ImageBy(values, b)
BY DEF SamePages, ImageBy

\* Listings with the same pages and the same journal are the same.
LEMMA SameFiles ==
    ASSUME NEW a \in Listing, NEW b \in Listing, SamePages(a, b), a[Journal] = b[Journal]
    PROVE  a = b
BY DEF SamePages, Listing, DbFiles

\* The pages of a turn come one call nearer.
LEMMA PagesNext ==
    ASSUME Base, turn # << >>, turn' = Tail(turn), writing' = writing,
           NEW k \in {1, 2, 3, 4}, NEW new \in JournalValues, Pages(k, new)
    PROVE  Pages(k - 1, new)'
<1>1. turn \in Seq(VfsCalls) /\ k \in Nat \ {0}
  BY DEF Base, Typed
<1>2. /\ Spills(turn, k, DOMAIN new) => Spills(turn', k - 1, DOMAIN new)
      /\ Ends(turn, k, DOMAIN new) => Ends(turn', k - 1, DOMAIN new)
  BY <1>1, PagesNearer
<1> QED  BY <1>2 DEF Pages

\* A call that writes keeps what IndexedDB holds, and the database of MEMFS,
\* if the new journal or the one there was undoes it.
LEMMA WriteKeeps ==
    ASSUME Base, CommittedInv, DoWrite, mounted,
           \/ turn[1].file = Journal /\ turn[1].value \in JournalValues
                /\ Undoes(turn[1].value, mem)
           \/ mem[Journal] # Absent /\ turn[1].file \in DOMAIN content[mem[Journal]]
    PROVE  /\ CommittedInv'
           /\ turn[1].file = Journal =>
                /\ mem'[Journal] # Absent /\ content'[mem'[Journal]] = turn[1].value
                /\ ImageBy(content', mem') = ImageBy(content, mem)
                /\ SamePages(mem', mem)
           /\ turn[1].file # Journal =>
                /\ mem'[Journal] = mem[Journal]
                /\ content'[mem'[Journal]] = content[mem[Journal]]
                /\ ImageBy(content', mem') =
                     [ImageBy(content, mem) EXCEPT ![turn[1].file] = turn[1].value]
           /\ ImageBy(content', idb') = ImageBy(content, idb) /\ committed' = committed
<1>0. PICK f, value : f = turn[1].file /\ value = turn[1].value
  OBVIOUS
<1>1. /\ content \in Seq(Values) /\ Contained(content, mem) /\ Contained(content, idb)
      /\ content' \in Seq(Values) /\ Extends(content', content)
      /\ WrittenAt(content, mem, f, value, content', mem')
      /\ idb' = idb /\ committed' = committed /\ mounted' = mounted
  BY <1>0, WriteFacts DEF Base, Typed, WrittenAt
<1>2. /\ ImageBy(content', idb) = ImageBy(content, idb)
      /\ RecoveredBy(content', idb) = RecoveredBy(content, idb)
      /\ mem[Journal] # Absent => content'[mem[Journal]] = content[mem[Journal]]
  BY <1>1, ExtendsKeeps
<1>3. CASE f = Journal
  <2>1. value \in JournalValues /\ Undoes(value, mem)
    <3>1. mem[Journal] # Absent => f \notin DOMAIN content[mem[Journal]]
      BY <1>1, <1>3, JournalType, BaseFacts DEF Contained
    <3> QED  BY <1>0, <1>3, <3>1
  <2>2. /\ mem'[Journal] # Absent /\ content'[mem'[Journal]] = value
        /\ ImageBy(content', mem') = ImageBy(content, mem) /\ SamePages(mem', mem)
    BY <1>1, <1>3, <2>1, WriteOriginals DEF SamePages
  <2>3. RecoveredBy(content', mem') \in committed
    BY <2>1, <2>2 DEF RecoveredBy, Undoes
  <2> QED  BY <1>0, <1>1, <1>2, <1>3, <2>2, <2>3 DEF CommittedInv
<1>4. CASE f # Journal
  <2>1. mem[Journal] # Absent /\ f \in DOMAIN content[mem[Journal]]
    BY <1>0, <1>4
  <2>2. f \in DbFiles /\ value \in PageValues
    BY <1>0, <1>4, WriteFacts, WriteCall
  <2>3. /\ mem'[Journal] = mem[Journal]
        /\ ImageBy(content', mem') = [ImageBy(content, mem) EXCEPT ![f] = value]
    <3>1. \A g \in DbFiles : ImageBy(content', mem')[g] =
                               IF g = f THEN value ELSE ImageBy(content, mem)[g]
      BY <1>1, <2>2, WritePage
    <3>2. ImageBy(content', mem') = [ImageBy(content, mem) EXCEPT ![f] = value]
      BY <3>1 DEF ImageBy
    <3> QED  BY <1>1, <2>2, <3>2, WritePage
  <2>4. RecoveredBy(content', mem') = RecoveredBy(content, mem)
    <3> DEFINE image == ImageBy(content, mem)
               originals == content[mem[Journal]]
    <3>1. Restored(originals, [image EXCEPT ![f] = value]) = Restored(originals, image)
      BY <2>1, RestoredAnyway, BaseFacts
    <3>2. RecoveredBy(content, mem) = Restored(originals, image)
      BY <2>1 DEF RecoveredBy
    <3>3. RecoveredBy(content', mem') = Restored(originals, [image EXCEPT ![f] = value])
      BY <1>2, <2>1, <2>3 DEF RecoveredBy
    <3> QED  BY <3>1, <3>2, <3>3
  <2> QED  BY <1>0, <1>1, <1>2, <1>4, <2>1, <2>3, <2>4 DEF CommittedInv
<1> QED  BY <1>3, <1>4

\* Between two turns, when the pages of a statement that does not commit are
\* written.
LEMMA PagesAreQuiet ==
    ASSUME Base, CommittedInv, mounted, WritingPages, turn = << >>
    PROVE  QuietInv
<1> DEFINE S == DOMAIN content[mem[Journal]]
<1>1. ~Ends(turn, 0, S) /\ Spills(turn, 0, S)
  <2>1. ~(0 >= 0 + 2) /\ Len(<< >>) = 0
    OBVIOUS
  <2>2. ~Ends(turn, 0, S)
    BY <2>1 DEF Ends
  <2> QED  BY <2>2 DEF WritingPages, Pages
<1>2. syncQueue > 1 /\ saves # << >> /\ Head(saves).phase = "listed" /\ SamePages(Saving, idb)
      /\ Saving[Journal] # Absent /\ mem[Journal] # Absent /\ Undoes(content[mem[Journal]], idb)
  BY <1>1 DEF WritingPages, Listed
<1>3. SamePages(WillStore, idb) /\ WillStore[Journal] \in {idb[Journal], mem[Journal]}
  BY <1>2, BaseFacts DEF WillStore, Reconciled, SamePages
<1>4. RecoveredBy(content, WillStore) \in committed
  <2>1. ImageBy(content, WillStore) = ImageBy(content, idb)
    BY <1>3, SameImage
  <2>2. CASE WillStore[Journal] = idb[Journal]
    BY <2>1, <2>2 DEF RecoveredBy, CommittedInv
  <2>3. CASE WillStore[Journal] = mem[Journal]
    BY <1>2, <2>1, <2>3 DEF RecoveredBy, Undoes
  <2> QED  BY <1>3, <2>2, <2>3
<1> QED  BY <1>2, <1>4, BaseFacts DEF QuietInv

\* The same after a step.
LEMMA QuietAfterwards ==
    (Base /\ CommittedInv /\ mounted /\ WritingPages /\ turn = << >> => QuietInv)'
<1>1. Base /\ CommittedInv /\ mounted /\ WritingPages /\ turn = << >> => QuietInv
  BY PagesAreQuiet
<1> QED  BY <1>1, PTL

\* A call of a turn that writes the journal.
LEMMA JournalStep ==
    ASSUME Base, Base', CommittedInv, mounted, DoWrite, NEW new \in JournalValues
    PROVE  /\ \A old \in JournalValues : BeforeOld(old, new) =>
                CommittedInv' /\ BeforeFirstSync(new)'
           /\ BeforeNew(new) => CommittedInv' /\ BeforeSecondSync'
<1>1. /\ turn # << >> /\ turn \in Seq(VfsCalls) /\ turn' = Tail(turn) /\ writing' = writing
      /\ saves' = saves /\ idb' = idb /\ Saving' = Saving
      /\ Len(turn') = Len(turn) - 1 /\ Len(turn) \in Nat
      /\ \A i \in 1 .. Len(turn) - 1 : turn'[i] = turn[i + 1]
  BY WriteFacts, NextCall DEF Base, Typed
<1>2. ASSUME NEW old \in JournalValues, BeforeOld(old, new)
      PROVE  CommittedInv' /\ BeforeFirstSync(new)'
  <2>1. turn[1].file = Journal /\ turn[1].value = old /\ Undoes(old, mem)
    BY <1>2, PutType DEF BeforeOld
  <2>2. /\ CommittedInv' /\ mem'[Journal] # Absent /\ committed' = committed
        /\ ImageBy(content', mem') = ImageBy(content, mem) /\ SamePages(mem', mem)
    BY <2>1, WriteKeeps
  <2>3. Undoes(new, mem)'
    BY <1>2, <2>2 DEF BeforeOld, Undoes
  <2>4. Pages(3, new)'
    <3>1. Pages(4 - 1, new)'
      BY <1>1, <1>2, PagesNext DEF BeforeOld
    <3> QED  BY <3>1
  <2>5. Len(turn') >= 3 /\ turn'[1] = SyncFile /\ turn'[2] = Put(Journal, new)
        /\ turn'[3] = SyncFile
    BY <1>1, <1>2 DEF BeforeOld
  <2>6. Unlisted'
    BY <1>1, <1>2, <2>2 DEF BeforeOld, Unlisted, SamePages
  <2> QED  BY <2>2, <2>3, <2>4, <2>5, <2>6 DEF BeforeFirstSync
<1>3. ASSUME BeforeNew(new) PROVE CommittedInv' /\ BeforeSecondSync'
  <2>1. turn[1].file = Journal /\ turn[1].value = new /\ Undoes(new, mem)
    BY <1>3, PutType DEF BeforeNew
  <2>2. /\ CommittedInv' /\ mem'[Journal] # Absent /\ committed' = committed
        /\ content'[mem'[Journal]] = new /\ SamePages(mem', mem)
    BY <2>1, WriteKeeps
  <2>3. Pages(1, new)'
    <3>1. Pages(2 - 1, new)'
      BY <1>1, <1>3, PagesNext DEF BeforeNew
    <3> QED  BY <3>1
  <2>4. Len(turn') >= 1 /\ turn'[1] = SyncFile
    BY <1>1, <1>3 DEF BeforeNew
  <2>5. Listed' /\ SamePages(mem', idb')
    BY <1>1, <1>3, <2>2 DEF BeforeNew, Listed, SamePages
  <2>6. Pages(1, content[mem[Journal]])'
    BY <2>2, <2>3 DEF Pages
  <2> QED  BY <2>2, <2>4, <2>5, <2>6 DEF BeforeSecondSync
<1> QED  BY <1>2, <1>3

\* A call of a turn that writes a page.
LEMMA PageStep ==
    ASSUME Base, Base', CommittedInv, mounted, DoWrite, WritingPages \/ Undoing
    PROVE  CommittedInv' /\ (WritingPages' \/ Undoing')
<1> DEFINE originals == content[mem[Journal]]
           S == DOMAIN originals
           f == turn[1].file
<1>1. /\ turn # << >> /\ turn \in Seq(VfsCalls) /\ turn' = Tail(turn) /\ writing' = writing
      /\ saves' = saves /\ idb' = idb /\ Saving' = Saving /\ turn[1].op = "write"
      /\ syncQueue' = syncQueue
      /\ Len(turn') = Len(turn) - 1 /\ Len(turn) \in Nat
      /\ \A i \in 1 .. Len(turn) - 1 : turn'[i] = turn[i + 1]
  BY WriteFacts, NextCall DEF Base, Typed
<1>2. /\ Spills(turn, 0, S) => IsPutOf(turn[1], S) /\ Spills(turn', 0, S)
      /\ Ends(turn, 0, S) => IsPutOf(turn[1], S) /\ Ends(turn', 0, S)
  BY <1>1, PageDone
<1>3. f \in S /\ mem[Journal] # Absent
  BY <1>2 DEF WritingPages, Undoing, Pages, IsPutOf
<1>4. f # Journal
  BY <1>3, JournalType, BaseFacts DEF Base, Typed, Contained
<1>5. /\ CommittedInv' /\ mem'[Journal] = mem[Journal] /\ content'[mem'[Journal]] = originals
      /\ ImageBy(content', mem') = [ImageBy(content, mem) EXCEPT ![f] = turn[1].value]
      /\ ImageBy(content', idb') = ImageBy(content, idb) /\ committed' = committed
  BY <1>3, <1>4, WriteKeeps
<1>6. CASE WritingPages
  <2>1. Pages(0, content[mem[Journal]])'
    BY <1>1, <1>2, <1>5, <1>6 DEF WritingPages, Pages
  <2>2. Undoes(content[mem[Journal]], idb)'
    BY <1>5, <1>6 DEF WritingPages, Undoes
  <2>3. Spills(turn, 0, S)
           => Spills(turn, 0, S) /\ syncQueue > 1
    BY <1>6 DEF WritingPages
  <2>4. Spills(turn', 0, S) => Spills(turn, 0, S)
    <3> SUFFICES ASSUME Spills(turn', 0, S), NEW i \in 1 .. Len(turn)
                 PROVE  IsPutOf(turn[i], S)
      BY DEF Spills
    <3>1. CASE i = 1
      BY <1>2, <1>6, <3>1 DEF WritingPages, Pages
    <3>2. CASE i # 1
      <4>1. i - 1 \in 1 .. Len(turn') /\ turn'[i - 1] = turn[i]
        BY <1>1, <3>2
      <4>2. IsPutOf(turn'[i - 1], S)
        BY <4>1 DEF Spills
      <4> QED  BY <4>1, <4>2
    <3> QED  BY <3>1, <3>2
  <2>5. Listed'
    BY <1>1, <1>6 DEF WritingPages, Listed, SamePages
  <2> QED
    BY <1>1, <1>3, <1>5, <2>1, <2>2, <2>3, <2>4, <2>5 DEF WritingPages
<1>7. CASE Undoing
  <2>1. Ends(turn, 0, S) /\ ~writing /\ Ends(turn', 0, S)
    BY <1>2, <1>7 DEF Undoing
  <2>2. Len(turn) >= 3
    <3>1. Len(turn') >= 0 + 2
      BY <2>1 DEF Ends
    <3> QED  BY <1>1, <3>1
  <2>3. turn[1].value = originals[f]
    BY <1>1, <1>7, <2>2 DEF Undoing
  <2>4. ASSUME NEW i \in 1 .. Len(turn') - 2
        PROVE  turn'[i].value = originals[turn'[i].file]
    <3>1. i + 1 \in 1 .. Len(turn) - 2 /\ turn'[i] = turn[i + 1]
      BY <1>1
    <3> QED  BY <1>7, <3>1 DEF Undoing
  <2>5. ASSUME NEW g \in S
        PROVE  \/ ImageBy(content', mem')[g] = originals[g]
               \/ \E i \in 1 .. Len(turn') - 2 : turn'[i].file = g
    <3>0. g \in DbFiles /\ ImageBy(content, mem) \in [DbFiles -> PageValues]
      BY <1>3, JournalType, BaseFacts DEF Base, Typed, Contained
    <3>1. CASE g = f
      BY <1>5, <2>3, <3>0, <3>1
    <3>2. CASE g # f /\ ImageBy(content, mem)[g] = originals[g]
      BY <1>5, <3>0, <3>2
    <3>3. CASE g # f /\ \E i \in 1 .. Len(turn) - 2 : turn[i].file = g
      <4>1. PICK i \in 1 .. Len(turn) - 2 : turn[i].file = g
        BY <3>3
      <4>2. i # 1
        BY <3>3, <4>1
      <4>3. i - 1 \in 1 .. Len(turn') - 2 /\ turn'[i - 1] = turn[i]
        BY <1>1, <4>2
      <4> QED  BY <4>1, <4>3
    <3> QED  BY <1>7, <3>1, <3>2, <3>3 DEF Undoing
  <2>6. saves' = << >> /\ mem'[Journal] # Absent /\ mem'[Journal] = idb'[Journal]
    BY <1>1, <1>5, <1>7 DEF Undoing
  <2>7. Undoing'
    BY <1>1, <1>5, <2>1, <2>4, <2>5, <2>6 DEF Undoing
  <2> QED  BY <1>5, <2>7
<1> QED  BY <1>6, <1>7

\* An xSync of a turn.
LEMMA SyncStep ==
    ASSUME Base, Base', CommittedInv, mounted, DoSyncFile,
           \/ \E new \in JournalValues : BeforeFirstSync(new)
           \/ BeforeSecondSync \/ BeforeHotSync \/ WritingPages \/ Undoing
    PROVE  /\ CommittedInv'
           /\ \/ \E new \in JournalValues : BeforeNew(new)'
              \/ WritingPages' \/ Ending'
<1> DEFINE originals == content[mem[Journal]]
           S == DOMAIN originals
<1>1. /\ turn # << >> /\ turn \in Seq(VfsCalls) /\ turn' = Tail(turn) /\ writing' = writing
      /\ turn[1] = SyncFile /\ turn[1].op # "write"
      /\ Len(turn') = Len(turn) - 1 /\ Len(turn) \in Nat
      /\ \A i \in 1 .. Len(turn) - 1 : turn'[i] = turn[i + 1]
  BY SyncFacts, NextCall, OtherCalls DEF Base, Typed
<1>2. /\ saves' # << >>
      /\ saves = << >> => Saving' = mem /\ Head(saves').phase = "listed"
      /\ saves # << >> => saves' = saves /\ Saving' = Saving /\ syncQueue' > 1
      /\ UNCHANGED <<idb, mem, content, committed, mounted>>
  BY SyncFacts
<1>3. CommittedInv'
  BY <1>2 DEF CommittedInv
<1>4. ASSUME NEW new \in JournalValues, BeforeFirstSync(new) PROVE BeforeNew(new)'
  <2>1. Pages(2, new)'
    <3>1. Pages(3 - 1, new)'
      BY <1>1, <1>4, PagesNext DEF BeforeFirstSync
    <3> QED  BY <3>1
  <2>2. Listed' /\ SamePages(mem', idb') /\ mem'[Journal] # Absent
    BY <1>2, <1>4 DEF BeforeFirstSync, Unlisted, Listed, SamePages
  <2>3. Undoes(new, mem)'
    BY <1>2, <1>4 DEF BeforeFirstSync, Undoes
  <2>4. Len(turn') >= 2 /\ turn'[1] = Put(Journal, new) /\ turn'[2] = SyncFile
    BY <1>1, <1>4 DEF BeforeFirstSync
  <2> QED  BY <2>1, <2>2, <2>3, <2>4 DEF BeforeNew
<1>5. CASE BeforeSecondSync
  <2>1. originals \in JournalValues /\ mem[Journal] # Absent
    BY <1>5 DEF BeforeSecondSync, Base, Typed, Contained
  <2>2. Pages(0, content[mem[Journal]])'
    <3>1. /\ Spills(turn, 1, S) => Spills(turn', 1 - 1, S)
          /\ Ends(turn, 1, S) => Ends(turn', 1 - 1, S)
      BY <1>1, PagesNearer
    <3> QED  BY <1>1, <1>2, <1>5, <3>1 DEF BeforeSecondSync, Pages
  <2>3. syncQueue' > 1 /\ Listed'
    BY <1>2, <1>5 DEF BeforeSecondSync, Listed, SamePages
  <2>4. Undoes(content[mem[Journal]], idb)'
    <3>1. ImageBy(content, mem) = ImageBy(content, idb)
      BY <1>5, SameImage DEF BeforeSecondSync
    <3> QED  BY <1>2, <2>1, <3>1 DEF CommittedInv, RecoveredBy, Undoes
  <2> QED  BY <1>2, <1>3, <2>1, <2>2, <2>3, <2>4 DEF WritingPages
<1>6. CASE BeforeHotSync
  <2>1. /\ saves = << >> /\ mem = idb /\ mem[Journal] # Absent /\ Ends(turn, 1, S) /\ ~writing
    BY <1>6 DEF BeforeHotSync
  <2>2. Ends(turn', 0, S)
    <3>1. Ends(turn', 1 - 1, S)
      BY <1>1, <2>1, PagesNearer
    <3> QED  BY <3>1
  <2>3. Listed'
    BY <1>2, <2>1 DEF Listed, SamePages
  <2>4. Undoes(content[mem[Journal]], idb)'
    BY <1>2, <2>1 DEF CommittedInv, RecoveredBy, Undoes
  <2>5. ~Spills(turn', 0, S)
    BY <2>2, OtherCalls DEF Ends, Spills, IsPutOf
  <2> QED  BY <1>1, <1>2, <1>3, <2>1, <2>2, <2>3, <2>4, <2>5 DEF WritingPages, Pages
<1>7. CASE WritingPages \/ Undoing
  <2>1. Ends(turn, 0, S) /\ ~writing
    <3>1. ~Spills(turn, 0, S)
      BY <1>1 DEF Spills, IsPutOf
    <3> QED  BY <1>7, <3>1 DEF WritingPages, Undoing, Pages
  <2>2. Len(turn) = 2 /\ turn' = <<EndTx>>
    BY <1>1, <2>1, LastCalls
  <2>3. CASE WritingPages
    <3>1. Listed' /\ syncQueue' > 1 /\ mem'[Journal] # Absent
      BY <1>2, <2>3 DEF WritingPages, Listed, SamePages
    <3>2. Undoes(content[mem[Journal]], idb)'
      BY <1>2, <2>3 DEF WritingPages, Undoes
    <3> QED  BY <1>1, <1>3, <2>1, <2>2, <3>1, <3>2 DEF Ending
  <2>4. CASE Undoing
    <3>1. saves = << >> /\ mem[Journal] # Absent /\ mem[Journal] = idb[Journal]
      BY <2>4 DEF Undoing
    <3>2. \A f \in S : ImageBy(content, mem)[f] = originals[f]
      BY <2>2, <2>4 DEF Undoing
    <3>3. RecoveredBy(content, mem) = ImageBy(content, mem)
      BY <3>1, <3>2, BaseFacts DEF RecoveredBy, Restored
    <3> QED  BY <1>1, <1>2, <1>3, <2>1, <2>2, <3>1, <3>3 DEF Ending
  <2> QED  BY <1>7, <2>3, <2>4
<1> QED  BY <1>3, <1>4, <1>5, <1>6, <1>7

\* The end of a transaction.
LEMMA EndStep ==
    ASSUME Base, Base', CommittedInv, mounted, DoEndTx, Ending
    PROVE  CommittedInv' /\ turn' = << >> /\ QuietInv'
<1>1. /\ turn' = Tail(turn) /\ mem' = [mem EXCEPT ![Journal] = Absent] /\ mem[Journal] # Absent
      /\ committed' = committed \cup {ImageBy(content, mem)}
      /\ UNCHANGED <<idb, saves, Saving, syncQueue, content, mounted, writing>>
  BY EndFacts
<1>2. turn' = << >>
  <2>1. Tail(<<EndTx>>) = << >>
    OBVIOUS
  <2> QED  BY <1>1, <2>1 DEF Ending
<1>3. /\ mem'[Journal] = Absent /\ \A f \in DbFiles : mem'[f] = mem[f]
      /\ SamePages(mem', mem)
  BY <1>1, BaseFacts DEF SamePages
<1>4. RecoveredBy(content', mem') = ImageBy(content, mem)
  BY <1>1, <1>3, SameImage DEF RecoveredBy
<1>5. CommittedInv'
  BY <1>1, <1>4 DEF CommittedInv
<1>6. /\ saves # << >> /\ Head(saves).phase = "listed" /\ ~writing /\ Saving \in Listing
      /\ idb \in Listing /\ mem \in Listing
  BY BaseFacts DEF Ending, Listed
<1>7. WillStore' = Reconciled(Saving)'
  BY <1>1, <1>6 DEF WillStore
<1> DEFINE stored == Reconciled(Saving)'
<1>8. /\ \A f \in DbFiles : stored[f] = IF Saving[f] \in {Absent, idb[f]} THEN Saving[f]
                                        ELSE IF mem[f] = Absent THEN idb[f] ELSE mem[f]
      /\ stored[Journal] = IF Saving[Journal] \in {Absent, idb[Journal]} THEN Saving[Journal]
                           ELSE idb[Journal]
  BY <1>1, <1>3, BaseFacts DEF Reconciled
<1> HIDE DEF stored
<1>9. CASE Listed /\ syncQueue > 1
  <2>1. SamePages(stored, idb) /\ stored[Journal] = idb[Journal]
    BY <1>8, <1>9 DEF Listed, SamePages
  <2>2. RecoveredBy(content, stored) = RecoveredBy(content, idb)
    BY <2>1, SameImage DEF RecoveredBy
  <2>3. RecoveredBy(content, stored) \in committed
    BY <2>2 DEF CommittedInv
  <2>4. syncQueue # 1
    BY <1>9, BaseFacts
  <2> QED  BY <1>1, <1>2, <1>5, <1>6, <1>7, <1>9, <2>3, <2>4 DEF QuietInv, stored
<1>10. CASE /\ Saving = mem /\ mem[Journal] = idb[Journal]
            /\ RecoveredBy(content, mem) = ImageBy(content, mem)
  <2>1. SamePages(stored, mem) /\ stored[Journal] = mem[Journal]
    BY <1>8, <1>10 DEF SamePages
  <2>2. RecoveredBy(content, stored) = RecoveredBy(content, mem)
        /\ ImageBy(content, stored) = ImageBy(content, mem)
    BY <2>1, SameImage DEF RecoveredBy
  <2>3. RecoveredBy(content, stored) \in committed
    BY <2>2 DEF CommittedInv
  <2>4. Saved(content, stored, mem')
    BY <1>3, <1>10, <2>1, <2>2 DEF Saved, SamePages
  <2> QED  BY <1>1, <1>2, <1>5, <1>6, <1>7, <2>3, <2>4 DEF QuietInv, stored
<1> QED  BY <1>9, <1>10 DEF Ending

\* Every call of a turn keeps the invariant.
LEMMA TurnStep ==
    ASSUME SnapshotInv, Base', turn # << >>, DoWrite \/ DoSyncFile \/ DoEndTx
    PROVE  SnapshotInv'
<1>1. Base /\ CommittedInv /\ mounted /\ TurnInv
  BY DEF SnapshotInv
<1>2. mounted' = mounted
  BY <1>1, WriteFacts, SyncFacts, EndFacts
<1>3. /\ DoWrite => turn[1].op = "write"
      /\ DoSyncFile => turn[1] = SyncFile
      /\ DoEndTx => turn[1] = EndTx
  BY <1>1, WriteFacts, SyncFacts, EndFacts
<1>4. /\ \A new : Put(Journal, new).op = "write"
      /\ SyncFile.op = "sync" /\ EndTx.op = "remove"
  BY DEF Put, SyncFile, EndTx
<1>5. ASSUME TurnInv', CommittedInv' PROVE SnapshotInv'
  <2>1. CASE turn' # << >>
    BY <1>1, <1>2, <1>5, <2>1 DEF SnapshotInv
  <2>2. CASE turn' = << >>
    <3>1. Len(turn') = 0 /\ ~(Len(turn') >= 1) /\ ~(Len(turn') >= 2) /\ ~(Len(turn') >= 3)
          /\ ~(Len(turn') >= 4) /\ turn' # <<EndTx>>
      BY <2>2
    <3>2. \A S : ~Ends(turn', 0, S) /\ ~Ends(turn', 1, S)
      BY <3>1 DEF Ends
    <3>3. WritingPages'
      <4>1. ~BeforeHotSync' /\ ~Undoing'
        BY <3>2 DEF BeforeHotSync, Undoing
      <4>2. ~BeforeSecondSync' /\ ~Ending'
        BY <3>1 DEF BeforeSecondSync, Ending
      <4>3. \A old, new \in JournalValues :
              ~BeforeOld(old, new)' /\ ~BeforeFirstSync(new)' /\ ~BeforeNew(new)'
        BY <3>1 DEF BeforeOld, BeforeFirstSync, BeforeNew
      <4> QED  BY <1>5, <4>1, <4>2, <4>3 DEF TurnInv
    <3>4. QuietInv'
      BY <1>1, <1>2, <1>5, <2>2, <3>3, QuietAfterwards
    <3> QED  BY <1>5, <2>2, <3>4 DEF SnapshotInv
  <2> QED  BY <2>1, <2>2
<1>6. ASSUME NEW old \in JournalValues, NEW new \in JournalValues, BeforeOld(old, new)
      PROVE  SnapshotInv'
  <2>1. DoWrite
    BY <1>3, <1>4, <1>6 DEF BeforeOld
  <2>2. CommittedInv' /\ BeforeFirstSync(new)'
    BY <1>1, <1>6, <2>1, JournalStep
  <2> QED  BY <1>5, <2>2 DEF TurnInv
<1>7. ASSUME NEW new \in JournalValues, BeforeNew(new) PROVE SnapshotInv'
  <2>1. DoWrite
    BY <1>3, <1>4, <1>7 DEF BeforeNew
  <2>2. CommittedInv' /\ BeforeSecondSync'
    BY <1>1, <1>7, <2>1, JournalStep
  <2> QED  BY <1>5, <2>2 DEF TurnInv
<1>8. CASE \/ \E new \in JournalValues : BeforeFirstSync(new)
           \/ BeforeSecondSync \/ BeforeHotSync
  <2>1. turn[1] = SyncFile
    BY <1>8 DEF BeforeFirstSync, BeforeSecondSync, BeforeHotSync
  <2>2. DoSyncFile
    BY <1>3, <1>4, <2>1
  <2>3. CommittedInv' /\ TurnInv'
    BY <1>1, <1>8, <2>2, SyncStep DEF TurnInv
  <2> QED  BY <1>5, <2>3
<1>9. CASE WritingPages \/ Undoing
  <2>1. CASE DoWrite
    <3>1. CommittedInv' /\ TurnInv'
      BY <1>1, <1>9, <2>1, PageStep DEF TurnInv
    <3> QED  BY <1>5, <3>1
  <2>2. CASE DoSyncFile
    <3>1. CommittedInv' /\ TurnInv'
      BY <1>1, <1>9, <2>2, SyncStep DEF TurnInv
    <3> QED  BY <1>5, <3>1
  <2>3. CASE DoEndTx
    <3>1. turn[1] = EndTx /\ turn[1].op # "write" /\ turn[1] # SyncFile
          /\ turn \in Seq(VfsCalls)
      BY <1>1, <1>3, <2>3, OtherCalls DEF Base, Typed
    <3>2. ~Ends(turn, 0, DOMAIN content[mem[Journal]])
      BY <3>1, LastCalls
    <3>3. Len(turn) \in Nat \ {0}
      BY <3>1, NextCall
    <3>4. ~Spills(turn, 0, DOMAIN content[mem[Journal]])
      BY <3>1, <3>3 DEF Spills, IsPutOf
    <3> QED  BY <1>9, <3>2, <3>4 DEF WritingPages, Undoing, Pages
  <2> QED  BY <2>1, <2>2, <2>3
<1>10. CASE Ending
  <2>1. turn[1] = EndTx
    BY <1>10 DEF Ending
  <2>2. DoEndTx
    BY <1>3, <1>4, <2>1
  <2> QED  BY <1>1, <1>2, <1>10, <2>2, EndStep DEF SnapshotInv
<1> QED  BY <1>1, <1>6, <1>7, <1>8, <1>9, <1>10 DEF TurnInv

\* The turns that begin.
LEMMA CallStep ==
    ASSUME Patient, SnapshotInv, Base', turn = << >>,
           Rollback \/ \E S \in SUBSET DbFiles, commits \in BOOLEAN : Execute(S, commits)
    PROVE  SnapshotInv'
<1>1. /\ Base /\ CommittedInv /\ QuietInv /\ CanCall
      /\ UNCHANGED <<vars, content, committed>>
  BY DEF SnapshotInv, Rollback, Execute
<1>2. /\ mounted /\ saves = << >> /\ Saved(content, idb, mem)
  <2>1. mounted /\ syncQueue = 0
    BY <1>1 DEF CanCall, CanUse, Patient
  <2> QED  BY <1>1, <2>1, BaseFacts DEF QuietInv
<1>3. /\ CommittedInv' /\ mounted' /\ saves' = saves /\ mem' = mem /\ idb' = idb
      /\ content' = content /\ committed' = committed
  BY <1>1, <1>2 DEF CommittedInv, vars, browser
<1>4. ASSUME TurnInv', turn' # << >> PROVE SnapshotInv'
  BY <1>3, <1>4 DEF SnapshotInv
<1>5. ASSUME NEW S \in SUBSET DbFiles, NEW commits \in BOOLEAN, Execute(S, commits)
      PROVE  SnapshotInv'
  <2> DEFINE old == IF writing THEN Originals(mem) ELSE [f \in {} |-> 0]
             new == [f \in DOMAIN old \cup S |->
                        IF f \in DOMAIN old THEN old[f] ELSE Image(mem)[f]]
  <2>1. txs' \in PageValues /\ writing' = ~commits
    BY <1>5 DEF Execute, Base, Typed, PageValues
  <2>2. PICK values : /\ values = [f \in S |-> txs']
                      /\ turn' = StoreJournal(old, new) \o PutAll(S, values)
                                   \o (IF commits THEN <<SyncFile, EndTx>> ELSE << >>)
    BY <1>5 DEF Execute
  <2>3. old \in JournalValues /\ Restored(old, ImageBy(content, mem)) \in committed
    <3>1. CASE writing
      BY <1>1, <1>2, <3>1, ByContent
         DEF QuietInv, Base, Typed, Contained, CommittedInv, RecoveredBy
    <3>2. CASE ~writing
      <4>1. mem[Journal] = Absent
        BY <1>5, <3>2 DEF Execute, HasJournal
      <4> QED
        BY <1>1, <1>2, <3>2, <4>1, NoOriginals, BaseFacts DEF CommittedInv, RecoveredBy
    <3> QED  BY <3>1, <3>2
  <2>4. /\ new \in JournalValues /\ S \in SUBSET DOMAIN new
        /\ Restored(new, ImageBy(content, mem)) = Restored(old, ImageBy(content, mem))
    <3>1. Image(mem) = ImageBy(content, mem) /\ ImageBy(content, mem) \in [DbFiles -> PageValues]
      BY <1>1, BaseFacts, ByContent
    <3> HIDE DEF old
    <3>2. new = [f \in DOMAIN old \cup S |->
                    IF f \in DOMAIN old THEN old[f] ELSE ImageBy(content, mem)[f]]
      BY <3>1
    <3> HIDE DEF new
    <3>3. new \in JournalValues /\ DOMAIN new = DOMAIN old \cup S
          /\ Restored(new, ImageBy(content, mem)) = Restored(old, ImageBy(content, mem))
      BY <2>3, <3>1, <3>2, NewOriginals
    <3> QED  BY <3>3
  <2>5. PICK o \in JournalValues, n \in JournalValues : o = old /\ n = new
    BY <2>3, <2>4
  <2> HIDE DEF old, new
  <2>6. /\ turn' \in Seq(VfsCalls) /\ Len(turn') >= 4
        /\ turn'[1] = Put(Journal, o) /\ turn'[2] = SyncFile
        /\ turn'[3] = Put(Journal, n) /\ turn'[4] = SyncFile
        /\ IF commits THEN Ends(turn', 4, DOMAIN n) ELSE Spills(turn', 4, DOMAIN n)
    <3>1. S \in SUBSET DOMAIN n /\ \A f \in S : values[f] \in PageValues
      BY <2>1, <2>2, <2>4, <2>5
    <3>2. PICK todo : todo = turn'
      OBVIOUS
    <3>3. todo = StoreJournal(o, n) \o PutAll(S, values)
                   \o (IF commits THEN <<SyncFile, EndTx>> ELSE << >>)
      BY <2>2, <2>5, <3>2
    <3>4. todo \in Seq(VfsCalls) /\ Len(todo) >= 4
      BY <3>1, <3>3, StatementTurn
    <3>5. todo[1] = Put(Journal, o) /\ todo[2] = SyncFile
      BY <3>1, <3>3, StatementTurn
    <3>7. todo[3] = Put(Journal, n) /\ todo[4] = SyncFile
      BY <3>1, <3>3, StatementTurn
    <3>6. IF commits THEN Ends(todo, 4, DOMAIN n) ELSE Spills(todo, 4, DOMAIN n)
      BY <3>1, <3>3, StatementTurn
    <3> QED  BY <3>2, <3>4, <3>5, <3>6, <3>7
  <2>7. Undoes(o, mem)' /\ Undoes(n, mem)'
    BY <1>3, <2>3, <2>4, <2>5 DEF Undoes
  <2>8. Unlisted'
    BY <1>2, <1>3 DEF Unlisted, Saved, SamePages
  <2>9. Pages(4, n)'
    BY <2>1, <2>6 DEF Pages
  <2>10. BeforeOld(o, n)'
    BY <2>6, <2>7, <2>8, <2>9 DEF BeforeOld
  <2>11. turn' # << >>
    BY <2>6
  <2> QED  BY <1>4, <2>10, <2>11 DEF TurnInv
<1>6. CASE Rollback
  <2>1. /\ mem[Journal] # Absent /\ writing' = FALSE
        /\ turn' = (IF writing THEN << >> ELSE <<SyncFile>>)
                     \o PutAll(DOMAIN Originals(mem), Originals(mem)) \o <<SyncFile, EndTx>>
    BY <1>6 DEF Rollback, HasJournal
  <2>2. PICK o \in JournalValues : o = content[mem[Journal]] /\ o = Originals(mem)
    BY <1>1, <2>1, ByContent DEF Base, Typed, Contained
  <2>3. mem = idb
    BY <1>1, <1>2, <2>1, BaseFacts, SameFiles DEF Saved, SamePages
  <2>4. content'[mem'[Journal]] = o
    BY <1>3, <2>2
  <2>5. CASE ~writing
    <3>1. turn' \in Seq(VfsCalls) /\ Ends(turn', 1, DOMAIN o) /\ turn'[1] = SyncFile
      BY <2>1, <2>2, <2>5, RollbackTurn
    <3>2. turn' # << >>
      BY <3>1 DEF Ends
    <3> QED  BY <1>2, <1>3, <1>4, <2>1, <2>3, <2>4, <3>1, <3>2 DEF TurnInv, BeforeHotSync
  <2>6. CASE writing
    <3>1. /\ Ends(turn', 0, DOMAIN o)
          /\ \A i \in 1 .. Len(turn') - 2 : turn'[i].value = o[turn'[i].file]
          /\ \A f \in DOMAIN o : \E i \in 1 .. Len(turn') - 2 : turn'[i].file = f
      <4>1. PICK todo : todo = turn'
        OBVIOUS
      <4>2. todo = (IF ~FALSE THEN << >> ELSE <<SyncFile>>)
                     \o PutAll(DOMAIN o, o) \o <<SyncFile, EndTx>>
        BY <2>1, <2>2, <2>6, <4>1
      <4>3. Ends(todo, 0, DOMAIN o)
        BY <4>2, RollbackTurn
      <4>4. 0 + 1 = 1
        OBVIOUS
      <4>5. \A i \in 0 + 1 .. Len(todo) - 2 : todo[i].value = o[todo[i].file]
        BY <4>2, RollbackTurn
      <4>6. \A f \in DOMAIN o : \E i \in 0 + 1 .. Len(todo) - 2 : todo[i].file = f
        BY <4>2, RollbackTurn
      <4> QED  BY <4>1, <4>3, <4>4, <4>5, <4>6, Zenon
    <3>2. turn' # << >>
      BY <3>1 DEF Ends
    <3>3. Undoing'
      BY <1>2, <1>3, <2>1, <2>3, <2>4, <3>1 DEF Undoing
    <3> QED  BY <1>4, <3>2, <3>3 DEF TurnInv
  <2> QED  BY <2>5, <2>6
<1> QED  BY <1>5, <1>6

\* A step that leaves the files, the saves and the call as they are.
LEMMA NothingHappens ==
    ASSUME SnapshotInv, Base',
           UNCHANGED <<mem, idb, mounted, saves, syncQueue, turn, writing, content, committed>>
    PROVE  SnapshotInv'
<1>1. CommittedInv'
  BY DEF SnapshotInv, CommittedInv
<1>2. CASE turn = << >>
  <2>1. QuietInv /\ Saving' = Saving /\ WillStore' = WillStore
    BY <1>2 DEF SnapshotInv, Saving, WillStore, Reconciled
  <2> QED  BY <1>1, <1>2, <2>1 DEF SnapshotInv, QuietInv
<1>3. CASE turn # << >>
  <2>1. TurnInv /\ mounted /\ Saving' = Saving
    BY <1>3 DEF SnapshotInv, Saving
  <2>2. \A k, values : Pages(k, values)' = Pages(k, values)
    BY DEF Pages
  <2>3. /\ Unlisted' = Unlisted /\ Listed' = Listed
        /\ \A values : Undoes(values, mem)' = Undoes(values, mem)
        /\ \A values : Undoes(values, idb)' = Undoes(values, idb)
    BY <2>1 DEF Unlisted, Listed, Undoes
  <2>4. \A old, new \in JournalValues :
           /\ BeforeOld(old, new) => BeforeOld(old, new)'
           /\ BeforeFirstSync(new) => BeforeFirstSync(new)'
           /\ BeforeNew(new) => BeforeNew(new)'
    BY <2>2, <2>3 DEF BeforeOld, BeforeFirstSync, BeforeNew
  <2>5. /\ BeforeSecondSync => BeforeSecondSync'
        /\ BeforeHotSync => BeforeHotSync'
        /\ WritingPages => WritingPages'
    BY <2>2, <2>3 DEF BeforeSecondSync, BeforeHotSync, WritingPages, Undoes, Pages
  <2>6. /\ Undoing => Undoing'
        /\ Ending => Ending'
    BY <2>1, <2>3 DEF Undoing, Ending, Undoes
  <2> QED  BY <1>1, <1>3, <2>1, <2>4, <2>5, <2>6 DEF SnapshotInv, TurnInv
<1> QED  BY <1>2, <1>3

\* The page goes away.
LEMMA LeaveStep ==
    ASSUME SnapshotInv, Base', Leave
    PROVE  SnapshotInv'
<1>1. /\ turn' = << >> /\ writing' = FALSE /\ ~mounted' /\ saves' = << >>
      /\ content' = content /\ committed' = committed
      /\ \/ idb' = idb
         \/ Storing /\ idb' = Saving
  <2>1. idb' \in {idb} \cup (IF Storing THEN {Saving} ELSE {})
    BY DEF Leave, Reload, Saving
  <2>2. (idb' = idb) \/ (Storing /\ idb' = Saving)
    BY <2>1
  <2> QED  BY <2>2 DEF Leave, Reload
<1>2. ASSUME Storing PROVE RecoveredBy(content, Saving) \in committed
  <2>1. Head(saves).phase = "stored" /\ saves # << >> /\ "stored" # "listed"
    BY <1>2 DEF Storing
  <2>2. turn = << >>
    BY <2>1 DEF SnapshotInv, TurnInv, BeforeOld, BeforeFirstSync, BeforeNew, BeforeSecondSync,
               BeforeHotSync, WritingPages, Undoing, Ending, Unlisted, Listed
  <2> QED  BY <2>1, <2>2 DEF SnapshotInv, QuietInv, WillStore
<1>3. RecoveredBy(content, idb) \in committed
  BY DEF SnapshotInv, CommittedInv
<1>4. CommittedInv' /\ QuietInv'
  BY <1>1, <1>2, <1>3 DEF CommittedInv, QuietInv
<1> QED  BY <1>1, <1>4 DEF SnapshotInv

\* A save reads the files that it will store.
LEMMA ReadStep ==
    ASSUME SnapshotInv, Base', turn = << >>, UNCHANGED calls, SaveReads
    PROVE  SnapshotInv'
<1>1. /\ Base /\ CommittedInv /\ QuietInv
      /\ UNCHANGED <<mem, idb, mounted, syncQueue, turn, writing, content, committed>>
  BY DEF SnapshotInv, SaveReads, calls, history
<1>2. saves # << >> /\ Head(saves).phase = "listed" /\ QueueTyped
  BY <1>1 DEF SaveReads, Base, PatientInv, QueueTyped
<1>3. saves' # << >> /\ Head(saves').phase = "stored" /\ Saving' = Reconciled(Saving)
  <2>1. PICK fresh : fresh = Save("stored", Reconciled(Saving), AllReadable(Saving))
    OBVIOUS
  <2>2. AllReadable(Saving) \in BOOLEAN
    BY DEF AllReadable
  <2>3. fresh \in SaveType /\ fresh.phase = "stored" /\ fresh.files = Reconciled(Saving)
    BY <1>1, <1>2, <2>1, <2>2, BaseFacts, ReconciledIsListing, SaveIsTyped DEF QueueTyped
  <2>4. saves' = <<fresh>> \o << >>
    BY <1>1, <1>2, <2>1, BaseFacts DEF SaveReads, Saving
  <2> QED  BY <2>3, <2>4, Singleton DEF Saving
<1>4. WillStore' = WillStore
  BY <1>2, <1>3 DEF WillStore
<1> QED  BY <1>1, <1>2, <1>3, <1>4 DEF SnapshotInv, CommittedInv, QuietInv

\* A save is done, and the next one lists the files as they are.
LEMMA DoneStep ==
    ASSUME SnapshotInv, Base', turn = << >>, UNCHANGED calls, SaveDone
    PROVE  SnapshotInv'
<1>1. /\ Base /\ CommittedInv /\ QuietInv /\ saves # << >> /\ Head(saves).phase = "stored"
      /\ UNCHANGED <<mem, mounted, turn, writing, content, committed>>
  BY DEF SnapshotInv, SaveDone, SyncCallback, Storing, calls
<1>2. mounted /\ syncQueue \in Nat /\ Tail(saves) = << >> /\ mem \in Listing
  BY <1>1, BaseFacts
<1>3. idb' = WillStore
  BY <1>1 DEF SaveDone, WillStore, Saving
<1>4. CommittedInv'
  BY <1>1, <1>2, <1>3 DEF CommittedInv, QuietInv
<1>5. syncQueue' = syncQueue - 1
  BY DEF SaveDone, SyncCallback
<1>6. CASE syncQueue' > 0
  <2>1. PICK fresh : fresh = Save("listed", mem, TRUE)
    OBVIOUS
  <2>2. fresh \in SaveType /\ fresh.phase = "listed" /\ fresh.files = mem
    BY <1>2, <2>1, SaveIsTyped
  <2>3. saves' = Append(<< >>, fresh)
    BY <1>2, <1>6, <2>1 DEF SaveDone, SyncCallback, DoSync
  <2>4. saves' # << >> /\ Head(saves').phase = "listed" /\ Saving' = mem
    BY <2>2, <2>3, Singleton DEF Saving
  <2>5. WillStore' = mem
    <3>1. WillStore' = Reconciled(Saving)'
      BY <2>4 DEF WillStore
    <3>2. Reconciled(Saving)' = mem
      BY <1>1, <1>2, <2>4 DEF Reconciled, Listing
    <3> QED  BY <3>1, <3>2
  <2>6. RecoveredBy(content, mem) \in committed /\ Saved(content, mem, mem)
    BY <1>1, <1>2 DEF CommittedInv, Saved, SamePages
  <2> QED  BY <1>1, <1>4, <2>4, <2>5, <2>6 DEF SnapshotInv, QuietInv
<1>7. CASE ~(syncQueue' > 0)
  <2>1. saves' = << >> /\ syncQueue = 1
    <3>1. syncQueue > 0
      BY <1>1, BaseFacts
    <3>2. syncQueue = 1
      BY <1>2, <1>5, <1>7, <3>1
    <3>3. saves' = Tail(saves)
      BY <1>7 DEF SaveDone, SyncCallback
    <3> QED  BY <1>2, <3>2, <3>3
  <2> QED  BY <1>1, <1>3, <1>4, <2>1 DEF SnapshotInv, QuietInv
<1> QED  BY <1>6, <1>7

\* The files of IndexedDB are there.
LEMMA PopulateStep ==
    ASSUME SnapshotInv, Base', turn = << >>, UNCHANGED calls, PopulateDone
    PROVE  SnapshotInv'
<1>1. /\ Base /\ CommittedInv /\ QuietInv /\ mounted'
      /\ UNCHANGED <<idb, saves, turn, writing, content, committed>>
  BY DEF SnapshotInv, PopulateDone, calls
<1>2. ~mounted /\ populating.files = mem /\ saves = << >>
  BY <1>1 DEF Base, PatientInv, MountInv, PopulateDone
<1>3. mem' = idb
  BY <1>1, <1>2, BaseFacts DEF PopulateDone, Listing
<1>4. CommittedInv' /\ QuietInv'
  BY <1>1, <1>2, <1>3 DEF CommittedInv, QuietInv, Saved, SamePages
<1> QED  BY <1>1, <1>4 DEF SnapshotInv

\* At the start nothing is committed but the empty database.
LEMMA SnapshotInit == InitAll => SnapshotInv
<1> SUFFICES ASSUME InitAll PROVE SnapshotInv
  OBVIOUS
<1>1. Base
  BY QueueInit, MountInit, FilesInit, TypedInit DEF InitAll, Base, PatientInv, QueueTyped
<1>2. mem = Empty /\ idb = Empty /\ ~mounted /\ saves = << >> /\ turn = << >> /\ ~writing
  BY DEF InitAll, Init
<1>3. RecoveredBy(content, Empty) = [f \in DbFiles |-> 0]
  BY SnapshotsAssumption DEF RecoveredBy, ImageBy, Empty, DbFiles
<1> QED  BY <1>1, <1>2, <1>3 DEF SnapshotInv, CommittedInv, QuietInv, InitAll

\* Every step keeps SnapshotInv.
LEMMA SnapshotStep ==
    ASSUME Patient, SnapshotInv, [NextAll]_all_vars
    PROVE  SnapshotInv'
<1>1. Base'
  <2>1. WaitsForMount /\ Base /\ PatientInv /\ turn \in Seq(VfsCalls)
    BY DEF Patient, SnapshotInv, Base, Typed
  <2>2. turn = << >> /\ writing => HasJournal(mem)
    BY DEF SnapshotInv, QuietInv, HasJournal
  <2>3. PatientInv' /\ Typed'
    BY <2>1, <2>2, PatientKept, TypedStep
  <2> QED  BY <2>3 DEF Base
<1>2. CASE UNCHANGED all_vars
  BY <1>1, <1>2, NothingHappens DEF all_vars, vars, browser, calls
<1>3. CASE Load
  <2>1. UNCHANGED <<mem, idb, mounted, saves, syncQueue, turn, writing, content, committed>>
    BY <1>3 DEF Load, Register, calls
  <2> QED  BY <1>1, <2>1, NothingHappens
<1>4. CASE Leave
  BY <1>1, <1>4, LeaveStep
<1>5. CASE Callback
  <2>1. turn = << >> /\ UNCHANGED calls /\ ~SaveError
    BY <1>5 DEF Callback, Patient, SaveError
  <2>2. CASE PopulateError
    <3>1. UNCHANGED <<mem, idb, mounted, saves, syncQueue, turn, writing, content, committed>>
      BY <2>1, <2>2 DEF PopulateError, calls
    <3> QED  BY <1>1, <3>1, NothingHappens
  <2> QED  BY <1>1, <1>5, <2>1, <2>2, ReadStep, DoneStep, PopulateStep DEF Callback
<1>6. CASE Rollback \/ \E S \in SUBSET DbFiles, commits \in BOOLEAN : Execute(S, commits)
  <2>1. turn = << >>
    BY <1>6 DEF Rollback, Execute, CanCall
  <2> QED  BY <1>1, <1>6, <2>1, CallStep
<1>7. CASE DoWrite \/ DoSyncFile \/ DoEndTx
  <2>1. turn # << >>
    BY <1>7 DEF DoWrite, DoSyncFile, DoEndTx, Doing
  <2> QED  BY <1>1, <1>7, <2>1, TurnStep
<1> QED  BY <1>2, <1>3, <1>4, <1>5, <1>6, <1>7 DEF NextAll

-----------------------------------------------------------------------------

\* A page load finds a committed database in IndexedDB, or one that its
\* journal makes into a committed database, for any number of pages and
\* transactions, when the application waits for the mount and for its saves,
\* and no save fails: no FS.syncfs stores the pages of a commit together with
\* the journal of another, or pages without the journal that undoes them.
THEOREM SnapshotsAreCommitted == ASSUME Patient PROVE SpecAll => []SnapshotIsCommitted
<1>1. SnapshotInv => SnapshotIsCommitted
  BY ByContent DEF SnapshotInv, CommittedInv, SnapshotIsCommitted
<1> QED  BY <1>1, SnapshotInit, SnapshotStep, PTL DEF SpecAll
=============================================================================
