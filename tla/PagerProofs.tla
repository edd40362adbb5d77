---------------------------- MODULE PagerProofs ----------------------------
(***************************************************************************)
(* SQLite's transactions over idbvfs are atomic, whatever call the process *)
(* is killed in and whatever write fails: Inv of PagerInvariant is         *)
(* inductive, and implies what Pager states.                               *)
(*                                                                         *)
(* The steps that PagerJournalProofs leaves are those of pager_unlock, a   *)
(* playback, sqlite3PagerSharedLock, a spill and COMMIT, in this order.    *)
(***************************************************************************)
EXTENDS PagerJournalProofs

\* pager_unlock, with that answer.
LEMMA Unlocks ==
    ASSUME Inv, Recovers, UNCHANGED pragma, UnlockPager,
           NEW a \in {"none", "OK", "ERROR"}, calls = <<Unlock(a)>>, db_open, Ready,
           image \in {<< >>, recovered}, image # << >> => CleanNow /\ ~ValidNow,
           ValidNow => before \in {<< >>, recovered},
           a = "OK" => image = recovered /\ ~ValidNow /\ CleanNow,
           a = "ERROR" => before = recovered
    PROVE  Inv' /\ Refined
<1>1. /\ Head(calls).answer = a /\ Tail(calls) = << >>
  BY ListFacts, OpFacts
<1>2. /\ calls' = << >> /\ eState' = "OPEN" /\ reply' = a
      /\ dirty' = {} /\ need_sync' = {} /\ pInJournal' = {}
      /\ nRec' = 0 /\ journalOff' = 0 /\ journalHdr' = 0 /\ dbOrigSize' = 0
      /\ UNCHANGED D_vars /\ UNCHANGED <<image, txs, before>>
      /\ IF j_open THEN J!Close ELSE UNCHANGED J_vars
  BY <1>1 DEF UnlockPager, Continue
<1>3. HandlesInv /\ DbHandle /\ JournalHandle /\ TypeInv
  BY DEF Inv, HandlesInv
<1>4. ~j_open' /\ StoredJournal' = StoredJournal /\ JournalHandle'
  BY <1>2, <1>3, JournalClose, JournalSame
<1>5. Cells' = Cells /\ DbSize' = DbSize /\ DbHandle' /\ db_size' = db_size /\ db_open' = db_open
  BY <1>2, <1>3, DbSame
<1>6. recovered' = recovered /\ FilesInv'
  BY <1>4, <1>5, FilesUntouched
<1>7. TypeInv'
  <2>1. (/\ image \in Seq(Nat) /\ Len(image) <= MaxPages /\ before \in Seq(Nat) /\ Len(before) <= MaxPages
         /\ txs \in Nat /\ pragma \in Pragmas /\ recovered \in Seq(Nat) /\ Len(recovered) <= MaxPages)'
    BY <1>2, <1>3, <1>6 DEF TypeInv
  <2>2. (/\ journalHdr \in Nat /\ journalOff \in Nat /\ nRec \in Nat
         /\ journalHdr <= journalOff /\ journalOff <= MaxJournal)'
    BY <1>2, BoundsAssumption
  <2> QED  BY <1>2, <2>1, <2>2 DEF TypeInv
<1>8. (Forgotten /\ Idle)'
  BY <1>2 DEF Forgotten, Idle
<1>9. CleanNow' = CleanNow /\ HotNow' = HotNow /\ ValidNow' = ValidNow
  BY <1>4, <1>5, <1>6 DEF CleanNow, HotNow, ValidNow
<1>10. Ready'
  BY <1>5, <1>6, <1>9 DEF Ready
<1>11. OpenInv'
  BY <1>2, <1>5, <1>6, <1>8, <1>9, <1>10 DEF OpenInv
<1>12. Refined
  <2>1. eState' \notin Writing
    BY <1>2 DEF Writing
  <2> QED  BY <1>6, <2>1, StaysOut
<1> QED  BY <1>4, <1>5, <1>6, <1>7, <1>8, <1>11, <1>12 DEF Inv, HandlesInv, Phase, IdleInv

\* Settled files need no recovery.
LEMMA SettledReady ==
    ASSUME Settled
    PROVE  Ready /\ CleanNow /\ ~ValidNow /\ db_open
BY DEF Settled, Ready

\* An unlock that follows.
LEMMA UnlockNext ==
    ASSUME Modes, Inv, NEW a, calls = <<Unlock(a)>>, Next
    PROVE  /\ Recovers /\ UNCHANGED pragma
           /\ \/ UnlockPager
              \/ Inv' /\ Refined
<1>1. calls = Cons(Unlock(a), << >>) /\ IsList(<< >>) /\ calls # << >> /\ Head(calls) = Unlock(a)
  BY SingleList, ListFacts
<1>2. (Call \/ Kill) /\ UNCHANGED pragma /\ Recovers
  BY <1>1, OnlyCall
<1>3. Unlock(a).op = "unlock"
  BY OpFacts
<1>4. ~Now("write_db") /\ ~Now("delete_journal") /\ ~Now("sync_journal")
  BY <1>1, <1>3 DEF Now
<1>5. CASE Kill
  BY <1>2, <1>4, <1>5, DiesUntouched
<1>6. CASE Call
  BY <1>1, <1>2, <1>3, <1>6, CallIs
<1> QED  BY <1>2, <1>5, <1>6

\* pager_unlock, after a statement, a transaction, or an error.
LEMMA UnlockStep ==
    ASSUME Modes, Inv, UnlockInv, Next
    PROVE  Inv' /\ Refined
<1>1. TypeInv
  BY DEF Inv
<1>2. CASE calls = <<Unlock(reply)>> /\ ReaderInv
  <2>1. /\ Settled /\ image = recovered /\ reply \in {"none", "OK", "ERROR"}
        /\ (reply = "ERROR" => before = recovered)
    BY <1>1, <1>2 DEF ReaderInv, TypeInv
  <2> QED  BY <1>2, <2>1, UnlockNext, Unlocks, SettledReady
<1>3. ASSUME NEW a \in {"none", "OK"}, calls = <<Unlock(a)>>, LockedInv PROVE Inv' /\ Refined
  <2>1. Settled /\ image = recovered
    BY <1>3 DEF LockedInv, TxInv
  <2> QED  BY <1>3, <2>1, UnlockNext, Unlocks, SettledReady
<1>4. CASE calls = <<Unlock("OK")>> /\ Settled /\ image = recovered
  BY <1>4, UnlockNext, Unlocks, SettledReady
<1>5. ASSUME NEW a \in {"none", "ERROR"}, calls = <<Unlock(a)>>,
             Now("unlock") /\ Head(calls).answer = "ERROR" => before = recovered,
             db_open /\ Ready /\ image = << >>,
             ValidNow => before \in {<< >>, recovered}
      PROVE  Inv' /\ Refined
  <2>1. Now("unlock") /\ Head(calls).answer = a
    BY <1>5, ListFacts, OpFacts DEF Now
  <2>2. a = "ERROR" => before = recovered
    BY <1>5, <2>1
  <2> QED  BY <1>5, <2>2, UnlockNext, Unlocks
<1> QED  BY <1>2, <1>3, <1>4, <1>5 DEF UnlockInv

-----------------------------------------------------------------------------

\* A connection is opened: file_size is the stored one.
LEMMA ConnectStep ==
    ASSUME Inv, Recovers, IdleInv, Connect
    PROVE  Inv' /\ Refined
<1>1. /\ D!Open /\ pragma' \in Pragmas /\ UNCHANGED J_vars
      /\ UNCHANGED <<eState, image, dirty, need_sync, pInJournal, nRec, journalOff, journalHdr,
                     dbOrigSize, calls, txs, before, reply>>
  BY DEF Connect, cache, jrnl
<1>2. HandlesInv /\ DbHandle /\ JournalHandle /\ TypeInv
  BY DEF Inv, HandlesInv
<1>3. ~db_open /\ db_open' /\ Cells' = Cells /\ DbSize' = DbSize /\ db_size' = DbSize /\ DbHandle'
  BY <1>1, <1>2, DbOpen
<1>4. /\ j_open' = j_open /\ j_data' = j_data /\ StoredJournal' = StoredJournal /\ JournalHandle'
  BY <1>1, <1>2, JournalSame
<1>5. recovered' = recovered /\ FilesInv'
  BY <1>3, <1>4, FilesUntouched
<1>6. Idle /\ OpenInv /\ ~j_open
  BY <1>3 DEF IdleInv, ReaderInv, LockedInv, WriterInv, TxInv, Settled
<1>7. CleanNow' = CleanNow /\ HotNow' = HotNow /\ ValidNow' = ValidNow
  BY <1>3, <1>4, <1>5 DEF CleanNow, HotNow, ValidNow
<1>8. Ready'
  <2>1. HotNow \/ CleanNow
    BY DEF Inv, FilesInv, Files, HotNow, CleanNow
  <2>2. HotNow => Len(recovered) <= DbSize
    BY DEF HotNow, Hot
  <2> QED  BY <1>3, <1>5, <1>7, <2>1, <2>2 DEF Ready
<1>9. OpenInv'
  <2>1. Forgotten'
    BY <1>1, <1>6 DEF Forgotten, OpenInv
  <2> QED  BY <1>1, <1>3, <1>5, <1>6, <1>7, <1>8, <2>1 DEF OpenInv
<1>10. TypeInv'
  BY <1>1, <1>2, <1>5 DEF TypeInv
<1>11. Refined
  <2>1. eState' \notin Writing
    BY <1>1, <1>6 DEF OpenInv, Writing
  <2> QED  BY <1>5, <2>1, StaysOut
<1>12. Idle'
  BY <1>1, <1>6 DEF Idle
<1> QED  BY <1>3, <1>4, <1>5, <1>6, <1>9, <1>10, <1>11, <1>12 DEF Inv, HandlesInv, Phase, IdleInv

\* sqlite3_close.
LEMMA DisconnectStep ==
    ASSUME Inv, Recovers, UNCHANGED pragma, IdleInv, Disconnect
    PROVE  Inv' /\ Refined
<1>1. /\ D!Close /\ eState = "OPEN" /\ image' = << >> /\ reply' = "none" /\ UNCHANGED J_vars
      /\ UNCHANGED <<eState, dirty, need_sync, pInJournal, nRec, journalOff, journalHdr,
                     dbOrigSize, calls, txs, before>>
  BY DEF Disconnect, jrnl
<1>2. HandlesInv /\ DbHandle /\ JournalHandle /\ TypeInv
  BY DEF Inv, HandlesInv
<1>3. ~db_open' /\ Cells' = Cells /\ DbSize' = DbSize /\ DbHandle'
  BY <1>1, <1>2, DbClose
<1>4. /\ j_open' = j_open /\ j_data' = j_data /\ StoredJournal' = StoredJournal /\ JournalHandle'
  BY <1>1, <1>2, JournalSame
<1>5. recovered' = recovered /\ FilesInv'
  BY <1>3, <1>4, FilesUntouched
<1>6. Idle /\ OpenInv /\ ~j_open
  BY <1>1 DEF IdleInv, ReaderInv, LockedInv, WriterInv, TxInv, Writing
<1>7. ValidNow' = ValidNow
  BY <1>3, <1>4, <1>5 DEF ValidNow
<1>8. OpenInv'
  <2>1. Forgotten'
    BY <1>1, <1>6 DEF Forgotten, OpenInv
  <2> QED  BY <1>1, <1>3, <1>5, <1>6, <1>7, <2>1 DEF OpenInv
<1>9. TypeInv'
  <2>1. << >> \in Seq(Nat) /\ Len(<< >>) = 0 /\ MaxPages \in Nat
    BY BoundsAssumption
  <2>2. (image \in Seq(Nat) /\ Len(image) <= MaxPages)'
    BY <1>1, <2>1
  <2>3. (/\ before \in Seq(Nat) /\ Len(before) <= MaxPages
         /\ txs \in Nat /\ pragma \in Pragmas /\ recovered \in Seq(Nat) /\ Len(recovered) <= MaxPages
         /\ journalHdr \in Nat /\ journalOff \in Nat /\ nRec \in Nat
         /\ journalHdr <= journalOff /\ journalOff <= MaxJournal)'
    BY <1>1, <1>2, <1>5 DEF TypeInv
  <2> QED  BY <1>1, <2>2, <2>3 DEF TypeInv
<1>10. Refined
  <2>1. eState' \notin Writing
    BY <1>1 DEF Writing
  <2> QED  BY <1>5, <2>1, StaysOut
<1>11. Idle'
  BY <1>1, <1>6 DEF Idle
<1> QED  BY <1>3, <1>4, <1>5, <1>6, <1>8, <1>9, <1>10, <1>11 DEF Inv, HandlesInv, Phase, IdleInv

-----------------------------------------------------------------------------
(* pager_playback.                                                         *)

\* The places whose records a playback writes to the file.
SyncedPlaces(data, open) ==
    {at \in Played(data, open) : open = NoHeader \/ noSync \/ at + Sector <= journalHdr}

\* The calls of a playback, from its first page on.
LEMMA UndoesFacts ==
    ASSUME NEW todo, NEW z
    PROVE  /\ IsList(Undoes(todo, z)) /\ Undoes(todo, z) # << >>
           /\ Head(Undoes(todo, z)).op = "write_db" /\ Head(Undoes(todo, z)).todo = todo
           /\ ~Head(Undoes(todo, z)).committing
           /\ Tail(Undoes(todo, z)) = Cons(SyncD, Finalize(z))
<1>1. PICK w, f : w = WriteD(todo, FALSE) /\ f = Cons(SyncD, Finalize(z))
  OBVIOUS
<1>2. IsList(f)
  BY <1>1, FinalizeList, Zenon
<1>3. Undoes(todo, z) = Cons(w, f)
  BY <1>1, Zenon DEF Undoes
<1>4. w.op = "write_db" /\ w.todo = todo /\ ~w.committing
  BY <1>1 DEF WriteD
<1> QED  BY <1>1, <1>2, <1>3, <1>4, ConsFacts

\* A record with pages left to write, in front of the rest.
LEMMA PlaybackEmpty ==
    ASSUME Modes, pragma \in Pragmas, NEW data, NEW open, NEW touched, NEW z,
           ~HasHeader(data, 0, open)
    PROVE  Playback(data, open, touched) \o <<z>> \in {Cons(SyncD, Finalize(z)), Cons(SyncD, <<z>>)}
<1>1. ~noSync
  BY ModeFacts
<1>2. PICK e : e = When(pragma.journal_mode = "DELETE", EndTransaction)
  OBVIOUS
<1>3. Playback(data, open, touched) = SyncDb(e)
  BY <1>2, Zenon DEF Playback
<1>4. SyncDb(e) = <<SyncD>> \o e
  BY <1>1, Zenon DEF SyncDb, When
<1>5. CASE e = EndTransaction
  BY <1>3, <1>5, EndCalls, Zenon
<1>6. CASE e = << >>
  <2>1. IsList(<<SyncD>>) /\ IsList(<<z>>)
    BY ListFacts
  <2>2. <<SyncD>> \o << >> = <<SyncD>>
    BY <2>1, ConcatFacts
  <2>3. <<SyncD>> \o <<z>> = Cons(SyncD, <<z>>)
    BY Zenon DEF Cons
  <2>4. Playback(data, open, touched) \o <<z>> = Cons(SyncD, <<z>>)
    BY <1>3, <1>4, <1>6, <2>2, <2>3, Zenon
  <2> QED  BY <2>4
<1>7. e = EndTransaction \/ e = << >>
  BY <1>2, Zenon DEF When
<1> QED  BY <1>5, <1>6, <1>7

\* A rollback before any page was written only ends the transaction.
LEMMA PlaybackUntouched ==
    ASSUME Modes, pragma \in Pragmas, NEW data, NEW open, NEW touched, NEW z,
           HasHeader(data, 0, open), ~touched
    PROVE  Playback(data, open, touched) \o <<z>> = Finalize(z)
<1>1. Playback(data, open, touched) = EndTransaction
  BY Zenon DEF Playback
<1> QED  BY <1>1, EndCalls, Zenon

\* A playback truncates the database, and writes the pages of the synced records.
LEMMA PlaybackTouched ==
    ASSUME Modes, pragma \in Pragmas, NEW data, NEW open, NEW touched, NEW z,
           HasHeader(data, 0, open), touched
    PROVE  /\ SyncedPlaces(data, open) = {} =>
                Playback(data, open, touched) \o <<z>>
                  = Cons(TruncateD(data[2]), Cons(SyncD, Finalize(z)))
           /\ SyncedPlaces(data, open) # {} =>
                Playback(data, open, touched) \o <<z>>
                  = Cons(TruncateD(data[2]), Undoes(Rewrites(data, SyncedPlaces(data, open)), z))
<1>1. PICK a, w, b, d, u :
        /\ a = <<TruncateD(data[2])>>
        /\ w = WriteD(Rewrites(data, SyncedPlaces(data, open)), FALSE)
        /\ b = When(SyncedPlaces(data, open) # {}, <<w>>) /\ d = SyncDb(EndTransaction) /\ u = <<z>>
  OBVIOUS
<1>2. Playback(data, open, touched) = a \o b \o d
  BY <1>1, Zenon DEF Playback, SyncedPlaces
<1>3. IsList(a) /\ IsList(u) /\ IsList(<<w>>) /\ IsList(<< >>)
  BY <1>1, ListFacts
<1>4. b = IF SyncedPlaces(data, open) # {} THEN <<w>> ELSE << >>
  BY <1>1, Zenon DEF When
<1>5. IsList(b)
  BY <1>3, <1>4
<1>6. PICK f : f = Cons(SyncD, Finalize(z))
  OBVIOUS
<1>7. d \o u = f /\ IsList(d)
  BY <1>1, <1>6, EndCalls, Zenon
<1>8. IsList(f)
  BY <1>6, FinalizeList
<1>9. (a \o b \o d) \o u = a \o (b \o f)
  <2>1. IsList(a \o b) /\ IsList(d) /\ IsList(u)
    BY <1>3, <1>5, <1>7, ConcatFacts
  <2>2. PICK ab : ab = a \o b
    OBVIOUS
  <2>3. (ab \o d) \o u = ab \o (d \o u)
    BY <2>1, <2>2, ListsAssociate
  <2>4. (a \o b) \o f = a \o (b \o f)
    BY <1>3, <1>5, <1>8, ListsAssociate
  <2> QED  BY <1>7, <2>2, <2>3, <2>4, Zenon
<1>10. ASSUME NEW t, IsList(t) PROVE a \o t = Cons(TruncateD(data[2]), t)
  BY <1>1, Zenon DEF Cons
<1>11. CASE SyncedPlaces(data, open) = {}
  <2>1. b = << >>
    BY <1>4, <1>11
  <2>2. << >> \o f = f
    BY <1>8, ConcatFacts
  <2>3. a \o f = Cons(TruncateD(data[2]), f)
    BY <1>8, <1>10
  <2> QED  BY <1>1, <1>2, <1>6, <1>9, <1>11, <2>1, <2>2, <2>3, Zenon
<1>12. CASE SyncedPlaces(data, open) # {}
  <2>1. b = <<w>>
    BY <1>4, <1>12
  <2>2. <<w>> \o f = Cons(w, f) /\ IsList(Cons(w, f))
    BY <1>8, ConsFacts, Zenon DEF Cons
  <2>3. a \o Cons(w, f) = Cons(TruncateD(data[2]), Cons(w, f))
    BY <1>10, <2>2
  <2>4. Cons(w, f) = Undoes(Rewrites(data, SyncedPlaces(data, open)), z)
    BY <1>1, <1>6, Zenon DEF Undoes
  <2> QED  BY <1>1, <1>2, <1>9, <1>12, <2>1, <2>2, <2>3, <2>4, Zenon
<1> QED  BY <1>11, <1>12

\* Without a first header nothing is played.
LEMMA NothingPlayed ==
    ASSUME NEW data \in Seq(Nat), NEW open, ~HasHeader(data, 0, open)
    PROVE  Played(data, open) = {}
<1>1. TakenFrom(data, open) =
        [hdr \in 0 .. Len(data) |-> Body(data, open, TakenFrom(data, open), hdr)]
  BY TakenFromEquation
<1>2. PICK from : from = TakenFrom(data, open)
  OBVIOUS
<1>3. 0 \in 0 .. Len(data)
  OBVIOUS
<1>4. from[0] = Body(data, open, from, 0)
  BY <1>1, <1>2, <1>3
<1>5. from[0] = {}
  BY <1>4 DEF Body
<1> QED  BY <1>2, <1>5 DEF Played

\* What a playback that starts from a sound journal writes are originals.
LEMMA PlaysOriginals ==
    ASSUME NEW data \in Seq(Nat), NEW base \in Seq(Nat), NEW open,
           Sound(data, base), data[2] = Len(base),
           NEW places, places \subseteq Played(data, open), places # {}
    PROVE  /\ DOMAIN Rewrites(data, places) = places /\ places \subseteq Nat
           /\ \A at \in places : /\ data[at + 1] \in 1 .. Len(base)
                                 /\ Rewrites(data, places)[at] = Original(base, data[at + 1])
           /\ {Rewrites(data, places)[at].pgno : at \in places} = PagesAt(data, places)
<1>1. \A at \in Played(data, open) :
             /\ at \in Places(data) /\ data[at + 1] \in 1 .. Len(base)
             /\ data[at + 2] = base[data[at + 1]]
  BY PlayedSound
<1>2. DOMAIN Rewrites(data, places) = places
  BY DEF Rewrites
<1>3. places \subseteq Nat
  BY <1>1 DEF Places
<1>4. ASSUME NEW at \in places
      PROVE  /\ data[at + 1] \in 1 .. Len(base)
             /\ Rewrites(data, places)[at] = Original(base, data[at + 1])
             /\ Rewrites(data, places)[at].pgno = data[at + 1]
  <2>1. data[at + 2] = base[data[at + 1]] /\ data[at + 1] \in 1 .. Len(base)
    BY <1>1
  <2> QED  BY <2>1 DEF Rewrites, Original
<1>5. {Rewrites(data, places)[at].pgno : at \in places} = PagesAt(data, places)
  BY <1>4 DEF PagesAt
<1> QED  BY <1>2, <1>3, <1>4, <1>5

\* The page that a record restores.
LEMMA OriginalFacts ==
    \A base, p : Original(base, p).pgno = p /\ Original(base, p).cell = base[p]
BY DEF Original

-----------------------------------------------------------------------------
(* sqlite3PagerSharedLock.                                                 *)

\* Four lists, one after the other.
LEMMA FourLists ==
    ASSUME NEW a, NEW b, NEW c, NEW d, IsList(a), IsList(b), IsList(c), IsList(d)
    PROVE  Joined(Joined(Joined(a, b), c), d) = Joined(a, Joined(b, Joined(c, d)))
<1>1. PICK ab, cd : ab = Joined(a, b) /\ cd = Joined(c, d)
  OBVIOUS
<1>2. IsList(ab) /\ IsList(cd)
  BY <1>1, JoinedLists
<1>3. Joined(Joined(ab, c), d) = Joined(ab, cd)
  BY <1>1, <1>2, JoinedLists
<1>4. Joined(Joined(a, b), cd) = Joined(a, Joined(b, cd))
  BY <1>2, JoinedLists
<1> QED  BY <1>1, <1>3, <1>4

\* The calls of a shared lock.
LEMMA SharedLockCalls ==
    ASSUME Modes, pragma \in Pragmas, SharedLock, db_size \in Nat
    PROVE  \/ JournalExists /\ db_size = 0 /\ calls' = Cons(DeleteJ, <<Reader>>)
           \/ /\ IsHot(db_size, StoredJournal)
              /\ calls' = Cons(OpenJ, Cons(SyncJ, Cons(ReadJ, <<Reader>>)))
           \/ /\ ~(JournalExists /\ db_size = 0) /\ ~IsHot(db_size, StoredJournal)
              /\ calls' = <<Reader>>
<1>1. ~noSync
  BY ModeFacts
<1>2. PICK a, b, r, h : /\ a = When(JournalExists /\ db_size = 0, <<DeleteJ>>)
                        /\ h = <<OpenJ>> \o When(~noSync, <<SyncJ>>) \o <<ReadJ>>
                        /\ b = When(IsHot(db_size, StoredJournal), h)
                        /\ r = <<Reader>>
  OBVIOUS
<1>3. calls' = a \o b \o r
  BY <1>2, Zenon DEF SharedLock
<1>4. IsList(r) /\ IsList(<< >>) /\ IsList(<<DeleteJ>>)
  BY <1>2, ListFacts
<1>5. << >> \o r = r /\ << >> \o << >> = << >>
  BY <1>4, ConcatFacts
<1>6. CASE JournalExists /\ db_size = 0
  <2>1. ~IsHot(db_size, StoredJournal)
    BY <1>6 DEF IsHot
  <2>2. a = <<DeleteJ>> /\ b = << >>
    BY <1>2, <1>6, <2>1, Zenon DEF When
  <2>3. <<DeleteJ>> \o << >> = <<DeleteJ>>
    BY <1>4, ConcatFacts
  <2>4. calls' = Cons(DeleteJ, <<Reader>>)
    BY <1>2, <1>3, <2>2, <2>3, Zenon DEF Cons
  <2> QED  BY <1>6, <2>4
<1>7. CASE ~(JournalExists /\ db_size = 0) /\ IsHot(db_size, StoredJournal)
  <2>1. a = << >> /\ b = h
    BY <1>2, <1>7, Zenon DEF When
  <2>2. h = <<OpenJ>> \o <<SyncJ>> \o <<ReadJ>>
    BY <1>1, <1>2, Zenon DEF When
  <2>3. IsList(<<OpenJ>>) /\ IsList(<<SyncJ>>) /\ IsList(<<ReadJ>>)
    BY ListFacts
  <2>4. PICK o, s, t : o = <<OpenJ>> /\ s = <<SyncJ>> /\ t = <<ReadJ>>
    OBVIOUS
  <2>5. IsList(o) /\ IsList(s) /\ IsList(t)
    BY <2>3, <2>4
  <2>6. IsList(o \o s) /\ IsList(t \o r) /\ IsList((o \o s) \o t)
    BY <1>4, <2>5, ConcatFacts
  <2>7. ((o \o s) \o t) \o r = o \o (s \o (t \o r))
    <3>1. Joined(Joined(Joined(o, s), t), r) = Joined(o, Joined(s, Joined(t, r)))
      BY <1>4, <2>5, FourLists
    <3> QED  BY <3>1, Zenon DEF Joined
  <2>8. << >> \o h = h
    <3>1. IsList(h)
      BY <2>2, <2>4, <2>6, Zenon
    <3> QED  BY <3>1, ConcatFacts
  <2>9. calls' = Cons(OpenJ, Cons(SyncJ, Cons(ReadJ, <<Reader>>)))
    BY <1>2, <1>3, <2>1, <2>2, <2>4, <2>7, <2>8, Zenon DEF Cons
  <2> QED  BY <1>7, <2>9
<1>8. CASE ~(JournalExists /\ db_size = 0) /\ ~IsHot(db_size, StoredJournal)
  <2>1. a = << >> /\ b = << >>
    BY <1>2, <1>8, Zenon DEF When
  <2>2. calls' = <<Reader>>
    BY <1>2, <1>3, <1>5, <2>1, Zenon
  <2> QED  BY <1>8, <2>2
<1> QED  BY <1>6, <1>7, <1>8

\* Where no journal is hot the files are the database.
LEMMA OpenNotHot ==
    ASSUME Inv, OpenInv, db_open, ~(JournalExists /\ db_size = 0), ~IsHot(db_size, StoredJournal)
    PROVE  Settled
<1>1. Ready /\ DbHandle /\ JournalHandle /\ StoredJournal \in Seq(Nat) /\ db_size \in Nat /\ TypeInv
  BY DEF OpenInv, Inv, HandlesInv, DbHandle, JournalHandle
<1>2. ~ValidNow
  <2> SUFFICES ASSUME ValidNow PROVE FALSE
    OBVIOUS
  <2>1. ~Dead(StoredJournal) /\ StoredJournal # << >>
    BY <1>1, ValidFacts DEF ValidNow, Dead
  <2>2. JournalExists
    BY <1>1, <2>1, StoredLen
  <2>3. db_size > 0
    BY <1>1, <2>2
  <2> QED  BY <1>1, <2>1, <2>3, ValidFacts
<1>3. ~HotNow
  BY <1>2 DEF HotNow, Hot, ValidNow
<1> QED  BY <1>1, <1>2, <1>3 DEF Ready, Settled

\* What holds between two transactions is what a playback of a hot journal needs.
LEMMA OpenEnds ==
    ASSUME OpenInv
    PROVE  EndsRead
BY DEF OpenInv, EndsRead

\* What holds between two transactions stays while nothing is touched.
LEMMA OpenSame ==
    ASSUME OpenInv, recovered' = recovered, Cells' = Cells, DbSize' = DbSize,
           StoredJournal' = StoredJournal, db_size' = db_size, db_open' = db_open,
           UNCHANGED <<eState, cache, jrnl, before, reply>>
    PROVE  OpenInv'
<1>1. CleanNow' = CleanNow /\ HotNow' = HotNow /\ ValidNow' = ValidNow
  BY DEF CleanNow, HotNow, ValidNow
<1>2. Ready' = Ready
  BY <1>1 DEF Ready
<1>3. UNCHANGED <<image, dirty, need_sync, pInJournal, nRec, journalOff, journalHdr, dbOrigSize>>
  BY DEF cache, jrnl
<1>4. Forgotten'
  BY <1>3 DEF OpenInv, Forgotten
<1> QED  BY <1>1, <1>2, <1>3, <1>4 DEF OpenInv

\* sqlite3PagerSharedLock decides on the journal it finds.
LEMMA SharedLockStarts ==
    ASSUME Modes, Inv, Recovers, UNCHANGED pragma, IdleInv, SharedLock
    PROVE  Inv' /\ Refined
<1>1. /\ eState = "OPEN" /\ db_open /\ UNCHANGED D_vars /\ UNCHANGED J_vars
      /\ UNCHANGED <<eState, cache, jrnl, txs, before, reply>>
  BY DEF SharedLock
<1>2. OpenInv /\ ~j_open
  BY <1>1 DEF IdleInv, ReaderInv, LockedInv, WriterInv, TxInv, Writing
<1>3. /\ recovered' = recovered /\ HandlesInv' /\ FilesInv'
      /\ Cells' = Cells /\ DbSize' = DbSize /\ StoredJournal' = StoredJournal
      /\ JournalExists' = JournalExists
      /\ db_open' = db_open /\ db_size' = db_size /\ j_open' = j_open
  BY <1>1, FilesSame
<1>4. OpenInv'
  BY <1>1, <1>2, <1>3, OpenSame
<1>5. TypeInv /\ pragma \in Pragmas /\ db_size \in Nat
  BY DEF Inv, TypeInv, HandlesInv, DbHandle
<1>6. TypeInv'
  <2>1. recovered' \in Seq(Nat) /\ Len(recovered') <= MaxPages
    BY <1>3, <1>5 DEF TypeInv
  <2> QED  BY <1>1, <1>5, <2>1, TypesKept DEF cache
<1>7. Refined
  <2>1. eState' \notin Writing
    BY <1>1 DEF Writing
  <2> QED  BY <1>3, <2>1, StaysOut
<1>8. CASE JournalExists /\ db_size = 0 /\ calls' = Cons(DeleteJ, <<Reader>>)
  <2>1. Cons(DeleteJ, <<Reader>>)' = Cons(DeleteJ, <<Reader>>)
    BY DEF Cons, DeleteJ, Reader
  <2>2. SharedLockInv'
    BY <1>1, <1>2, <1>3, <1>4, <1>8, <2>1 DEF SharedLockInv
  <2> QED  BY <1>3, <1>6, <1>7, <2>2 DEF Inv, Phase
<1>9. CASE /\ IsHot(db_size, StoredJournal)
           /\ calls' = Cons(OpenJ, Cons(SyncJ, Cons(ReadJ, <<Reader>>)))
  <2>1. SharedLockInv'
    BY <1>1, <1>2, <1>3, <1>4, <1>9 DEF SharedLockInv
  <2> QED  BY <1>3, <1>6, <1>7, <2>1 DEF Inv, Phase
<1>10. CASE /\ ~(JournalExists /\ db_size = 0) /\ ~IsHot(db_size, StoredJournal)
            /\ calls' = <<Reader>>
  <2>1. Settled'
    BY <1>1, <1>2, <1>3, <1>10, OpenNotHot, SettledKept
  <2>2. KeepsSound(recovered)' /\ EndsRead' /\ db_open'
    BY <1>1, <1>2, <1>3, <1>4, OpenEnds DEF KeepsSound, OpenInv, EndsRead
  <2>3. Ends(Reader)'
    BY <2>2 DEF Ends
  <2>4. (calls = <<Reader>>)'
    BY <1>10
  <2>5. UndoInv'
    BY <2>1, <2>2, <2>3, <2>4 DEF UndoInv
  <2> QED  BY <1>3, <1>6, <1>7, <2>5 DEF Inv, Phase
<1> QED  BY <1>5, <1>8, <1>9, <1>10, SharedLockCalls

\* hasHotJournal deletes the journal of an empty database.
LEMMA EmptyDeletes ==
    ASSUME Modes, Inv, OpenInv, db_open, calls = Cons(DeleteJ, <<Reader>>), JournalExists,
           db_size = 0, ~j_open, Next
    PROVE  Inv' /\ Refined
<1>1. IsList(<<Reader>>)
  BY ListFacts
<1>2. /\ calls # << >> /\ Head(calls) = DeleteJ
      /\ (Call \/ Kill) /\ UNCHANGED pragma /\ Recovers
  BY <1>1, ConsFacts, OnlyCall
<1>3. DeleteJ.op = "delete_journal"
  BY OpFacts
<1>4. Now("delete_journal") /\ ~Now("write_db") /\ ~Now("sync_journal") /\ ~Now("unlock")
  BY <1>2, <1>3 DEF Now
<1>5. /\ TypeInv /\ HandlesInv /\ DbHandle /\ JournalHandle /\ recovered \in Seq(Nat)
      /\ Len(recovered) <= MaxPages /\ DbSize \in Nat /\ StoredJournal \in Seq(Nat)
  BY DEF Inv, TypeInv, HandlesInv, DbHandle, JournalHandle
<1>6. Len(recovered) = 0 /\ DbSize = 0
  <2>1. Ready
    BY DEF OpenInv
  <2>2. HotNow => Len(recovered) <= DbSize
    BY DEF HotNow, Hot
  <2>3. CleanNow => DbSize = Len(recovered)
    BY DEF CleanNow, Clean
  <2> QED  BY <1>5, <2>1, <2>2, <2>3 DEF Ready
<1>7. ASSUME NEW cells PROVE Clean(recovered, cells, DbSize, << >>) /\ ~Valid(<< >>)
  <2>1. << >> \in Seq(Nat) /\ Len(<< >>) = 0
    OBVIOUS
  <2>2. ~Valid(<< >>)
    BY <2>1, ValidFacts
  <2>3. Same(recovered, cells, {})
    BY <1>6 DEF Same
  <2> QED  BY <1>6, <2>2, <2>3 DEF Clean, Dead
<1>8. CASE Kill
  <2>1. /\ PagerLost /\ DbSize' = DbSize
        /\ StoredJournal' \in Seq(Nat) /\ j_key' \in Nat \cup {NoFile}
        /\ Cells' = Cells /\ (StoredJournal' = StoredJournal \/ StoredJournal' = << >>)
    BY <1>4, <1>5, <1>8, KillFiles DEF Modes
  <2>2. Files(recovered, Cells', DbSize', StoredJournal')
    <3>1. CASE StoredJournal' = StoredJournal
      BY <2>1, <3>1 DEF Inv, FilesInv
    <3>2. CASE StoredJournal' = << >>
      BY <1>7, <2>1, <3>2 DEF Files
    <3> QED  BY <2>1, <3>1, <3>2
  <2>3. Inv' /\ recovered' = recovered /\ Tx' = NoTx
    BY <1>2, <1>5, <2>1, <2>2, Dies
  <2> QED  BY <2>3, KeepsRecovered
<1>9. CASE Call
  <2>1. (J!Delete /\ JournalStep(<<Reader>>)) \/ DeleteJournalFails
    BY <1>1, <1>3, <1>9, CallIs
  <2>2. ~DeleteJournalFails
    BY <1>5, JournalDeleteFails DEF DeleteJournalFails
  <2>3. J!Delete /\ JournalStep(<<Reader>>)
    BY <2>1, <2>2
  <2>4. ~j_open' /\ StoredJournal' = << >> /\ JournalHandle'
    BY <1>5, <2>3, JournalDelete
  <2>5. Files(recovered, Cells, DbSize, StoredJournal')
    BY <1>7, <2>4 DEF Files
  <2>6. recovered' = recovered /\ TypeInv' /\ HandlesInv' /\ FilesInv'
    BY <1>2, <2>3, <2>4, <2>5, JournalStored
  <2>7. PagerUnchanged /\ UNCHANGED D_vars /\ calls' = <<Reader>>
    BY <2>3 DEF JournalStep
  <2>8. UNCHANGED <<eState, image, dirty, need_sync, pInJournal, nRec, journalOff, journalHdr, dbOrigSize, before, reply>>
    BY <2>7 DEF PagerUnchanged, cache, jrnl
  <2>9. Cells' = Cells /\ DbSize' = DbSize /\ db_size' = db_size /\ db_open' = db_open
    BY <2>7, DbSame
  <2>10. CleanNow' /\ ~ValidNow'
    BY <1>7, <2>4, <2>6, <2>9 DEF CleanNow, ValidNow
  <2>11. Settled'
    BY <1>6, <2>9, <2>10 DEF Settled
  <2>12. EndsRead'
    BY <2>6, <2>8, <2>10 DEF OpenInv, EndsRead, Forgotten
  <2>13. UndoInv'
    <3>1. Ends(Reader)' /\ KeepsSound(recovered)' /\ db_open'
      BY <2>4, <2>9, <2>12 DEF Ends, KeepsSound
    <3>2. (calls = <<Reader>>)'
      BY <2>7
    <3> QED  BY <2>11, <3>1, <3>2 DEF UndoInv
  <2>14. Refined
    <3>1. eState' \notin Writing
      BY <2>8 DEF OpenInv, Writing
    <3> QED  BY <2>6, <3>1, StaysOut
  <2> QED  BY <2>6, <2>13, <2>14 DEF Inv, Phase
<1> QED  BY <1>2, <1>8, <1>9

\* A hot journal is opened, and synced.
LEMMA HotOpens ==
    ASSUME Modes, Inv, OpenInv, db_open, IsHot(db_size, StoredJournal),
           calls = Cons(OpenJ, Cons(SyncJ, Cons(ReadJ, <<Reader>>))), ~j_open, Next
    PROVE  Inv' /\ Refined
<1>1. PICK rest : rest = Cons(SyncJ, Cons(ReadJ, <<Reader>>))
  OBVIOUS
<1>2. IsList(rest) /\ calls = Cons(OpenJ, rest)
  <2>1. IsList(<<Reader>>)
    BY ListFacts
  <2>2. IsList(Cons(ReadJ, <<Reader>>))
    BY <2>1, ConsFacts
  <2> QED  BY <1>1, <2>2, ConsFacts
<1>3. /\ calls # << >> /\ Head(calls) = OpenJ
      /\ (Call \/ Kill) /\ UNCHANGED pragma /\ Recovers
  BY <1>2, ConsFacts, OnlyCall
<1>4. OpenJ.op = "open_journal"
  BY OpFacts
<1>5. ~Now("delete_journal") /\ ~Now("write_db") /\ ~Now("sync_journal") /\ ~Now("unlock")
  BY <1>3, <1>4 DEF Now
<1>6. CASE Kill
  BY <1>3, <1>5, <1>6, DiesUntouched
<1>7. CASE Call
  <2>1. J!Open /\ JournalStep(rest)
    BY <1>2, <1>4, <1>7, CallIs
  <2>2. j_open' /\ ~j_dirty' /\ j_data' = << >> /\ StoredJournal' = StoredJournal /\ JournalHandle'
    BY <2>1, JournalOpen DEF Inv, HandlesInv
  <2>3. recovered' = recovered /\ TypeInv' /\ HandlesInv' /\ FilesInv'
    BY <1>3, <2>1, <2>2, JournalCall
  <2>4. PagerUnchanged /\ UNCHANGED D_vars /\ calls' = rest
    BY <2>1 DEF JournalStep
  <2>5. Cells' = Cells /\ DbSize' = DbSize /\ db_size' = db_size /\ db_open' = db_open
    BY <2>4, DbSame
  <2>6. OpenInv'
    BY <2>2, <2>3, <2>4, <2>5, OpenSame DEF PagerUnchanged
  <2>7. SharedLockInv'
    BY <1>1, <2>2, <2>4, <2>5, <2>6 DEF SharedLockInv
  <2>8. Refined
    <3>1. eState' \notin Writing
      BY <2>6 DEF OpenInv, Writing
    <3> QED  BY <2>3, <3>1, StaysOut
  <2> QED  BY <2>3, <2>7, <2>8 DEF Inv, Phase
<1> QED  BY <1>3, <1>6, <1>7

\* The hot journal is synced before it is read: nothing to store.
LEMMA HotSyncs ==
    ASSUME Modes, Inv, OpenInv, db_open, IsHot(db_size, StoredJournal),
           calls = Cons(SyncJ, Cons(ReadJ, <<Reader>>)), j_open, j_data = << >>, ~j_dirty, Next
    PROVE  Inv' /\ Refined
<1>1. PICK rest : rest = Cons(ReadJ, <<Reader>>)
  OBVIOUS
<1>2. IsList(rest) /\ calls = Cons(SyncJ, rest)
  <2>1. IsList(<<Reader>>)
    BY ListFacts
  <2> QED  BY <1>1, <2>1, ConsFacts
<1>3. /\ calls # << >> /\ Head(calls) = SyncJ
      /\ (Call \/ Kill) /\ UNCHANGED pragma /\ Recovers
  BY <1>2, ConsFacts, OnlyCall
<1>4. SyncJ.op = "sync_journal"
  BY OpFacts
<1>5. ~Now("delete_journal") /\ ~Now("write_db") /\ ~Now("unlock")
  BY <1>3, <1>4 DEF Now
<1>6. CASE Kill
  BY <1>3, <1>5, <1>6, DiesUntouched
<1>7. CASE Call
  <2>1. J!Sync /\ JournalStep(rest)
    BY <1>2, <1>4, <1>7, CallIs
  <2>2. j_open' /\ ~j_dirty' /\ j_data' = << >> /\ StoredJournal' = StoredJournal /\ JournalHandle'
    BY <2>1, JournalSync DEF Inv, HandlesInv
  <2>3. recovered' = recovered /\ TypeInv' /\ HandlesInv' /\ FilesInv'
    BY <1>3, <2>1, <2>2, JournalCall
  <2>4. PagerUnchanged /\ UNCHANGED D_vars /\ calls' = rest
    BY <2>1 DEF JournalStep
  <2>5. Cells' = Cells /\ DbSize' = DbSize /\ db_size' = db_size /\ db_open' = db_open
    BY <2>4, DbSame
  <2>6. OpenInv'
    BY <2>2, <2>3, <2>4, <2>5, OpenSame DEF PagerUnchanged
  <2>7. SharedLockInv'
    BY <1>1, <2>2, <2>4, <2>5, <2>6 DEF SharedLockInv
  <2>8. Refined
    <3>1. eState' \notin Writing
      BY <2>6 DEF OpenInv, Writing
    <3> QED  BY <2>3, <3>1, StaysOut
  <2> QED  BY <2>3, <2>7, <2>8 DEF Inv, Phase
<1> QED  BY <1>3, <1>6, <1>7

\* The second call of a list.
LEMMA SecondOf ==
    ASSUME NEW a, NEW s, IsList(s), s # << >>
    PROVE  Len(Cons(a, s)) > 1 /\ Cons(a, s)[2] = Head(s)
<1>1. PICK T : s \in Seq(T)
  BY DEF IsList
<1>2. PICK U : U = T \cup {a}
  OBVIOUS
<1>3. s \in Seq(U) /\ <<a>> \in Seq(U)
  BY <1>1, <1>2
<1>4. Len(s) \in Nat /\ Len(s) > 0 /\ Head(s) = s[1]
  BY <1>1
<1>5. PICK b \in Seq(U) : b = <<a>>
  BY <1>3
<1>6. Len(b) = 1
  BY <1>5
<1>7. /\ Len(b \o s) = Len(b) + Len(s)
      /\ \A i \in 1 .. Len(b) + Len(s) : (b \o s)[i] = IF i <= Len(b) THEN b[i] ELSE s[i - Len(b)]
  BY <1>3, ConcatProperties, Zenon
<1>8. Len(b \o s) > 1 /\ (b \o s)[2] = s[1]
  <2>1. PICK c : c = b \o s
    OBVIOUS
  <2>2. Len(c) = 1 + Len(s) /\ \A i \in 1 .. 1 + Len(s) : c[i] = IF i <= 1 THEN b[i] ELSE s[i - 1]
    BY <1>6, <1>7, <2>1, Zenon
  <2>3. Len(c) > 1
    BY <1>4, <2>2
  <2>4. c[2] = s[1]
    <3>1. 2 \in 1 .. 1 + Len(s) /\ ~(2 <= 1) /\ 2 - 1 = 1
      BY <1>4
    <3> QED  BY <2>2, <3>1
  <2> QED  BY <2>1, <2>3, <2>4, Zenon
<1> QED  BY <1>4, <1>5, <1>8, Zenon DEF Cons

\* Without a first header the cache is not emptied.
LEMMA NoRecordsCounted ==
    ASSUME NEW data \in Seq(Nat), ~HasHeader(data, 0, NoHeader)
    PROVE  ~CountsRecords(data)
<1>1. ASSUME NEW hdr \in 0 .. Len(data) PROVE 0 \in 0..hdr /\ 0 % Sector = 0
  BY DEF Sector
<1> QED  BY <1>1 DEF CountsRecords

\* pager_playback of a hot journal.
LEMMA HotReads ==
    ASSUME Modes, Inv, OpenInv, db_open, IsHot(db_size, StoredJournal),
           calls = Cons(ReadJ, <<Reader>>), j_open, j_data = << >>, ~j_dirty, Next
    PROVE  Inv' /\ Refined
<1>1. IsList(<<Reader>>)
  BY ListFacts
<1>2. /\ calls # << >> /\ Head(calls) = ReadJ /\ Tail(calls) = <<Reader>>
      /\ (Call \/ Kill) /\ UNCHANGED pragma /\ Recovers
  BY <1>1, ConsFacts, OnlyCall
<1>3. ReadJ.op = "read_journal"
  BY OpFacts
<1>4. ~Now("delete_journal") /\ ~Now("write_db") /\ ~Now("sync_journal") /\ ~Now("unlock")
  BY <1>2, <1>3 DEF Now
<1>5. CASE Kill
  BY <1>2, <1>4, <1>5, DiesUntouched
<1>6. CASE Call
  <2>0. /\ TypeInv /\ HandlesInv /\ DbHandle /\ JournalHandle /\ recovered \in Seq(Nat)
        /\ Len(recovered) <= MaxPages /\ DbSize \in Nat /\ StoredJournal \in Seq(Nat)
        /\ image \in Seq(Nat) /\ db_size \in Nat /\ pragma \in Pragmas
    BY DEF Inv, TypeInv, HandlesInv, DbHandle, JournalHandle
  <2>1. ReadHotJournal
    BY <1>1, <1>3, <1>6, CallIs
  <2>2. PICK t, places : t = TRUE /\ places = Played(StoredJournal, NoHeader)
    OBVIOUS
  <2>3. /\ J!Read(1, 0) /\ UNCHANGED D_vars
        /\ UNCHANGED <<eState, dirty, need_sync, txs, before, reply>>
        /\ UNCHANGED <<pInJournal, nRec, journalOff, journalHdr, dbOrigSize>>
    BY <2>1 DEF ReadHotJournal, jrnl
  <2>4. /\ j_open' /\ j_data' = StoredJournal /\ StoredJournal' = StoredJournal
        /\ JournalExists' = JournalExists /\ JournalHandle'
    BY <2>0, <2>3, JournalRead
  <2>5. Cells' = Cells /\ DbSize' = DbSize /\ DbHandle' /\ db_size' = db_size /\ db_open' = db_open
    BY <2>0, <2>3, DbSame
  <2>6. recovered' = recovered /\ FilesInv'
    BY <1>2, <2>4, <2>5, FilesUntouched
  <2>7. image' = IF CountsRecords(StoredJournal) THEN << >> ELSE image
    BY <2>1, <2>4, Zenon DEF ReadHotJournal
  <2>8. calls' = Playback(StoredJournal, NoHeader, t) \o <<Reader>>
    BY <1>2, <2>1, <2>2, <2>4, Zenon DEF ReadHotJournal
  <2>9. TypeInv'
    <3>1. << >> \in Seq(Nat) /\ Len(<< >>) = 0 /\ MaxPages \in Nat
      BY BoundsAssumption
    <3>2. (image \in Seq(Nat) /\ Len(image) <= MaxPages)'
      BY <2>0, <2>7, <3>1 DEF TypeInv
    <3>3. (/\ before \in Seq(Nat) /\ Len(before) <= MaxPages /\ reply \in {"none", "OK", "ERROR"}
           /\ txs \in Nat /\ pragma \in Pragmas /\ recovered \in Seq(Nat) /\ Len(recovered) <= MaxPages
           /\ journalHdr \in Nat /\ journalOff \in Nat /\ nRec \in Nat
           /\ journalHdr <= journalOff /\ journalOff <= MaxJournal)'
      BY <1>2, <2>0, <2>3, <2>6 DEF TypeInv
    <3> QED  BY <3>2, <3>3 DEF TypeInv
  <2>10. Refined
    <3>1. eState' \notin Writing
      BY <2>3 DEF OpenInv, Writing
    <3> QED  BY <2>6, <3>1, StaysOut
  <2>11. CleanNow' = CleanNow /\ HotNow' = HotNow /\ ValidNow' = ValidNow
    BY <2>4, <2>5, <2>6 DEF CleanNow, HotNow, ValidNow
  <2>12. StoredJournal # << >> /\ ~Dead(StoredJournal) /\ JournalExists /\ db_size > 0
    <3>1. StoredJournal # << >> /\ StoredJournal[1] # 0 /\ db_size > 0
      BY DEF IsHot
    <3> QED  BY <2>0, <3>1, StoredLen DEF Dead
  <2>13. SyncedPlaces(StoredJournal, NoHeader) = places
    BY <2>2 DEF SyncedPlaces
  <2>14. CASE ~ValidNow
    <3>1. ~HasHeader(StoredJournal, 0, NoHeader)
      BY <2>14 DEF ValidNow, Valid
    <3>2. calls' \in {Cons(SyncD, Finalize(Reader)), Cons(SyncD, <<Reader>>)}
      BY <2>0, <2>8, <3>1, PlaybackEmpty
    <3>3. places = {} /\ image' = image
      <4>1. ~CountsRecords(StoredJournal)
        BY <2>0, <3>1, NoRecordsCounted
      <4> QED  BY <2>0, <2>2, <2>7, <3>1, <4>1, NothingPlayed
    <3>4. CleanNow /\ db_size = DbSize
      BY <2>14 DEF OpenInv, Ready, HotNow, Hot, ValidNow
    <3>5. Sound(StoredJournal, recovered) /\ DbSize = Len(recovered) /\ Same(recovered, Cells, {})
      BY <2>12, <3>4 DEF CleanNow, Clean
    <3>6. EndsRead'
      BY <2>3, <2>6, <2>11, <3>3 DEF OpenInv, EndsRead, Forgotten
    <3>7. Ends(Reader)' /\ db_open'
      BY <2>5, <3>6 DEF Ends
    <3>8. calls' \in {Cons(SyncD, Finalize(Reader)'), Cons(SyncD, <<Reader>>)}
      <4>1. Finalize(Reader)' = Finalize(Reader)
        BY <1>2 DEF Finalize, Ending, FirstEnd, LastEnd
      <4> QED  BY <3>2, <4>1
    <3>9. /\ Sound(j_data, recovered)' /\ (db_size = Len(recovered))' /\ Same(recovered, Cells, {})'
          /\ JournalExists' /\ ~ValidNow' /\ (db_size = DbSize)'
      BY <2>4, <2>5, <2>6, <2>11, <2>12, <2>14, <3>4, <3>5
    <3>10. UndoInv'
      BY <2>4, <3>7, <3>8, <3>9 DEF UndoInv
    <3> QED  BY <2>4, <2>5, <2>6, <2>9, <2>10, <3>10 DEF Inv, HandlesInv, Phase
  <2>15. CASE ValidNow
    <3>1. HasHeader(StoredJournal, 0, NoHeader)
      BY <2>15 DEF ValidNow, Valid
    <3>2. HotNow /\ Len(recovered) <= db_size
      <4>1. ~CleanNow \/ DbSize # db_size
        BY <2>12, <2>15 DEF CleanNow, Clean, ValidNow
      <4> QED  BY <4>1 DEF OpenInv, Ready
    <3>3. Sound(StoredJournal, recovered) /\ StoredJournal[2] = Len(recovered)
          /\ Same(recovered, Cells, PlayedPages(StoredJournal, NoHeader))
      BY <3>2 DEF HotNow, Hot
    <3>4. EndsRead'
      <4>1. image' \in {<< >>, recovered'}
        BY <2>6, <2>7 DEF OpenInv
      <4>2. reply' # "OK"
        BY <2>3, <2>15 DEF OpenInv
      <4> QED  BY <2>3, <2>6, <2>11, <4>1, <4>2 DEF OpenInv, EndsRead, Forgotten
    <3>5. Ends(Reader)' /\ db_open' /\ j_open' /\ Sound(j_data, recovered)' /\ HotNow'
      BY <2>4, <2>5, <2>6, <2>11, <3>2, <3>3, <3>4 DEF Ends
    <3>6. Finalize(Reader)' = Finalize(Reader) /\ (Len(recovered) <= db_size)'
      BY <1>2, <2>5, <2>6, <3>2 DEF Finalize, Ending, FirstEnd, LastEnd
    <3>7. CASE places = {}
      <4>1. calls' = Cons(TruncateD(Len(recovered)), Cons(SyncD, Finalize(Reader)))
        BY <2>0, <2>2, <2>8, <2>13, <3>1, <3>3, <3>7, PlaybackTouched
      <4>2. (calls = Cons(TruncateD(Len(recovered)), Cons(SyncD, Finalize(Reader))))'
        BY <2>6, <3>6, <4>1
      <4>3. PlayedPages(StoredJournal, NoHeader) = {}
        BY <2>2, <3>7 DEF PlayedPages, PagesAt
      <4>4. Same(recovered, Cells, {})'
        BY <2>5, <2>6, <3>3, <4>3
      <4>5. UndoInv'
        BY <3>5, <3>6, <4>2, <4>4 DEF UndoInv
      <4> QED  BY <2>4, <2>5, <2>6, <2>9, <2>10, <4>5 DEF Inv, HandlesInv, Phase
    <3>8. CASE places # {}
      <4>1. PICK todo : todo = Rewrites(StoredJournal, places)
        OBVIOUS
      <4>2. calls' = Cons(TruncateD(Len(recovered)), Undoes(todo, Reader))
        BY <2>0, <2>2, <2>8, <2>13, <3>1, <3>3, <3>8, <4>1, PlaybackTouched
      <4>3. /\ DOMAIN todo = places /\ places \subseteq Nat
            /\ \A at \in places : /\ StoredJournal[at + 1] \in 1 .. Len(recovered)
                                  /\ todo[at] = Original(recovered, StoredJournal[at + 1])
            /\ {todo[at].pgno : at \in places} = PagesAt(StoredJournal, places)
        <5>1. places \subseteq Played(StoredJournal, NoHeader)
          BY <2>2
        <5>2. /\ DOMAIN Rewrites(StoredJournal, places) = places /\ places \subseteq Nat
              /\ \A at \in places : /\ StoredJournal[at + 1] \in 1 .. Len(recovered)
                                    /\ Rewrites(StoredJournal, places)[at]
                                         = Original(recovered, StoredJournal[at + 1])
              /\ {Rewrites(StoredJournal, places)[at].pgno : at \in places}
                   = PagesAt(StoredJournal, places)
          BY <2>0, <3>3, <3>8, <5>1, PlaysOriginals, Zenon
        <5> QED  BY <4>1, <5>2, Zenon
      <4>4. Originals(todo)'
        <5>1. PlayedPages(StoredJournal, NoHeader) = PagesAt(StoredJournal, places)
          BY <2>2 DEF PlayedPages
        <5>2. ASSUME NEW at \in DOMAIN todo
              PROVE  \E p \in PlayedPages(StoredJournal, NoHeader) \cap 1..Len(recovered) :
                       todo[at] = Original(recovered, p)
          <6>1. StoredJournal[at + 1] \in PagesAt(StoredJournal, places)
            BY <4>3 DEF PagesAt
          <6> QED  BY <4>3, <5>1, <6>1
        <5>3. {todo[k].pgno : k \in DOMAIN todo} = PlayedPages(StoredJournal, NoHeader)
          BY <4>3, <5>1
        <5>4. DOMAIN todo \subseteq Nat /\ DOMAIN todo # {}
          BY <3>8, <4>3
        <5>5. Originals(todo)
          BY <3>3, <5>2, <5>3, <5>4, Zenon DEF Originals
        <5> QED  BY <2>4, <2>5, <2>6, <5>5 DEF Originals
      <4>5. Undoes(todo, Reader)' = Undoes(todo, Reader)
        BY <3>6, Zenon DEF Undoes
      <4>6. (calls = Cons(TruncateD(Len(recovered)), Undoes(todo, Reader)))'
        BY <2>6, <4>2, <4>5
      <4>7. /\ Len(calls') > 1 /\ calls'[2].op = "write_db" /\ calls'[2].todo = todo
        <5>1. IsList(Undoes(todo, Reader))
          BY UndoesFacts
        <5> QED  BY <4>2, <5>1, UndoesFacts, SecondOf
      <4>8. UndoInv'
        BY <3>5, <3>6, <4>4, <4>6, <4>7 DEF UndoInv
      <4> QED  BY <2>4, <2>5, <2>6, <2>9, <2>10, <4>8 DEF Inv, HandlesInv, Phase
    <3> QED  BY <3>7, <3>8
  <2> QED  BY <2>14, <2>15
<1> QED  BY <1>2, <1>5, <1>6

\* Each call of sqlite3PagerSharedLock.
LEMMA SharedLockStep ==
    ASSUME Modes, Inv, SharedLockInv, Next
    PROVE  Inv' /\ Refined
BY EmptyDeletes, HotOpens, HotSyncs, HotReads DEF SharedLockInv

-----------------------------------------------------------------------------
(* The pages that are written one by one.                                  *)

OneWritten(todo, left, k) ==
    /\ DOMAIN left = DOMAIN todo \ {k} /\ DOMAIN left # {}
    /\ \A n \in DOMAIN left : left[n] = todo[n]

\* write_db goes on with the page that has the least number.
LEMMA WritingNext ==
    ASSUME NEW todo, NEW c, NEW s, IsList(s), calls = Cons(WriteD(todo, c), s),
           DOMAIN todo \subseteq Nat, DOMAIN todo # {}
    PROVE  \E k \in DOMAIN todo :
             /\ PageToWrite = todo[k]
             /\ ContinueWriting =>
                  \/ DOMAIN todo = {k} /\ calls' = s
                  \/ \E left : OneWritten(todo, left, k) /\ calls' = Cons(WriteD(left, c), s)
<1>1. Head(calls) = WriteD(todo, c) /\ Tail(calls) = s
  BY ConsFacts
<1>2. Head(calls).todo = todo /\ Head(calls).committing = c
  BY <1>1, OpFacts
<1>3. PICK k : k = NextToWrite
  OBVIOUS
<1>4. k = CHOOSE x \in DOMAIN todo : \A n \in DOMAIN todo : x <= n
  BY <1>2, <1>3, Zenon DEF NextToWrite
<1>5. PICK places : places = DOMAIN todo
  OBVIOUS
<1>6. k \in places
  <2>1. \E x \in places : \A n \in places : x <= n
    BY <1>5, Least
  <2>2. k = CHOOSE x \in places : \A n \in places : x <= n
    BY <1>4, <1>5, Zenon
  <2> QED  BY <2>1, <2>2
<1>7. PageToWrite = todo[k]
  BY <1>2, <1>3, Zenon DEF PageToWrite
<1>8. ASSUME ContinueWriting
      PROVE  \/ DOMAIN todo = {k} /\ calls' = s
             \/ \E left : OneWritten(todo, left, k) /\ calls' = Cons(WriteD(left, c), s)
  <2>1. PICK left : left = [n \in DOMAIN todo \ {k} |-> todo[n]]
    OBVIOUS
  <2>2. calls' = When(DOMAIN todo \ {k} # {}, <<WriteD(left, c)>>) \o s
    BY <1>1, <1>2, <1>3, <1>8, <2>1, Zenon DEF ContinueWriting
  <2>3. CASE DOMAIN todo \ {k} = {}
    <3>1. DOMAIN todo = {k}
      BY <1>5, <1>6, <2>3
    <3>2. calls' = << >> \o s
      BY <2>2, <2>3, Zenon DEF When
    <3> QED  BY <3>1, <3>2, ConcatFacts, Zenon
  <2>4. CASE DOMAIN todo \ {k} # {}
    <3>1. calls' = <<WriteD(left, c)>> \o s
      BY <2>2, <2>4, Zenon DEF When
    <3>2. OneWritten(todo, left, k)
      BY <2>1, <2>4 DEF OneWritten
    <3> QED  BY <3>1, <3>2, Zenon DEF Cons
  <2> QED  BY <2>3, <2>4
<1> QED  BY <1>5, <1>6, <1>7, <1>8, Zenon

\* An error of the pager, while the journal is hot or the file is clean.
LEMMA FailStops ==
    ASSUME Inv, UNCHANGED pragma, Fail, recovered' = recovered, FilesInv', HandlesInv',
           db_open', Ready',
           eState \in Writing => before = recovered,
           eState \notin Writing => reply # "OK" /\ (reply = "ERROR" => before = recovered),
           eState \in Writing => reply = "none",
           ValidNow' => before \in {<< >>, recovered}, pInJournal \subseteq 1..dbOrigSize
    PROVE  Inv' /\ Refined
<1>1. TypeInv
  BY DEF Inv
<1>2. PICK a : a = IF eState \in Writing THEN "ERROR" ELSE reply
  OBVIOUS
<1>3. /\ calls' = <<Unlock(a)>> /\ eState' = "ERROR" /\ image' = << >>
      /\ dirty' = {} /\ need_sync' = {}
      /\ UNCHANGED <<pInJournal, nRec, journalOff, journalHdr, dbOrigSize, txs, before, reply>>
  BY <1>2 DEF Fail, jrnl
<1>4. a \in {"none", "ERROR"} /\ (a = "ERROR" => before = recovered)
      /\ reply # "OK" /\ (reply = "ERROR" => before = recovered)
  BY <1>1, <1>2 DEF TypeInv
<1>5. TypeInv'
  <2>1. << >> \in Seq(Nat) /\ Len(<< >>) = 0 /\ MaxPages \in Nat
    BY BoundsAssumption
  <2> QED  BY <1>1, <1>3, <2>1 DEF TypeInv
<1>6. (Now("unlock") /\ Head(calls).answer = a)'
  BY <1>3, ListFacts, OpFacts DEF Now
<1>7. UnlockInv'
  <2>1. (calls \in {<<Unlock("none")>>, <<Unlock("ERROR")>>})'
    BY <1>3, <1>4
  <2>2. (Now("unlock") /\ Head(calls).answer = "ERROR" => before = recovered)'
    BY <1>3, <1>4, <1>6
  <2>3. (/\ eState = "ERROR" /\ db_open /\ Ready /\ image = << >> /\ pInJournal \subseteq 1..dbOrigSize
         /\ dirty = {} /\ need_sync = {}
         /\ ValidNow => before \in {<< >>, recovered}
         /\ reply # "OK" /\ (reply = "ERROR" => before = recovered))'
    BY <1>3, <1>4
  <2> QED  BY <2>1, <2>2, <2>3 DEF UnlockInv
<1>8. Refined
  <2>1. eState' \notin Writing
    BY <1>3 DEF Writing
  <2> QED  BY <2>1, StaysOut
<1> QED  BY <1>5, <1>7, <1>8 DEF Inv, Phase

-----------------------------------------------------------------------------
(* Playback.                                                               *)

\* A call on the database file after which recovery finds the same.
LEMMA DbCall ==
    ASSUME Inv, Recovers, UNCHANGED pragma, PagerUnchanged, UNCHANGED J_vars, DbHandle',
           Files(recovered, Cells', DbSize', StoredJournal)
    PROVE  /\ recovered' = recovered /\ TypeInv' /\ HandlesInv' /\ FilesInv'
           /\ StoredJournal' = StoredJournal /\ JournalExists' = JournalExists
           /\ j_open' = j_open /\ j_data' = j_data
           /\ UNCHANGED <<eState, image, dirty, need_sync, pInJournal, nRec, journalOff, journalHdr,
                          dbOrigSize, txs, before, reply>>
<1>1. JournalHandle /\ TypeInv
  BY DEF Inv, HandlesInv
<1>2. /\ StoredJournal' = StoredJournal /\ JournalExists' = JournalExists
      /\ j_open' = j_open /\ j_data' = j_data /\ JournalHandle'
  BY <1>1, JournalSame
<1>3. DbSize' \in Nat /\ StoredJournal' \in Seq(Nat)
  BY <1>1, <1>2 DEF DbHandle, JournalHandle
<1>4. recovered \in Seq(Nat) /\ Len(recovered) <= MaxPages
  BY <1>1 DEF TypeInv
<1>5. Files(recovered, Cells', DbSize', StoredJournal')
  BY <1>2
<1>6. recovered' = recovered /\ FilesInv'
  BY <1>3, <1>4, <1>5, Recovered
<1>7. UNCHANGED <<eState, image, dirty, need_sync, pInJournal, nRec, journalOff, journalHdr,
                  dbOrigSize, txs, before, reply>>
  BY DEF PagerUnchanged, cache, jrnl
<1>8. TypeInv'
  <2>1. UNCHANGED <<image, before, jrnl, txs, reply, pragma>>
    BY <1>7 DEF jrnl
  <2> QED  BY <1>1, <1>4, <1>6, <2>1, TypesKept
<1> QED  BY <1>2, <1>6, <1>7, <1>8 DEF HandlesInv

\* What a playback ends in is kept by its calls.
LEMMA EndsKept ==
    ASSUME NEW z, Ends(z), PagerUnchanged, recovered' = recovered, db_open' = db_open,
           ValidNow' => ValidNow
    PROVE  Ends(z)'
<1>1. UNCHANGED <<eState, image, dirty, need_sync, pInJournal, nRec, journalOff, journalHdr,
                  dbOrigSize, txs, before, reply>>
  BY DEF PagerUnchanged, cache, jrnl
<1>2. CASE z = Reader /\ EndsRead
  <2>1. EndsRead'
    BY <1>1, <1>2 DEF EndsRead, Forgotten
  <2> QED  BY <1>2, <2>1 DEF Ends
<1>3. CASE z \in {Unlock("none"), Unlock("ERROR")} /\ EndsTx
  <2>1. EndsTx'
    BY <1>1, <1>3 DEF EndsTx, TxInv, Books
  <2> QED  BY <1>3, <2>1 DEF Ends
<1> QED  BY <1>2, <1>3 DEF Ends

\* The journalled pages are pages the database had.
LEMMA EndsBooks ==
    ASSUME NEW z, Ends(z)
    PROVE  pInJournal \subseteq 1..dbOrigSize
BY DEF Ends, EndsRead, Forgotten, EndsTx, Books

\* A call of a playback is a stutter of Transactions.
LEMMA EndsRefined ==
    ASSUME Inv, NEW z, Ends(z), PagerUnchanged, recovered' = recovered, ~Now("unlock")
    PROVE  Refined
<1>1. image' = image /\ eState' = eState /\ image \in Seq(Nat)
  BY DEF PagerUnchanged, cache, Inv, TypeInv
<1>2. CASE EndsRead
  BY <1>1, <1>2, StaysOut DEF EndsRead, Writing
<1>3. CASE EndsTx
  BY <1>1, <1>3, StaysTx DEF EndsTx, TxInv
<1> QED  BY <1>2, <1>3 DEF Ends

\* The calls that end a transaction stay the same while the mode does.
LEMMA FinalizeSame ==
    ASSUME UNCHANGED pragma
    PROVE  /\ \A z : Finalize(z)' = Finalize(z) /\ Ending(z)' = Ending(z)
           /\ \A todo, z : Undoes(todo, z)' = Undoes(todo, z)
           /\ \A todo : Commits(todo)' = Commits(todo)
<1>1. FirstEnd' = FirstEnd /\ LastEnd' = LastEnd
  BY DEF FirstEnd, LastEnd
<1>2. \A z : Ending(z)' = Ending(z)
  BY <1>1 DEF Ending
<1>3. \A z : Finalize(z)' = Finalize(z)
  BY <1>1, <1>2, Zenon DEF Finalize
<1> QED  BY <1>2, <1>3, Zenon DEF Undoes, Commits

\* What a playback still has to write is the same.
LEMMA OriginalsSame ==
    ASSUME NEW todo, Originals(todo), recovered' = recovered, Cells' = Cells,
           StoredJournal' = StoredJournal
    PROVE  Originals(todo)'
BY DEF Originals

\* pager_truncate, in a playback.
LEMMA UndoTruncate ==
    ASSUME Modes, Inv, NEW z, z \in {Reader, Unlock("none"), Unlock("ERROR")}, Ends(z),
           db_open, j_open, Sound(j_data, recovered), HotNow, Len(recovered) <= db_size,
           NEW s, IsList(s), calls = Cons(TruncateD(Len(recovered)), s),
           \/ s = Cons(SyncD, Finalize(z)) /\ Same(recovered, Cells, {})
           \/ \E todo : s = Undoes(todo, z) /\ Originals(todo),
           Next
    PROVE  Inv' /\ Refined
<1>1. /\ calls # << >> /\ Head(calls) = TruncateD(Len(recovered))
      /\ (Call \/ Kill) /\ UNCHANGED pragma /\ Recovers
  BY ConsFacts, OnlyCall
<1>2. /\ TruncateD(Len(recovered)).op = "truncate_db"
      /\ TruncateD(Len(recovered)).pages = Len(recovered)
  BY OpFacts
<1>3. ~Now("delete_journal") /\ ~Now("write_db") /\ ~Now("sync_journal") /\ ~Now("unlock")
  BY <1>1, <1>2 DEF Now
<1>4. CASE Kill
  BY <1>1, <1>3, <1>4, DiesUntouched
<1>5. CASE Call
  <2>1. Shrink(Len(recovered)) /\ calls' = s /\ PagerUnchanged /\ UNCHANGED J_vars
    BY <1>2, <1>5, CallIs
  <2>2. PICK n : n = Len(recovered)
    OBVIOUS
  <2>3. n \in Nat /\ DbHandle /\ db_size \in Nat
    BY <2>2 DEF Inv, TypeInv, HandlesInv, DbHandle
  <2>4. /\ Cells' = Cells /\ DbSize' = DbSize /\ db_open' /\ DbHandle'
        /\ db_size' = n
    <3>1. Shrink(n)
      BY <2>1, <2>2
    <3>2. /\ Cells' = Cells /\ DbSize' = DbSize /\ db_open' /\ DbHandle'
          /\ db_size' = IF db_size > n THEN n ELSE db_size
      BY <2>3, <3>1, DbTruncate
    <3> QED  BY <2>2, <2>3, <3>2
  <2>5. Files(recovered, Cells', DbSize', StoredJournal)
    BY <2>4 DEF Inv, FilesInv
  <2>6. /\ recovered' = recovered /\ TypeInv' /\ HandlesInv' /\ FilesInv'
        /\ StoredJournal' = StoredJournal /\ JournalExists' = JournalExists
        /\ j_open' = j_open /\ j_data' = j_data
    BY <1>1, <2>1, <2>4, <2>5, DbCall
  <2>7. HotNow' /\ ValidNow' = ValidNow
    BY <2>4, <2>6 DEF HotNow, ValidNow
  <2>8. Ends(z)'
    BY <2>1, <2>4, <2>6, <2>7, EndsKept
  <2>9. (db_open /\ j_open /\ Sound(j_data, recovered) /\ db_size = Len(recovered))'
    BY <2>2, <2>4, <2>6
  <2>10. UndoInv'
    <3>1. CASE s = Cons(SyncD, Finalize(z)) /\ Same(recovered, Cells, {})
      <4>1. (calls = Cons(SyncD, Finalize(z)))'
        BY <1>1, <2>1, <3>1, FinalizeSame, Zenon
      <4>2. Same(recovered, Cells, {})'
        BY <2>4, <2>6, <3>1
      <4>3. (z = Reader => JournalExists)'
        <5>1. JournalHandle /\ StoredJournal # << >>
          BY ValidFacts DEF Inv, HandlesInv, JournalHandle, HotNow, Hot, Dead
        <5> QED  BY <2>6, <5>1, StoredLen
      <4> QED  BY <2>8, <2>9, <4>1, <4>2, <4>3 DEF UndoInv
    <3>2. ASSUME NEW todo, s = Undoes(todo, z), Originals(todo) PROVE UndoInv'
      <4>1. (calls = Undoes(todo, z))'
        BY <1>1, <2>1, <3>2, FinalizeSame, Zenon
      <4>2. Originals(todo)'
        BY <2>4, <2>6, <3>2, OriginalsSame
      <4>3. (Now("write_db") /\ Head(calls).todo = todo)'
        <5>1. calls' = Undoes(todo, z)
          BY <2>1, <3>2
        <5> QED  BY <5>1, UndoesFacts DEF Now
      <4> QED  BY <2>7, <2>8, <2>9, <4>1, <4>2, <4>3 DEF UndoInv
    <3> QED  BY <3>1, <3>2
  <2>11. Refined
    BY <1>3, <2>1, <2>6, EndsRefined
  <2> QED  BY <2>6, <2>10, <2>11 DEF Inv, Phase
<1> QED  BY <1>1, <1>4, <1>5

\* One of the pages that a playback writes is another than the cells hold.
LEMMA OriginalWritten ==
    ASSUME NEW todo, Originals(todo), NEW k, k \in DOMAIN todo,
           recovered \in Seq(Nat), Len(recovered) <= MaxPages
    PROVE  \E p \in 1..Len(recovered) :
             /\ p \in 1..MaxPages /\ p \in PlayedPages(StoredJournal, NoHeader)
             /\ todo[k].pgno = p /\ todo[k].cell = recovered[p]
<1>1. PICK p \in PlayedPages(StoredJournal, NoHeader) \cap 1..Len(recovered) :
        todo[k] = Original(recovered, p)
  BY DEF Originals
<1>2. p \in 1..MaxPages
  BY <1>1, BoundsAssumption
<1> QED  BY <1>1, <1>2, OriginalFacts

\* The pages that are left to write, when those are the cells.
LeftOver(cells, left) ==
    /\ DOMAIN left \subseteq Nat /\ DOMAIN left # {}
    /\ \A n \in DOMAIN left :
         \E q \in PlayedPages(StoredJournal, NoHeader) \cap 1..Len(recovered) :
           left[n] = Original(recovered, q)
    /\ Same(recovered, cells, {left[n].pgno : n \in DOMAIN left})

\* The page at k is the original now.
LEMMA OriginalsLeft ==
    ASSUME NEW todo, Originals(todo), NEW k, k \in DOMAIN todo, NEW p, todo[k].pgno = p,
           recovered \in Seq(Nat), Len(recovered) <= MaxPages,
           NEW cells, cells[p] = recovered[p],
           \A q \in 1..MaxPages : q # p => cells[q] = Cells[q]
    PROVE  /\ DOMAIN todo = {k} => Same(recovered, cells, {})
           /\ \A left : OneWritten(todo, left, k) => LeftOver(cells, left)
<1>1. \A q \in 1..Len(recovered) : q # p => cells[q] = Cells[q]
  BY BoundsAssumption
<1>2. ASSUME NEW q \in 1..Len(recovered), cells[q] # recovered[q]
      PROVE  \E n \in DOMAIN todo : n # k /\ q = todo[n].pgno
  <2>1. q # p /\ Cells[q] # recovered[q]
    BY <1>1, <1>2
  <2>2. q \in {todo[n].pgno : n \in DOMAIN todo}
    BY <2>1 DEF Originals, Same
  <2> QED  BY <2>1, <2>2
<1>3. ASSUME DOMAIN todo = {k} PROVE Same(recovered, cells, {})
  BY <1>2, <1>3 DEF Same
<1>4. ASSUME NEW left, OneWritten(todo, left, k)
      PROVE  LeftOver(cells, left)
  <2>1. /\ DOMAIN left = DOMAIN todo \ {k} /\ DOMAIN left # {}
        /\ \A n \in DOMAIN left : left[n] = todo[n]
    BY <1>4 DEF OneWritten
  <2>2. DOMAIN left \subseteq Nat
    BY <2>1 DEF Originals
  <2>3. ASSUME NEW n \in DOMAIN left
        PROVE  \E q \in PlayedPages(StoredJournal, NoHeader) \cap 1..Len(recovered) :
                 left[n] = Original(recovered, q)
    <3>1. n \in DOMAIN todo /\ left[n] = todo[n]
      BY <2>1
    <3> QED  BY <3>1 DEF Originals
  <2>4. ASSUME NEW q \in 1..Len(recovered), cells[q] # recovered[q]
        PROVE  q \in {left[n].pgno : n \in DOMAIN left}
    <3>1. PICK n \in DOMAIN todo : n # k /\ q = todo[n].pgno
      BY <1>2, <2>4
    <3> QED  BY <2>1, <3>1
  <2>5. Same(recovered, cells, {left[n].pgno : n \in DOMAIN left})
    BY <2>4 DEF Same
  <2> QED  BY <2>1, <2>2, <2>3, <2>5, Zenon DEF LeftOver
<1> QED  BY <1>3, <1>4

\* The pages a playback has left are originals again.
LEMMA LeftIsOriginals ==
    ASSUME NEW left, NEW cells, LeftOver(cells, left), cells = Cells', recovered' = recovered,
           StoredJournal' = StoredJournal
    PROVE  Originals(left)'
BY DEF LeftOver, Originals

\* pager_playback_one_page writes a page.
LEMMA UndoWrite ==
    ASSUME Modes, Inv, NEW z, z \in {Reader, Unlock("none"), Unlock("ERROR")}, Ends(z),
           db_open, j_open, Sound(j_data, recovered), HotNow, Len(recovered) = db_size,
           NEW todo, calls = Undoes(todo, z), Originals(todo), Next
    PROVE  Inv' /\ Refined
<1>0. PICK s : s = Cons(SyncD, Finalize(z))
  OBVIOUS
<1>1. IsList(s) /\ calls = Cons(WriteD(todo, FALSE), s)
  BY <1>0, FinalizeList, Zenon DEF Undoes
<1>2. /\ calls # << >> /\ Head(calls) = WriteD(todo, FALSE)
      /\ (Call \/ Kill) /\ UNCHANGED pragma /\ Recovers
  BY <1>1, ConsFacts, OnlyCall
<1>3. /\ WriteD(todo, FALSE).op = "write_db" /\ ~Head(calls).committing
  <2>1. ~Head(calls).committing /\ Head(calls).op = "write_db"
    BY UndoesFacts
  <2>2. WriteD(todo, FALSE).op = "write_db"
    BY <1>2, <2>1, Zenon
  <2> QED  BY <2>1, <2>2
<1>4. Now("write_db") /\ ~Now("delete_journal") /\ ~Now("sync_journal") /\ ~Now("unlock")
  BY <1>2, <1>3 DEF Now
<1>5. /\ TypeInv /\ HandlesInv /\ DbHandle /\ JournalHandle /\ recovered \in Seq(Nat)
      /\ Len(recovered) <= MaxPages /\ DbSize \in Nat /\ db_size \in Nat /\ StoredJournal \in Seq(Nat)
  BY DEF Inv, TypeInv, HandlesInv, DbHandle, JournalHandle
<1>6. DOMAIN todo \subseteq Nat /\ DOMAIN todo # {}
  BY DEF Originals
<1>7. PICK k \in DOMAIN todo :
        /\ PageToWrite = todo[k]
        /\ ContinueWriting =>
             \/ DOMAIN todo = {k} /\ calls' = s
             \/ \E left : OneWritten(todo, left, k) /\ calls' = Cons(WriteD(left, FALSE), s)
  BY <1>1, <1>6, WritingNext
<1>8. PICK p \in 1..Len(recovered) :
        /\ p \in 1..MaxPages /\ p \in PlayedPages(StoredJournal, NoHeader)
        /\ todo[k].pgno = p /\ todo[k].cell = recovered[p]
  BY <1>5, OriginalWritten
<1>9. PageToWrite.pgno = p /\ PageToWrite.cell = recovered[p]
  BY <1>7, <1>8
<1>10. ASSUME NEW cells, \A q \in 1..MaxPages : q # p => cells[q] = Cells[q]
       PROVE  Hot(recovered, cells, DbSize, StoredJournal)
  <2>1. \A q \in 1..Len(recovered) : q # p => cells[q] = Cells[q]
    BY <1>5, <1>10, BoundsAssumption
  <2> QED  BY <1>5, <1>8, <2>1, HotOverwritten DEF HotNow
<1>11. CASE Kill
  <2>1. /\ PagerLost /\ DbSize' = DbSize
        /\ StoredJournal' \in Seq(Nat) /\ j_key' \in Nat \cup {NoFile}
        /\ StoredJournal' = StoredJournal
        /\ \A q \in 1..MaxPages : q # p => Cells'[q] = Cells[q]
    BY <1>4, <1>5, <1>8, <1>9, <1>11, KillFiles DEF Modes
  <2>2. Files(recovered, Cells', DbSize', StoredJournal')
    BY <1>10, <2>1 DEF Files
  <2>3. Inv' /\ recovered' = recovered /\ Tx' = NoTx
    BY <1>2, <1>5, <2>1, <2>2, Dies
  <2> QED  BY <2>3, KeepsRecovered
<1>12. CASE Call
  <2>1. \/ /\ D!WriteDb(<<PageToWrite.cell>>, PageToWrite.pgno - 1)
           /\ ContinueWriting /\ PagerUnchanged /\ UNCHANGED J_vars
        \/ WriteDatabaseFails
    BY <1>1, <1>3, <1>12, CallIs
  <2>2. CASE WriteDatabaseFails
    <3>1. /\ D!WriteDbFails(<<PageToWrite.cell>>, PageToWrite.pgno - 1)
          /\ Fail /\ UNCHANGED J_vars
      BY <1>3, <2>2 DEF WriteDatabaseFails
    <3>2. /\ \A q \in 1..MaxPages : q # p => Cells'[q] = Cells[q]
          /\ db_open' /\ DbSize' = DbSize /\ db_size' = db_size /\ DbHandle'
      BY <1>5, <1>8, <1>9, <3>1, DbWriteFails
    <3>3. StoredJournal' = StoredJournal /\ JournalHandle'
      BY <1>5, <3>1, JournalSame
    <3>4. Hot(recovered, Cells', DbSize', StoredJournal')
      BY <1>10, <3>2, <3>3
    <3>5. recovered' = recovered /\ FilesInv'
      <4>1. DbSize' \in Nat /\ StoredJournal' \in Seq(Nat)
        BY <1>5, <3>2, <3>3
      <4>2. Files(recovered, Cells', DbSize', StoredJournal')
        BY <3>4 DEF Files
      <4> QED  BY <1>2, <1>5, <4>1, <4>2, Recovered
    <3>6. HotNow'
      BY <3>4, <3>5 DEF HotNow
    <3>7. Ready'
      <4>1. (Len(recovered) <= db_size)'
        BY <1>5, <3>2, <3>5
      <4>2. db_size' # 0
        BY <1>5, <1>8, <3>2
      <4> QED  BY <3>6, <4>1, <4>2 DEF Ready
    <3>8. ValidNow' = ValidNow /\ ValidNow
      BY <3>3 DEF ValidNow, HotNow, Hot
    <3>9. /\ eState \in Writing => before = recovered /\ reply = "none"
          /\ eState \notin Writing => reply # "OK" /\ (reply = "ERROR" => before = recovered)
          /\ before \in {<< >>, recovered}
      <4>1. CASE EndsRead
        BY <3>8, <4>1 DEF EndsRead, Writing
      <4>2. CASE EndsTx
        BY <4>2 DEF EndsTx, TxInv
      <4> QED  BY <4>1, <4>2 DEF Ends
    <3> QED  BY <1>2, <3>1, <3>2, <3>3, <3>5, <3>7, <3>9, EndsBooks, FailStops DEF HandlesInv
  <2>3. CASE /\ D!WriteDb(<<PageToWrite.cell>>, PageToWrite.pgno - 1)
             /\ ContinueWriting /\ PagerUnchanged /\ UNCHANGED J_vars
    <3>1. /\ Cells'[p] = recovered[p] /\ \A q \in 1..MaxPages : q # p => Cells'[q] = Cells[q]
          /\ db_open' /\ DbSize' = DbSize /\ db_size' = db_size /\ DbHandle'
      <4>1. /\ Cells'[p] = recovered[p] /\ \A q \in 1..MaxPages : q # p => Cells'[q] = Cells[q]
            /\ db_open' /\ DbSize' = DbSize
            /\ db_size' = (IF p > db_size THEN p ELSE db_size) /\ DbHandle'
        BY <1>5, <1>8, <1>9, <2>3, DbWrite
      <4> QED  BY <1>5, <1>8, <4>1
    <3>2. Hot(recovered, Cells', DbSize', StoredJournal)
      BY <1>10, <3>1
    <3>3. Files(recovered, Cells', DbSize', StoredJournal)
      BY <3>2 DEF Files
    <3>4. /\ recovered' = recovered /\ TypeInv' /\ HandlesInv' /\ FilesInv'
          /\ StoredJournal' = StoredJournal /\ JournalExists' = JournalExists
          /\ j_open' = j_open /\ j_data' = j_data
      BY <1>2, <2>3, <3>1, <3>3, DbCall
    <3>5. HotNow' /\ ValidNow' = ValidNow
      BY <3>2, <3>4 DEF HotNow, ValidNow
    <3>6. Ends(z)'
      BY <2>3, <3>1, <3>4, <3>5, EndsKept
    <3>7. (db_open /\ j_open /\ Sound(j_data, recovered) /\ Len(recovered) = db_size)'
      BY <3>1, <3>4
    <3>8. Refined
      BY <1>4, <2>3, <3>4, EndsRefined
    <3>9. PICK cells : cells = Cells'
      OBVIOUS
    <3>10. /\ DOMAIN todo = {k} => Same(recovered, cells, {})
           /\ \A left : OneWritten(todo, left, k) => LeftOver(cells, left)
      <4>1. cells[p] = recovered[p] /\ \A q \in 1..MaxPages : q # p => cells[q] = Cells[q]
        BY <3>1, <3>9, Zenon
      <4>2. todo[k].pgno = p
        BY <1>8
      <4> QED  BY <1>5, <4>1, <4>2, OriginalsLeft, Zenon
    <3>11. UndoInv'
      <4>1. CASE DOMAIN todo = {k} /\ calls' = s
        <5>1. (calls = Cons(SyncD, Finalize(z)))'
          BY <1>0, <1>2, <4>1, FinalizeSame, Zenon
        <5>2. Same(recovered, Cells, {})'
          BY <3>4, <3>9, <3>10, <4>1
        <5>3. (z = Reader => JournalExists)'
          <6>1. StoredJournal # << >>
            BY <1>5, ValidFacts DEF HotNow, Hot, Dead
          <6> QED  BY <1>5, <3>4, <6>1, StoredLen
        <5> QED  BY <3>6, <3>7, <5>1, <5>2, <5>3 DEF UndoInv
      <4>2. ASSUME NEW left, OneWritten(todo, left, k), calls' = Cons(WriteD(left, FALSE), s)
            PROVE  UndoInv'
        <5>1. calls' = Undoes(left, z)
          BY <1>0, <4>2, Zenon DEF Undoes
        <5>2. (calls = Undoes(left, z))'
          BY <1>2, <5>1, FinalizeSame, Zenon
        <5>3. Originals(left)'
          BY <3>4, <3>9, <3>10, <4>2, LeftIsOriginals
        <5>4. (Now("write_db") /\ Head(calls).todo = left)'
          BY <5>1, UndoesFacts DEF Now
        <5> QED  BY <3>5, <3>6, <3>7, <5>2, <5>3, <5>4 DEF UndoInv
      <4> QED  BY <1>7, <2>3, <4>1, <4>2
    <3> QED  BY <3>4, <3>8, <3>11 DEF Inv, Phase
  <2> QED  BY <2>1, <2>2, <2>3
<1> QED  BY <1>2, <1>11, <1>12

\* The file is synced, whether the journal is hot or not.
LEMMA SyncedFile ==
    ASSUME NEW base \in Seq(Nat), NEW cells, NEW size, NEW s, Files(base, cells, size, s),
           Same(base, cells, {})
    PROVE  /\ Files(base, cells, Len(base), s)
           /\ ~Valid(s) => Clean(base, cells, Len(base), s)
<1>1. CASE Hot(base, cells, size, s)
  <2>1. Len(base) \in Nat
    OBVIOUS
  <2>2. Hot(base, cells, Len(base), s)
    BY <1>1, <2>1 DEF Hot
  <2> QED  BY <1>1, <2>2 DEF Files, Hot
<1>2. CASE Clean(base, cells, size, s)
  BY <1>2 DEF Files, Clean
<1> QED  BY <1>1, <1>2 DEF Files

\* sqlite3OsSync of the database file, in a playback.
LEMMA UndoSync ==
    ASSUME Modes, Inv, NEW z, z \in {Reader, Unlock("none"), Unlock("ERROR")}, Ends(z),
           db_open, j_open, Sound(j_data, recovered), db_size = Len(recovered),
           Same(recovered, Cells, {}), z = Reader => JournalExists,
           NEW s, IsList(s), calls = Cons(SyncD, s),
           s = Finalize(z) \/ (s = <<Reader>> /\ z = Reader /\ ~ValidNow), Next
    PROVE  Inv' /\ Refined
<1>1. /\ calls # << >> /\ Head(calls) = SyncD
      /\ (Call \/ Kill) /\ UNCHANGED pragma /\ Recovers
  BY ConsFacts, OnlyCall
<1>2. SyncD.op = "sync_db"
  BY OpFacts
<1>3. ~Now("delete_journal") /\ ~Now("write_db") /\ ~Now("sync_journal") /\ ~Now("unlock")
  BY <1>1, <1>2 DEF Now
<1>4. CASE Kill
  BY <1>1, <1>3, <1>4, DiesUntouched
<1>5. CASE Call
  <2>1. D!Sync /\ calls' = s /\ PagerUnchanged /\ UNCHANGED J_vars
    BY <1>2, <1>5, CallIs
  <2>2. DbHandle /\ recovered \in Seq(Nat)
    BY DEF Inv, HandlesInv, TypeInv
  <2>3. /\ Cells' = Cells /\ DbSize' = db_size /\ db_size' = db_size /\ db_open' /\ DbHandle'
    BY <2>1, <2>2, DbSync
  <2>4. /\ Files(recovered, Cells, Len(recovered), StoredJournal)
        /\ ~Valid(StoredJournal) => Clean(recovered, Cells, Len(recovered), StoredJournal)
    BY <2>2, SyncedFile DEF Inv, FilesInv
  <2>5. Files(recovered, Cells', DbSize', StoredJournal)
    BY <2>3, <2>4
  <2>6. /\ recovered' = recovered /\ TypeInv' /\ HandlesInv' /\ FilesInv'
        /\ StoredJournal' = StoredJournal /\ JournalExists' = JournalExists
        /\ j_open' = j_open /\ j_data' = j_data
    BY <1>1, <2>1, <2>3, <2>5, DbCall
  <2>7. ValidNow' = ValidNow
    BY <2>6 DEF ValidNow
  <2>8. Ends(z)'
    BY <2>1, <2>3, <2>6, <2>7, EndsKept
  <2>9. (/\ db_open /\ j_open /\ Sound(j_data, recovered) /\ db_size = Len(recovered)
         /\ Same(recovered, Cells, {}) /\ db_size = DbSize /\ (z = Reader => JournalExists))'
    BY <2>3, <2>6
  <2>10. UndoInv'
    <3>1. CASE s = Finalize(z)
      <4>1. (calls = Finalize(z))'
        BY <1>1, <2>1, <3>1, FinalizeSame, Zenon
      <4> QED  BY <2>8, <2>9, <4>1 DEF UndoInv
    <3>2. CASE s = <<Reader>> /\ z = Reader /\ ~ValidNow
      <4>1. (calls = <<z>>)'
        BY <2>1, <3>2
      <4>2. CleanNow'
        BY <2>3, <2>4, <2>6, <3>2 DEF CleanNow, ValidNow
      <4>3. Settled'
        BY <2>7, <2>9, <3>2, <4>2 DEF Settled
      <4>4. KeepsSound(recovered)'
        BY <2>9 DEF KeepsSound
      <4> QED  BY <2>8, <2>9, <4>1, <4>3, <4>4 DEF UndoInv
    <3> QED  BY <3>1, <3>2
  <2>11. Refined
    BY <1>3, <2>1, <2>6, EndsRefined
  <2> QED  BY <2>6, <2>10, <2>11 DEF Inv, Phase
<1> QED  BY <1>1, <1>4, <1>5

\* The first call of pager_end_transaction, that needs no care: the journal is
\* stored by the next.
LEMMA FinalizeStarts ==
    ASSUME Modes, Inv, Recovers, UNCHANGED pragma, NEW z, calls = Finalize(z), Call,
           j_open, NEW base, base \in Seq(Nat), Sound(j_data, base)
    PROVE  /\ JournalStep(Ending(z)) /\ (calls = Ending(z))'
           /\ StoredJournal' = StoredJournal /\ JournalExists' = JournalExists
           /\ recovered' = recovered /\ TypeInv' /\ HandlesInv' /\ FilesInv'
           /\ IF pragma.journal_mode = "DELETE" THEN ~j_open'
              ELSE j_open' /\ j_data' # << >> /\ j_data'[1] = 0 /\ Sound(j_data', base)
<1>1. PICK s, a : s = Ending(z) /\ a = FirstEnd
  OBVIOUS
<1>2. IsList(s) /\ calls = Cons(a, s)
  BY <1>1, FinalizeList, Zenon DEF Finalize
<1>3. JournalHandle /\ pragma \in Pragmas /\ j_data \in Seq(Nat)
  BY DEF Inv, HandlesInv, TypeInv, JournalHandle
<1>4. (pragma.journal_mode = "DELETE") \in BOOLEAN
  OBVIOUS
<1>5. CASE pragma.journal_mode = "DELETE"
  <2>1. a = CloseJ
    BY <1>1, <1>5 DEF FirstEnd
  <2>2. J!Close /\ JournalStep(s)
    BY <1>2, <2>1, CallIs, OpFacts
  <2>3. ~j_open' /\ StoredJournal' = StoredJournal /\ JournalExists' = JournalExists /\ JournalHandle'
    BY <1>3, <2>2, JournalClose
  <2>4. recovered' = recovered /\ TypeInv' /\ HandlesInv' /\ FilesInv'
    BY <2>2, <2>3, JournalCall
  <2>5. (calls = Ending(z))'
    BY <1>1, <2>2, FinalizeSame, Zenon DEF JournalStep
  <2> QED  BY <1>1, <1>5, <2>2, <2>3, <2>4, <2>5
<1>6. CASE pragma.journal_mode # "DELETE"
  <2>1. a = WriteJ(0, <<0, 0, 0>>)
    BY <1>1, <1>6 DEF FirstEnd
  <2>2. a.op = "write_journal" /\ a.at = 0 /\ a.data = <<0, 0, 0>>
    BY <2>1, OpFacts
  <2>3. J!WriteJournal(<<0, 0, 0>>, 0) /\ JournalStep(s)
    BY <1>2, <2>2, CallIs
  <2>4. /\ j_open' /\ PutThree(j_data', j_data, 0, 0, 0, 0)
        /\ StoredJournal' = StoredJournal /\ JournalExists' = JournalExists /\ JournalHandle'
    <3>1. 0 \in Nat /\ 0 <= Len(j_data)
      BY <1>3
    <3> QED  BY <1>3, <2>3, <3>1, WritesThree
  <2>5. Sound(j_data', base) /\ j_data' \in Seq(Nat) /\ Len(j_data') >= 3 /\ j_data'[1] = 0
    BY <1>3, <2>4, ZeroFirstHeader
  <2>6. j_data' # << >>
    BY <2>5
  <2>7. recovered' = recovered /\ TypeInv' /\ HandlesInv' /\ FilesInv'
    BY <2>3, <2>4, JournalCall
  <2>8. (calls = Ending(z))'
    BY <1>1, <2>3, FinalizeSame, Zenon DEF JournalStep
  <2> QED  BY <1>1, <1>6, <2>3, <2>4, <2>5, <2>6, <2>7, <2>8
<1> QED  BY <1>5, <1>6

\* The first call of pager_end_transaction closes the journal or zeroes its header.
LEMMA FinalizeHead ==
    ASSUME Modes, Inv, NEW z, calls = Finalize(z), Next
    PROVE  /\ (Call \/ Kill) /\ UNCHANGED pragma /\ Recovers
           /\ ~Now("delete_journal") /\ ~Now("write_db") /\ ~Now("sync_journal") /\ ~Now("unlock")
<1>1. PICK s, a : s = Ending(z) /\ a = FirstEnd
  OBVIOUS
<1>2. IsList(s) /\ calls = Cons(a, s)
  BY <1>1, FinalizeList, Zenon DEF Finalize
<1>3. a.op = "close_journal" \/ a.op = "write_journal"
  BY <1>1, OpFacts DEF FirstEnd
<1>4. calls # << >> /\ Head(calls) = a
  BY <1>2, ConsFacts
<1> QED  BY <1>3, <1>4, OnlyCall DEF Now

\* pager_end_transaction after a playback.
LEMMA UndoFinalize ==
    ASSUME Modes, Inv, NEW z, z \in {Reader, Unlock("none"), Unlock("ERROR")}, Ends(z),
           db_open, j_open, Sound(j_data, recovered), db_size = Len(recovered),
           Same(recovered, Cells, {}), z = Reader => JournalExists,
           calls = Finalize(z), db_size = DbSize, Next
    PROVE  Inv' /\ Refined
<1>1. /\ (Call \/ Kill) /\ UNCHANGED pragma /\ Recovers
      /\ ~Now("delete_journal") /\ ~Now("write_db") /\ ~Now("sync_journal") /\ ~Now("unlock")
  BY FinalizeHead
<1>2. CASE Kill
  BY <1>1, <1>2, DiesUntouched
<1>3. CASE Call
  <2>1. recovered \in Seq(Nat)
    BY DEF Inv, TypeInv
  <2>2. /\ JournalStep(Ending(z)) /\ (calls = Ending(z))'
        /\ StoredJournal' = StoredJournal /\ JournalExists' = JournalExists
        /\ recovered' = recovered /\ TypeInv' /\ HandlesInv' /\ FilesInv'
        /\ IF pragma.journal_mode = "DELETE" THEN ~j_open'
           ELSE j_open' /\ j_data' # << >> /\ j_data'[1] = 0 /\ Sound(j_data', recovered)
    BY <1>1, <1>3, <2>1, FinalizeStarts
  <2>3. PagerUnchanged /\ UNCHANGED D_vars
    BY <2>2 DEF JournalStep
  <2>4. Cells' = Cells /\ DbSize' = DbSize /\ db_size' = db_size /\ db_open' = db_open
    BY <2>3, DbSame
  <2>5. ValidNow' = ValidNow
    BY <2>2 DEF ValidNow
  <2>6. Ends(z)'
    BY <2>2, <2>3, <2>4, <2>5, EndsKept
  <2>7. KeepsSound(recovered)'
    BY <2>2 DEF KeepsSound
  <2>8. (/\ db_open /\ db_size = Len(recovered) /\ Same(recovered, Cells, {}) /\ db_size = DbSize
         /\ (z = Reader => JournalExists)
         /\ IF pragma.journal_mode = "DELETE" THEN ~j_open
            ELSE j_open /\ j_data # << >> /\ j_data[1] = 0)'
    BY <1>1, <2>2, <2>4
  <2>9. UndoInv'
    BY <2>2, <2>6, <2>7, <2>8 DEF UndoInv
  <2>10. Refined
    BY <1>1, <2>2, <2>3, EndsRefined
  <2> QED  BY <2>2, <2>9, <2>10 DEF Inv, Phase
<1> QED  BY <1>1, <1>2, <1>3

\* The database file is base, and no connection would read the journal.
LEMMA DeadClean ==
    ASSUME NEW base \in Seq(Nat), NEW cells, Same(base, cells, {}), NEW s \in Seq(Nat), Dead(s)
    PROVE  Clean(base, cells, Len(base), s) /\ ~Valid(s)
<1>1. ~Valid(s)
  BY ValidFacts
<1> QED  BY <1>1 DEF Clean

\* The last call of pager_end_transaction: the journal is gone, or has a header
\* of zeros.
LEMMA JournalEnds ==
    ASSUME Modes, Inv, NEW z, calls = Ending(z), Next,
           NEW base, base \in Seq(Nat), Len(base) <= MaxPages, DbSize = Len(base),
           Same(base, Cells, {}),
           IF pragma.journal_mode = "DELETE" THEN ~j_open
           ELSE j_open /\ j_data # << >> /\ j_data[1] = 0
    PROVE  /\ Recovers /\ UNCHANGED pragma /\ ~Now("unlock") /\ ~Now("write_db")
           /\ \/ Inv' /\ recovered' \in {recovered, base} /\ Tx' = NoTx
              \/ DeleteJournalFails /\ ~JournalExists
              \/ /\ calls' = <<z>> /\ PagerUnchanged /\ UNCHANGED D_vars
                 /\ recovered' = base /\ TypeInv' /\ HandlesInv' /\ FilesInv'
                 /\ CleanNow' /\ ~ValidNow'
                 /\ j_data' = j_data /\ j_open' = j_open
<1>1. PICK s, a : s = <<z>> /\ a = LastEnd
  OBVIOUS
<1>2. IsList(s) /\ calls = Cons(a, s)
  BY <1>1, ListFacts, Zenon DEF Ending
<1>3. /\ calls # << >> /\ Head(calls) = a
      /\ (Call \/ Kill) /\ UNCHANGED pragma /\ Recovers
  BY <1>2, ConsFacts, OnlyCall
<1>4. /\ TypeInv /\ HandlesInv /\ DbHandle /\ JournalHandle /\ FilesInv
      /\ recovered \in Seq(Nat) /\ Len(recovered) <= MaxPages
      /\ StoredJournal \in Seq(Nat) /\ j_data \in Seq(Nat) /\ DbSize \in Nat
  BY DEF Inv, TypeInv, HandlesInv, DbHandle, JournalHandle
<1>5. a.op = "delete_journal" \/ a.op = "sync_journal"
  BY <1>1, OpFacts DEF LastEnd
<1>6. ~Now("unlock") /\ ~Now("write_db")
  BY <1>3, <1>5 DEF Now
<1>7. ASSUME NEW t \in Seq(Nat), Dead(t)
      PROVE  Clean(base, Cells, DbSize, t) /\ ~Valid(t)
  BY <1>7, DeadClean
<1>8. ASSUME PagerLost, DbSize' = DbSize, StoredJournal' \in Seq(Nat),
             j_key' \in Nat \cup {NoFile}, Cells' = Cells,
             StoredJournal' = StoredJournal \/ Dead(StoredJournal')
      PROVE  Inv' /\ recovered' \in {recovered, base} /\ Tx' = NoTx
  <2>1. CASE StoredJournal' = StoredJournal
    <3>1. Files(recovered, Cells', DbSize', StoredJournal')
      BY <1>4, <1>8, <2>1 DEF FilesInv
    <3> QED  BY <1>3, <1>4, <1>8, <3>1, Dies
  <2>2. CASE Dead(StoredJournal')
    <3>1. Clean(base, Cells', DbSize', StoredJournal')
      BY <1>7, <1>8, <2>2
    <3>2. Files(base, Cells', DbSize', StoredJournal')
      BY <3>1 DEF Files
    <3> QED  BY <1>3, <1>4, <1>8, <3>2, Dies
  <2> QED  BY <1>8, <2>1, <2>2
<1>9. ASSUME JournalStep(s), JournalHandle', Dead(StoredJournal'),
             j_data' = j_data, j_open' = j_open
      PROVE  /\ calls' = <<z>> /\ PagerUnchanged /\ UNCHANGED D_vars
             /\ recovered' = base /\ TypeInv' /\ HandlesInv' /\ FilesInv'
             /\ CleanNow' /\ ~ValidNow'
             /\ j_data' = j_data /\ j_open' = j_open
  <2>1. calls' = <<z>> /\ PagerUnchanged /\ UNCHANGED D_vars
    BY <1>1, <1>9 DEF JournalStep
  <2>2. Cells' = Cells /\ DbSize' = DbSize /\ DbHandle'
    BY <1>4, <2>1, DbSame
  <2>3. StoredJournal' \in Seq(Nat)
    BY <1>9 DEF JournalHandle
  <2>4. Clean(base, Cells', DbSize', StoredJournal') /\ ~Valid(StoredJournal')
    BY <1>7, <1>9, <2>2, <2>3
  <2>5. recovered' = base /\ FilesInv'
    <3>1. Files(base, Cells', DbSize', StoredJournal')
      BY <2>4 DEF Files
    <3> QED  BY <1>3, <1>4, <2>2, <2>3, <3>1, Recovered
  <2>6. CleanNow' /\ ~ValidNow'
    BY <2>4, <2>5 DEF CleanNow, ValidNow
  <2>7. TypeInv'
    <3>1. UNCHANGED <<image, before, jrnl, txs, reply, pragma>>
      BY <1>3, <2>1 DEF PagerUnchanged, cache
    <3> QED  BY <1>4, <2>5, <3>1, TypesKept
  <2> QED  BY <1>9, <2>1, <2>2, <2>5, <2>6, <2>7 DEF HandlesInv
<1>10. CASE pragma.journal_mode = "DELETE"
  <2>1. a = DeleteJ /\ ~j_open
    BY <1>1, <1>10 DEF LastEnd
  <2>2. a.op = "delete_journal"
    BY <2>1, OpFacts
  <2>3. Now("delete_journal") /\ ~Now("sync_journal")
    BY <1>3, <2>2 DEF Now
  <2>4. Dead(<< >>)
    BY DEF Dead
  <2>5. CASE Kill
    <3>1. /\ PagerLost /\ DbSize' = DbSize
          /\ StoredJournal' \in Seq(Nat) /\ j_key' \in Nat \cup {NoFile}
          /\ Cells' = Cells /\ (StoredJournal' = StoredJournal \/ StoredJournal' = << >>)
      BY <1>4, <1>6, <2>3, <2>5, KillFiles DEF Modes
    <3>2. StoredJournal' = StoredJournal \/ Dead(StoredJournal')
      BY <2>4, <3>1
    <3> QED  BY <1>3, <1>6, <1>8, <3>1, <3>2
  <2>6. CASE Call
    <3>1. (J!Delete /\ JournalStep(s)) \/ DeleteJournalFails
      BY <1>2, <2>2, <2>6, CallIs
    <3>2. CASE DeleteJournalFails
      <4>1. ~JournalExists
        BY <1>4, <3>2, JournalDeleteFails DEF DeleteJournalFails
      <4> QED  BY <1>3, <1>6, <3>2, <4>1
    <3>3. CASE J!Delete /\ JournalStep(s)
      <4>1. ~j_open' /\ j_data' = j_data /\ StoredJournal' = << >> /\ JournalHandle'
        BY <1>4, <3>3, JournalDelete
      <4>2. Dead(StoredJournal') /\ j_open' = j_open
        <5>1. j_open' \in BOOLEAN /\ j_open \in BOOLEAN
          BY <1>4, <4>1 DEF JournalHandle
        <5> QED  BY <2>1, <2>4, <4>1, <5>1
      <4> QED  BY <1>3, <1>6, <1>9, <3>3, <4>1, <4>2
    <3> QED  BY <3>1, <3>2, <3>3
  <2> QED  BY <1>3, <2>5, <2>6
<1>11. CASE pragma.journal_mode # "DELETE"
  <2>1. a = SyncJ /\ j_open /\ j_data # << >> /\ j_data[1] = 0
    BY <1>1, <1>11 DEF LastEnd
  <2>2. a.op = "sync_journal"
    BY <2>1, OpFacts
  <2>3. ~Now("delete_journal") /\ Now("sync_journal")
    BY <1>3, <2>2 DEF Now
  <2>4. CASE Kill
    <3>1. /\ PagerLost /\ DbSize' = DbSize
          /\ StoredJournal' \in Seq(Nat) /\ j_key' \in Nat \cup {NoFile}
          /\ Cells' = Cells /\ (StoredJournal' = StoredJournal \/ Remains(j_data, StoredJournal'))
      BY <1>4, <1>6, <2>1, <2>3, <2>4, KillFiles DEF Modes
    <3>2. StoredJournal' = StoredJournal \/ Dead(StoredJournal')
      BY <1>4, <2>1, <3>1, RemainsFacts
    <3> QED  BY <1>3, <1>6, <1>8, <3>1, <3>2
  <2>5. CASE Call
    <3>1. J!Sync /\ JournalStep(s)
      BY <1>2, <2>2, <2>5, CallIs
    <3>2. j_open' /\ j_data' = j_data /\ StoredJournal' = j_data /\ JournalHandle'
      BY <1>4, <2>1, <3>1, JournalSync
    <3>3. Dead(StoredJournal') /\ j_open' = j_open
      <4>1. j_open' \in BOOLEAN /\ j_open \in BOOLEAN
        BY <1>4, <3>2 DEF JournalHandle
      <4> QED  BY <2>1, <3>2, <4>1 DEF Dead
    <3> QED  BY <1>3, <1>6, <1>9, <3>1, <3>2, <3>3
  <2> QED  BY <1>3, <2>4, <2>5
<1> QED  BY <1>10, <1>11

\* The end of a playback.
LEMMA UndoEnds ==
    ASSUME Modes, Inv, NEW z, z \in {Reader, Unlock("none"), Unlock("ERROR")}, Ends(z),
           db_open, db_size = Len(recovered), Same(recovered, Cells, {}), db_size = DbSize,
           z = Reader => JournalExists, KeepsSound(recovered), calls = Ending(z),
           IF pragma.journal_mode = "DELETE" THEN ~j_open
           ELSE j_open /\ j_data # << >> /\ j_data[1] = 0,
           Next
    PROVE  Inv' /\ Refined
<1>0. PICK base : base = recovered
  OBVIOUS
<1>1. base \in Seq(Nat) /\ Len(base) <= MaxPages /\ DbSize = Len(base) /\ Same(base, Cells, {})
  BY <1>0 DEF Inv, TypeInv
<1>2. /\ Recovers /\ UNCHANGED pragma /\ ~Now("unlock") /\ ~Now("write_db")
      /\ \/ Inv' /\ recovered' \in {recovered, base} /\ Tx' = NoTx
         \/ DeleteJournalFails /\ ~JournalExists
         \/ /\ calls' = <<z>> /\ PagerUnchanged /\ UNCHANGED D_vars
            /\ recovered' = base /\ TypeInv' /\ HandlesInv' /\ FilesInv'
            /\ CleanNow' /\ ~ValidNow'
            /\ j_data' = j_data /\ j_open' = j_open
  BY <1>1, JournalEnds
<1>3. CASE Inv' /\ recovered' \in {recovered, base} /\ Tx' = NoTx
  BY <1>0, <1>3, KeepsRecovered
<1>4. CASE DeleteJournalFails /\ ~JournalExists
  <2>1. Fail /\ UNCHANGED D_vars /\ J!DeleteFails
    BY <1>4 DEF DeleteJournalFails
  <2>2. JournalHandle /\ DbHandle
    BY DEF Inv, HandlesInv
  <2>3. StoredJournal' = StoredJournal /\ JournalHandle' /\ StoredJournal = << >>
    BY <1>4, <2>1, <2>2, JournalDeleteFails, StoredLen
  <2>4. Cells' = Cells /\ DbSize' = DbSize /\ DbHandle' /\ db_size' = db_size /\ db_open' = db_open
    BY <2>1, <2>2, DbSame
  <2>5. recovered' = recovered /\ FilesInv'
    BY <1>2, <2>3, <2>4, FilesUntouched
  <2>6. Clean(recovered, Cells, DbSize, << >>) /\ ~Valid(<< >>)
    <3>1. << >> \in Seq(Nat) /\ Dead(<< >>)
      BY DEF Dead
    <3> QED  BY <1>0, <1>1, <3>1, DeadClean
  <2>7. CleanNow' /\ ~ValidNow'
    BY <2>3, <2>4, <2>5, <2>6 DEF CleanNow, ValidNow
  <2>8. Ready'
    BY <2>4, <2>7 DEF Ready
  <2>9. EndsTx
    BY <1>4 DEF Ends
  <2>10. eState \in Writing /\ before = recovered /\ reply = "none"
    BY <2>9 DEF EndsTx, TxInv
  <2> QED  BY <1>2, <2>1, <2>3, <2>4, <2>5, <2>7, <2>8, <2>10, EndsBooks, FailStops DEF HandlesInv
<1>5. CASE /\ calls' = <<z>> /\ PagerUnchanged /\ UNCHANGED D_vars
           /\ recovered' = base /\ TypeInv' /\ HandlesInv' /\ FilesInv'
           /\ CleanNow' /\ ~ValidNow'
           /\ j_data' = j_data /\ j_open' = j_open
  <2>1. Cells' = Cells /\ DbSize' = DbSize /\ db_size' = db_size /\ db_open' = db_open
    BY <1>5, DbSame
  <2>2. Ends(z)'
    BY <1>0, <1>5, <2>1, EndsKept
  <2>3. Settled'
    BY <1>5, <2>1 DEF Settled
  <2>4. KeepsSound(recovered)'
    BY <1>0, <1>5 DEF KeepsSound
  <2>5. UndoInv'
    <3>1. (calls = <<z>> /\ db_open)'
      BY <1>5, <2>1
    <3> QED  BY <2>2, <2>3, <2>4, <3>1 DEF UndoInv
  <2>6. Refined
    BY <1>0, <1>2, <1>5, EndsRefined
  <2> QED  BY <1>5, <2>5, <2>6 DEF Inv, Phase
<1> QED  BY <1>2, <1>3, <1>4, <1>5

\* What the connection reads of a settled database.
LEMMA LiveIsRecovered ==
    ASSUME Settled, recovered \in Seq(Nat), Len(recovered) <= MaxPages
    PROVE  Live = recovered
<1>1. DbSize = Len(recovered) /\ db_size = DbSize /\ Same(recovered, Cells, {})
  BY DEF Settled, CleanNow, Clean
<1>2. PICK n \in Nat : n = Len(recovered)
  OBVIOUS
<1>3. Live = [i \in 1..n |-> D!PageCells((i - 1) \div 1, 1, 0)[((i - 1) % 1) + 1]]
  BY <1>1, <1>2 DEF Live, D!Contents
<1>4. ASSUME NEW p \in 1..n PROVE Live[p] = recovered[p]
  <2>1. (p - 1) \div 1 = p - 1 /\ ((p - 1) % 1) + 1 = 1
    OBVIOUS
  <2>2. p \in 1..MaxPages
    BY <1>2, BoundsAssumption
  <2>3. Cells[p] = D!PageCells(p - 1, 1, 0)[1]
    BY <2>2 DEF Cells
  <2>4. Cells[p] = recovered[p]
    BY <1>1, <1>2 DEF Same
  <2> QED  BY <1>3, <2>1, <2>3, <2>4
<1>5. PICK live : live = Live
  OBVIOUS
<1>6. live = [i \in 1..n |-> live[i]]
  BY <1>3, <1>5
<1>7. recovered = [i \in 1..n |-> recovered[i]]
  BY <1>2
<1>8. \A i \in 1..n : live[i] = recovered[i]
  BY <1>4, <1>5
<1> QED  BY <1>5, <1>6, <1>7, <1>8

\* A read transaction begins.
LEMMA ReaderStarts ==
    ASSUME Modes, Inv, EndsRead, Settled, KeepsSound(recovered), calls = <<Reader>>, Next
    PROVE  Inv' /\ Refined
<1>1. calls = Cons(Reader, << >>) /\ IsList(<< >>) /\ calls # << >> /\ Head(calls) = Reader
      /\ Tail(calls) = << >>
  BY SingleList, ListFacts
<1>2. (Call \/ Kill) /\ UNCHANGED pragma /\ Recovers
  BY <1>1, OnlyCall
<1>3. Reader.op = "reader"
  BY OpFacts
<1>4. ~Now("write_db") /\ ~Now("delete_journal") /\ ~Now("sync_journal")
  BY <1>1, <1>3 DEF Now
<1>5. CASE Kill
  BY <1>2, <1>4, <1>5, DiesUntouched
<1>6. CASE Call
  <2>1. BecomeReader
    BY <1>1, <1>3, <1>6, CallIs
  <2>2. TypeInv /\ recovered \in Seq(Nat) /\ Len(recovered) <= MaxPages
    BY DEF Inv, TypeInv
  <2>3. /\ calls' = << >> /\ eState' = "READER"
        /\ UNCHANGED D_vars /\ UNCHANGED J_vars
        /\ UNCHANGED <<dirty, need_sync, pInJournal, nRec, journalOff, journalHdr, dbOrigSize, txs, before, reply>>
    BY <1>1, <2>1 DEF BecomeReader, Continue, jrnl
  <2>4. image' = recovered
    <3>1. Live = recovered
      BY <2>2, LiveIsRecovered
    <3>2. image \in {<< >>, recovered}
      BY DEF EndsRead
    <3>3. image' = Live \/ (image # << >> /\ image' = image)
      BY <2>1 DEF BecomeReader
    <3> QED  BY <3>1, <3>2, <3>3
  <2>5. /\ recovered' = recovered /\ HandlesInv' /\ FilesInv'
        /\ Cells' = Cells /\ DbSize' = DbSize /\ StoredJournal' = StoredJournal
        /\ db_open' = db_open /\ db_size' = db_size /\ j_open' = j_open /\ j_data' = j_data
    BY <1>2, <2>3, FilesSame
  <2>6. TypeInv'
    <3>1. (/\ recovered \in Seq(Nat) /\ Len(recovered) <= MaxPages
           /\ image \in Seq(Nat) /\ Len(image) <= MaxPages)'
      BY <2>2, <2>4, <2>5
    <3>2. (/\ before \in Seq(Nat) /\ Len(before) <= MaxPages /\ txs \in Nat /\ pragma \in Pragmas
           /\ journalHdr \in Nat /\ journalOff \in Nat /\ nRec \in Nat
           /\ journalHdr <= journalOff /\ journalOff <= MaxJournal
           /\ reply \in {"none", "OK", "ERROR"})'
      BY <1>2, <2>2, <2>3 DEF TypeInv
    <3> QED  BY <3>1, <3>2 DEF TypeInv
  <2>7. Settled'
    BY <2>5, SettledKept
  <2>8. ReaderInv'
    <3>1. Forgotten'
      BY <2>3 DEF EndsRead, Forgotten
    <3>2. KeepsSound(recovered)'
      BY <2>5 DEF KeepsSound
    <3>3. (reply = "ERROR" => before = recovered)'
      BY <2>3, <2>5 DEF EndsRead
    <3> QED  BY <2>3, <2>4, <2>5, <2>7, <3>1, <3>2, <3>3 DEF ReaderInv
  <2>9. Refined
    <3>1. eState' \notin Writing
      BY <2>3 DEF Writing
    <3> QED  BY <2>5, <3>1, StaysOut
  <2>10. Idle'
    BY <2>3 DEF Idle
  <2> QED  BY <2>5, <2>6, <2>8, <2>9, <2>10 DEF Inv, Phase, IdleInv
<1> QED  BY <1>2, <1>5, <1>6

\* The playback is done.
LEMMA UndoLast ==
    ASSUME Modes, Inv, NEW z, z \in {Reader, Unlock("none"), Unlock("ERROR")}, Ends(z),
           calls = <<z>>, Settled, z = Reader => KeepsSound(recovered), Next
    PROVE  Inv' /\ Refined
<1>1. \A a : Reader # Unlock(a)
  BY OpFacts
<1>2. CASE z = Reader
  <2>1. EndsRead
    BY <1>1, <1>2 DEF Ends
  <2> QED  BY <1>2, <2>1, ReaderStarts
<1>3. ASSUME NEW a \in {"none", "ERROR"}, z = Unlock(a) PROVE Inv' /\ Refined
  <2>1. EndsTx
    BY <1>1, <1>3 DEF Ends
  <2>2. image = recovered /\ before = recovered
    BY <2>1 DEF EndsTx, TxInv
  <2>3. Ready /\ CleanNow /\ ~ValidNow /\ db_open
    BY SettledReady
  <2>4. /\ Recovers /\ UNCHANGED pragma
        /\ UnlockPager \/ (Inv' /\ Refined)
    BY <1>3, UnlockNext
  <2> QED  BY <1>3, <2>2, <2>3, <2>4, Unlocks
<1> QED  BY <1>2, <1>3

\* A playback, call by call.
LEMMA UndoStep ==
    ASSUME Modes, Inv, UndoInv, Next
    PROVE  Inv' /\ Refined
<1>1. PICK z \in {Reader, Unlock("none"), Unlock("ERROR")} :
      /\ Ends(z) /\ db_open
      /\ \/ /\ j_open /\ Sound(j_data, recovered) /\ HotNow
            /\ \/ /\ calls = Cons(TruncateD(Len(recovered)), Cons(SyncD, Finalize(z)))
                  /\ Same(recovered, Cells, {}) /\ Len(recovered) <= db_size
               \/ /\ Len(calls) > 1 /\ calls[2].op = "write_db"
                  /\ \E todo \in {calls[2].todo} :
                     /\ calls = Cons(TruncateD(Len(recovered)), Undoes(todo, z))
                     /\ Originals(todo)
                  /\ Len(recovered) <= db_size
               \/ /\ Now("write_db") /\ \E todo \in {Head(calls).todo} :
                     /\ calls = Undoes(todo, z)
                     /\ Originals(todo)
                  /\ Len(recovered) = db_size
         \/ /\ j_open /\ Sound(j_data, recovered)
            /\ db_size = Len(recovered) /\ Same(recovered, Cells, {})
            /\ z = Reader => JournalExists
            /\ \/ calls = Cons(SyncD, Finalize(z))
               \/ calls = Finalize(z) /\ db_size = DbSize
               \/ calls = Cons(SyncD, <<Reader>>) /\ z = Reader /\ ~ValidNow
         \/ /\ calls = Ending(z)
            /\ db_size = Len(recovered) /\ Same(recovered, Cells, {}) /\ db_size = DbSize
            /\ z = Reader => JournalExists
            /\ KeepsSound(recovered)
            /\ IF pragma.journal_mode = "DELETE" THEN ~j_open
               ELSE j_open /\ j_data # << >> /\ j_data[1] = 0
         \/ calls = <<z>> /\ Settled /\ (z = Reader => KeepsSound(recovered))
  BY Zenon DEF UndoInv
<1>2. CASE /\ j_open /\ Sound(j_data, recovered) /\ HotNow
           /\ calls = Cons(TruncateD(Len(recovered)), Cons(SyncD, Finalize(z)))
           /\ Same(recovered, Cells, {}) /\ Len(recovered) <= db_size
  <2>1. PICK s : s = Cons(SyncD, Finalize(z))
    OBVIOUS
  <2>2. IsList(s) /\ calls = Cons(TruncateD(Len(recovered)), s)
    BY <1>2, <2>1, FinalizeList, Zenon
  <2> QED  BY <1>1, <1>2, <2>1, <2>2, UndoTruncate, Zenon
<1>3. ASSUME NEW todo, calls = Cons(TruncateD(Len(recovered)), Undoes(todo, z)), Originals(todo),
             j_open /\ Sound(j_data, recovered) /\ HotNow /\ Len(recovered) <= db_size
      PROVE  Inv' /\ Refined
  <2>1. PICK s : s = Undoes(todo, z)
    OBVIOUS
  <2>2. IsList(s) /\ calls = Cons(TruncateD(Len(recovered)), s)
    BY <1>3, <2>1, UndoesFacts, Zenon
  <2> QED  BY <1>1, <1>3, <2>1, <2>2, UndoTruncate, Zenon
<1>4. ASSUME NEW todo, calls = Undoes(todo, z), Originals(todo),
             j_open /\ Sound(j_data, recovered) /\ HotNow /\ Len(recovered) = db_size
      PROVE  Inv' /\ Refined
  BY <1>1, <1>4, UndoWrite, Zenon
<1>5. CASE /\ j_open /\ Sound(j_data, recovered)
           /\ db_size = Len(recovered) /\ Same(recovered, Cells, {})
           /\ z = Reader => JournalExists
           /\ calls = Cons(SyncD, Finalize(z))
  <2>1. PICK s : s = Finalize(z)
    OBVIOUS
  <2>2. IsList(s) /\ calls = Cons(SyncD, s)
    BY <1>5, <2>1, FinalizeList, Zenon
  <2> QED  BY <1>1, <1>5, <2>1, <2>2, UndoSync
<1>6. CASE /\ j_open /\ Sound(j_data, recovered)
           /\ db_size = Len(recovered) /\ Same(recovered, Cells, {})
           /\ z = Reader => JournalExists
           /\ calls = Finalize(z) /\ db_size = DbSize
  BY <1>1, <1>6, UndoFinalize
<1>7. CASE /\ j_open /\ Sound(j_data, recovered)
           /\ db_size = Len(recovered) /\ Same(recovered, Cells, {})
           /\ z = Reader => JournalExists
           /\ calls = Cons(SyncD, <<Reader>>) /\ z = Reader /\ ~ValidNow
  <2>1. PICK s : s = <<Reader>>
    OBVIOUS
  <2>2. IsList(s) /\ calls = Cons(SyncD, s)
    BY <1>7, <2>1, ListFacts, Zenon
  <2> QED  BY <1>1, <1>7, <2>1, <2>2, UndoSync
<1>8. CASE /\ calls = Ending(z)
           /\ db_size = Len(recovered) /\ Same(recovered, Cells, {}) /\ db_size = DbSize
           /\ z = Reader => JournalExists
           /\ KeepsSound(recovered)
           /\ IF pragma.journal_mode = "DELETE" THEN ~j_open
              ELSE j_open /\ j_data # << >> /\ j_data[1] = 0
  BY <1>1, <1>8, UndoEnds
<1>9. CASE calls = <<z>> /\ Settled /\ (z = Reader => KeepsSound(recovered))
  BY <1>1, <1>9, UndoLast
<1> QED  BY <1>1, <1>2, <1>3, <1>4, <1>5, <1>6, <1>7, <1>8, <1>9, Zenon

-----------------------------------------------------------------------------
(* sqlite3PagerRollback.                                                   *)

\* The records before the header at h, that a rollback writes to the file.
SyncedAt(d, h) == {at \in Played(d, h) : at + Sector <= h}

\* They are the pages that were overwritten, and a hot journal has them, too.
LEMMA SyncedPages ==
    ASSUME NEW base \in Seq(Nat), Len(base) <= MaxPages, NEW cells, NEW size,
           NEW s \in Seq(Nat), NEW d \in Seq(Nat), NEW h \in Nat, h > 0,
           NEW seed \in Nat \ {0},
           Safe(base, cells, size, s, d, h), Begun(d, base, seed), Chained(d, h)
    PROVE  /\ Same(base, cells, PagesAt(d, SyncedAt(d, h)))
           /\ PagesAt(d, SyncedAt(d, h)) \subseteq PlayedPages(s, NoHeader) \cap 1..Len(base)
<1>1. Sound(d, base) /\ d[2] = Len(base) /\ d[3] # 0
  BY DEF Begun
<1>2. Same(base, cells, Recorded(d, h))
  <2>1. h # 0
    OBVIOUS
  <2> QED  BY <2>1, Zenon DEF Safe
<1>3. OnSector(h)
  BY DEF Chained, OnSector, Sector
<1>4. \A at \in Played(d, h) : at \in Places(d) /\ d[at + 1] \in 1 .. Len(base)
  BY <1>1, PlayedSound
<1>5. ASSUME NEW p \in 1..Len(base), p \in Recorded(d, h)
      PROVE  p \in PagesAt(d, SyncedAt(d, h))
  <2>1. PICK at \in Places(d) : at < h /\ d[at + 1] \in 1 .. MaxPages /\ p = d[at + 1]
    BY <1>5 DEF Recorded, PagesAt
  <2>2. h \notin 0 .. h - 1
    OBVIOUS
  <2>3. d[at + 1] <= d[2]
    BY <1>1, <2>1
  <2>4. at \in Played(d, h)
    BY <1>1, <2>1, <2>2, <2>3, ChainPlayed
  <2>5. at + 3 <= h
    <3>1. at \in Nat /\ OnSector(at)
      BY <2>1, SectorPlace
    <3>2. at + 3 <= h \/ at >= h + 3
      BY <1>3, <2>1, <3>1, Apart
    <3> QED  BY <2>1, <3>1, <3>2
  <2>6. at \in SyncedAt(d, h)
    BY <2>4, <2>5 DEF SyncedAt, Sector
  <2> QED  BY <2>1, <2>6 DEF PagesAt
<1>6. ASSUME NEW p, p \in PagesAt(d, SyncedAt(d, h))
      PROVE  p \in PlayedPages(s, NoHeader) \cap 1..Len(base)
  <2>1. PICK at \in Played(d, h) : at + 3 <= h /\ p = d[at + 1]
    BY <1>6 DEF PagesAt, SyncedAt, Sector
  <2>2. at \in Places(d) /\ p \in 1..Len(base)
    BY <1>4, <2>1
  <2>3. at \in Nat
    BY <2>2, PlaceFacts
  <2>4. at < h /\ p \in 1..MaxPages
    BY <2>1, <2>2, <2>3, BoundsAssumption
  <2>5. p \in Recorded(d, h)
    BY <2>1, <2>2, <2>4 DEF Recorded, PagesAt
  <2> QED  BY <2>2, <2>5, SafePlayed
<1>7. Same(base, cells, PagesAt(d, SyncedAt(d, h)))
  BY <1>2, <1>5 DEF Same
<1> QED  BY <1>6, <1>7

\* The header is there, synced or not.
LEMMA HasFirstHeader ==
    ASSUME NEW d \in Seq(Nat), NEW base, NEW seed \in Nat \ {0}, Begun(d, base, seed),
           NEW h \in Nat, Chained(d, h)
    PROVE  HasHeader(d, 0, h)
<1>1. 0 + 3 <= Len(d) /\ d[3] # 0
  BY DEF Begun, Sector
<1>2. 0 # h => IsMagic(d[0 + 1])
  <2>1. 0 + 1 = 1
    OBVIOUS
  <2> QED  BY <2>1 DEF Chained
<1> QED  BY <1>1, <1>2 DEF HasHeader, Sector

\* What a rollback is going to call.
LEMMA RollbackCalls ==
    ASSUME Modes, pragma \in Pragmas, NEW h, NEW t, NEW z, NEW n, NEW synced,
           HasHeader(j_data, 0, h), t, synced = SyncedPlaces(j_data, h), n = j_data[2],
           calls' = Playback(j_data, h, t) \o <<z>>
    PROVE  \/ synced = {} /\ calls' = Cons(TruncateD(n), Cons(SyncD, Finalize(z)))
           \/ synced # {} /\ calls' = Cons(TruncateD(n), Undoes(Rewrites(j_data, synced), z))
<1>1. CASE synced = {}
  <2>1. SyncedPlaces(j_data, h) = {}
    BY <1>1, Zenon
  <2>2. Playback(j_data, h, t) \o <<z>>
           = Cons(TruncateD(j_data[2]), Cons(SyncD, Finalize(z)))
    BY <2>1, PlaybackTouched, Zenon
  <2> QED  BY <1>1, <2>2, Zenon
<1>2. CASE synced # {}
  <2>1. SyncedPlaces(j_data, h) # {}
    BY <1>2, Zenon
  <2>2. Playback(j_data, h, t) \o <<z>>
           = Cons(TruncateD(j_data[2]), Undoes(Rewrites(j_data, synced), z))
    BY <2>1, PlaybackTouched, Zenon
  <2> QED  BY <1>2, <2>2, Zenon
<1> QED  BY <1>1, <1>2, Zenon

\* The cache is the database as it was when the transaction began, and its
\* pages go back to the file.
LEMMA RollbackStarts ==
    ASSUME Modes, Inv, TxInv, ModeInv, j_open, NEW a, a \in {"none", "ERROR"}, StartRollback(a),
           UNCHANGED pragma, UNCHANGED eState, UNCHANGED jrnl, UNCHANGED txs, UNCHANGED before,
           UNCHANGED reply, ~Now("unlock"),
           recovered' = recovered, HandlesInv', FilesInv', DbSize' = DbSize, db_size' = db_size,
           db_open', j_open', j_data' = j_data, StoredJournal' = StoredJournal,
           NEW cells, cells = Cells',
           Begun(j_data, before, txs), Chained(j_data, journalHdr),
           Safe(before, cells, DbSize, StoredJournal, j_data, journalHdr),
           journalHdr = 0 => db_size = DbSize, dbOrigSize <= db_size, dbOrigSize <= Len(image),
           \A p \in 1..Len(before) : p \in PlayedPages(j_data, journalHdr) \/ image[p] = before[p],
           pInJournal \subseteq 1..dbOrigSize
    PROVE  Inv' /\ Refined
<1>1. /\ TypeInv /\ recovered \in Seq(Nat) /\ before = recovered /\ Len(recovered) <= MaxPages
      /\ j_data \in Seq(Nat) /\ StoredJournal \in Seq(Nat) /\ journalHdr \in Nat /\ txs \in Nat \ {0}
      /\ dbOrigSize = Len(recovered) /\ pragma \in Pragmas /\ image \in Seq(Nat) /\ eState \in Writing
      /\ db_size \in Nat
  BY DEF Inv, TypeInv, TxInv, HandlesInv, JournalHandle, DbHandle
<1>2. PICK z, h, places :
        z = Unlock(a) /\ h = journalHdr /\ places = Played(j_data, journalHdr)
  OBVIOUS
<1>0. PICK t : t = (eState = "WRITER_DBMOD")
  OBVIOUS
<1>12. t <=> eState = "WRITER_DBMOD"
  BY <1>0, Zenon
<1>3. /\ calls' = Playback(j_data, h, t) \o <<z>>
      /\ image' = Restored(image, Len(recovered), j_data, places)
  BY <1>0, <1>1, <1>2, Zenon DEF StartRollback
<1>13. /\ Begun(j_data, recovered, txs) /\ Chained(j_data, h)
       /\ Safe(recovered, cells, DbSize, StoredJournal, j_data, h)
  BY <1>1, <1>2, Zenon
<1>4. h \in Nat /\ HasHeader(j_data, 0, h) /\ Sound(j_data, recovered) /\ j_data[2] = Len(recovered)
      /\ j_data[3] # 0
  BY <1>1, <1>2, HasFirstHeader DEF Begun
<1>5. image' = recovered
  <2>1. \A at \in places : j_data[at + 2] = recovered[j_data[at + 1]]
    <3>1. \A at \in Played(j_data, journalHdr) : j_data[at + 2] = recovered[j_data[at + 1]]
      <4>1. /\ j_data \in Seq(Nat) /\ recovered \in Seq(Nat) /\ Sound(j_data, recovered)
            /\ j_data[2] = Len(recovered)
        BY <1>1, <1>4
      <4> QED  BY <4>1, PlayedSound, Zenon
    <3> QED  BY <1>2, <3>1
  <2>2. \A p \in 1..Len(recovered) : p \in PagesAt(j_data, places) \/ (p <= Len(image) /\ image[p] = recovered[p])
    <3>1. ASSUME NEW p \in 1..Len(recovered)
          PROVE  p \in PagesAt(j_data, places) \/ (p <= Len(image) /\ image[p] = recovered[p])
      <4>1. p <= Len(image)
        BY <1>1
      <4>2. p \in PlayedPages(j_data, journalHdr) \/ image[p] = before[p]
        BY <1>1
      <4> QED  BY <1>1, <1>2, <4>1, <4>2 DEF PlayedPages
    <3> QED  BY <3>1
  <2>3. Restored(image, Len(recovered), j_data, places) = recovered
    <3>1. \A at \in places : j_data[at + 1] \in 1 .. Len(recovered) => j_data[at + 2] = recovered[j_data[at + 1]]
      BY <2>1
    <3>2. recovered \in Seq(Nat)
      BY <1>1
    <3> QED  BY <2>2, <3>1, <3>2, RestoresBase
  <2> QED  BY <1>3, <2>3
<1>6. TypeInv'
  <2>1. (/\ recovered \in Seq(Nat) /\ Len(recovered) <= MaxPages
         /\ image \in Seq(Nat) /\ Len(image) <= MaxPages)'
    BY <1>1, <1>5
  <2>2. (/\ before \in Seq(Nat) /\ Len(before) <= MaxPages /\ txs \in Nat /\ pragma \in Pragmas
         /\ journalHdr \in Nat /\ journalOff \in Nat /\ nRec \in Nat
         /\ journalHdr <= journalOff /\ journalOff <= MaxJournal
         /\ reply \in {"none", "OK", "ERROR"})'
    BY <1>1 DEF TypeInv, jrnl
  <2> QED  BY <2>1, <2>2 DEF TypeInv
<1>7. Ends(z)'
  <2>1. TxInv'
    BY DEF TxInv, jrnl
  <2>2. EndsTx'
    <3>1. Books'
      <4>1. dirty' = {} /\ need_sync' = {} /\ pInJournal' = pInJournal /\ dbOrigSize' = dbOrigSize
        BY DEF StartRollback, jrnl
      <4> QED  BY <4>1 DEF Books
    <3> QED  BY <1>1, <1>5, <2>1, <3>1 DEF EndsTx
  <2> QED  BY <1>2, <2>2 DEF Ends
<1>8. Refined
  <2>1. (image \in Seq(Nat))'
    BY <1>1, <1>5
  <2> QED  BY <1>1, <2>1, StaysTx
<1>9. (db_open /\ j_open /\ Sound(j_data, recovered) /\ Len(recovered) <= db_size)'
  BY <1>1, <1>4
<1>10. z \in {Unlock("none"), Unlock("ERROR")} /\ z # Reader
  BY <1>2, OpFacts
<1>11. UndoInv'
  <2>1. CASE h = 0
    <3>1. ~t
      BY <1>2, <1>12, <2>1 DEF ModeInv
    <3>2. calls' = Finalize(z)
      <4>1. pragma \in Pragmas /\ HasHeader(j_data, 0, h)
        BY <1>1, <1>4
      <4>2. Playback(j_data, h, t) \o <<z>> = Finalize(z)
        BY <3>1, <4>1, PlaybackUntouched, Zenon
      <4> QED  BY <1>3, <4>2, Zenon
    <3>3. (calls = Finalize(z))'
      BY <3>2, FinalizeSame, Zenon
    <3>4. DbSize = Len(recovered) /\ Same(recovered, cells, {}) /\ db_size = DbSize
      BY <1>1, <1>2, <2>1 DEF Safe
    <3>5. (db_size = Len(recovered) /\ Same(recovered, Cells, {}) /\ db_size = DbSize)'
      BY <3>4
    <3> QED  BY <1>7, <1>9, <1>10, <3>3, <3>5 DEF UndoInv
  <2>2. CASE h # 0
    <3>1. t
      BY <1>2, <1>12, <2>2 DEF ModeInv
    <3>2. PICK synced : synced = SyncedAt(j_data, h)
      OBVIOUS
    <3>3. SyncedPlaces(j_data, h) = synced
      <4>1. ~noSync
        BY <1>1, ModeFacts
      <4>2. h # NoHeader
        BY <1>4 DEF NoHeader
      <4> QED  BY <1>2, <3>2, <4>1, <4>2 DEF SyncedPlaces, SyncedAt
    <3>4. /\ Same(recovered, cells, PagesAt(j_data, synced))
          /\ PagesAt(j_data, synced) \subseteq PlayedPages(StoredJournal, NoHeader) \cap 1..Len(recovered)
      <4>1. h > 0
        BY <1>4, <2>2
      <4> QED  BY <1>1, <1>4, <1>13, <3>2, <4>1, SyncedPages
    <3>5. HotNow'
      <4>1. Hot(recovered, cells, DbSize, StoredJournal)
        <5>1. h > 0
          BY <1>4, <2>2
        <5> QED  BY <1>1, <1>4, <1>13, <5>1, SafeHot
      <4> QED  BY <4>1 DEF HotNow
    <3>8. \/ synced = {} /\ calls' = Cons(TruncateD(Len(recovered)), Cons(SyncD, Finalize(z)))
          \/ synced # {} /\ calls' = Cons(TruncateD(Len(recovered)), Undoes(Rewrites(j_data, synced), z))
      <4>1. pragma \in Pragmas /\ HasHeader(j_data, 0, h) /\ Len(recovered) = j_data[2]
        BY <1>1, <1>4
      <4>2. calls' = Playback(j_data, h, t) \o <<z>>
        BY <1>3, Zenon
      <4> QED  BY <3>1, <3>3, <4>1, <4>2, RollbackCalls, Zenon
    <3>6. CASE synced = {}
      <4>1. calls' = Cons(TruncateD(Len(recovered)), Cons(SyncD, Finalize(z)))
        BY <3>6, <3>8, Zenon
      <4>2. (calls = Cons(TruncateD(Len(recovered)), Cons(SyncD, Finalize(z))))'
        BY <4>1, FinalizeSame, Zenon
      <4>3. PagesAt(j_data, synced) = {}
        BY <3>6 DEF PagesAt
      <4>4. Same(recovered, Cells, {})'
        BY <3>4, <4>3
      <4> QED  BY <1>7, <1>9, <1>10, <3>5, <4>2, <4>4 DEF UndoInv
    <3>7. CASE synced # {}
      <4>1. PICK todo : todo = Rewrites(j_data, synced)
        OBVIOUS
      <4>2. calls' = Cons(TruncateD(Len(recovered)), Undoes(todo, z))
        BY <3>7, <3>8, <4>1, Zenon
      <4>3. (calls = Cons(TruncateD(Len(recovered)), Undoes(todo, z)))'
        BY <4>2, FinalizeSame, Zenon
      <4>4. synced \subseteq Played(j_data, h)
        BY <3>2 DEF SyncedAt
      <4>5. /\ DOMAIN Rewrites(j_data, synced) = synced /\ synced \subseteq Nat
            /\ \A at \in synced : /\ j_data[at + 1] \in 1 .. Len(recovered)
                                  /\ Rewrites(j_data, synced)[at] = Original(recovered, j_data[at + 1])
            /\ {Rewrites(j_data, synced)[at].pgno : at \in synced} = PagesAt(j_data, synced)
        <5>1. /\ j_data \in Seq(Nat) /\ recovered \in Seq(Nat) /\ Sound(j_data, recovered)
              /\ j_data[2] = Len(recovered)
          BY <1>1, <1>4
        <5> QED  BY <3>7, <4>4, <5>1, PlaysOriginals, Zenon
      <4>6. /\ DOMAIN todo = synced /\ synced \subseteq Nat
            /\ \A at \in synced : /\ j_data[at + 1] \in 1 .. Len(recovered)
                                  /\ todo[at] = Original(recovered, j_data[at + 1])
            /\ {todo[at].pgno : at \in synced} = PagesAt(j_data, synced)
        BY <4>1, <4>5, Zenon
      <4>7. LeftOver(cells, todo)
        <5>1. ASSUME NEW at \in DOMAIN todo
              PROVE  \E p \in PlayedPages(StoredJournal, NoHeader) \cap 1..Len(recovered) :
                       todo[at] = Original(recovered, p)
          <6>1. j_data[at + 1] \in PagesAt(j_data, synced)
            BY <4>6, <5>1 DEF PagesAt
          <6> QED  BY <3>4, <4>6, <5>1, <6>1
        <5>2. {todo[k].pgno : k \in DOMAIN todo} = PagesAt(j_data, synced)
          BY <4>6
        <5>3. DOMAIN todo \subseteq Nat /\ DOMAIN todo # {}
          BY <3>7, <4>6
        <5> QED  BY <3>4, <5>1, <5>2, <5>3, Zenon DEF LeftOver
      <4>8. Originals(todo)'
        BY <4>7, LeftIsOriginals
      <4>9. /\ Len(calls') > 1 /\ calls'[2].op = "write_db" /\ calls'[2].todo = todo
        <5>1. IsList(Undoes(todo, z))
          BY UndoesFacts
        <5> QED  BY <4>2, <5>1, UndoesFacts, SecondOf
      <4> QED  BY <1>7, <1>9, <1>10, <3>5, <4>3, <4>8, <4>9 DEF UndoInv
    <3> QED  BY <3>6, <3>7
  <2> QED  BY <2>1, <2>2
<1> QED  BY <1>6, <1>8, <1>11 DEF Inv, Phase

\* ROLLBACK begins.
LEMMA RollbackStep ==
    ASSUME Modes, Inv, Recovers, UNCHANGED pragma, Idle, WriterInv, Rollback
    PROVE  Inv' /\ Refined
<1>1. /\ StartRollback("none") /\ UNCHANGED D_vars /\ UNCHANGED J_vars
      /\ UNCHANGED eState /\ UNCHANGED jrnl /\ UNCHANGED txs /\ UNCHANGED before /\ UNCHANGED reply
  BY DEF Rollback
<1>2. /\ recovered' = recovered /\ HandlesInv' /\ FilesInv'
      /\ Cells' = Cells /\ DbSize' = DbSize /\ StoredJournal' = StoredJournal
      /\ db_open' = db_open /\ db_size' = db_size /\ j_open' = j_open /\ j_data' = j_data
  BY <1>1, FilesSame
<1>3. TxInv /\ ModeInv /\ j_open /\ CacheInv({}) /\ UnsealedAt(journalHdr, nRec, pInJournal)
  BY DEF WriterInv
<1>4. /\ journalHdr \in Nat /\ nRec \in Nat /\ before \in Seq(Nat) /\ Len(before) <= MaxPages
      /\ txs \in Nat \ {0} /\ dbOrigSize = Len(before) /\ image \in Seq(Nat) /\ db_open
      /\ db_size \in Nat /\ Len(before) \in Nat
  BY <1>3 DEF Inv, TypeInv, TxInv, HandlesInv, DbHandle
<1>5. Unsealed(j_data, before, txs, journalHdr, nRec, pInJournal)
  BY <1>3 DEF UnsealedAt
<1>6. Begun(j_data, before, txs) /\ Chained(j_data, journalHdr)
  BY <1>5 DEF Unsealed
<1>7. /\ Safe(before, Cells, DbSize, StoredJournal, j_data, journalHdr)
      /\ journalHdr = 0 => db_size = DbSize
  BY <1>3 DEF UnsealedAt, SafeNow
<1>8. pInJournal \subseteq PlayedPages(j_data, journalHdr)
  BY <1>4, <1>5, UnsealedPlayed
<1>9. /\ dbOrigSize <= db_size /\ dbOrigSize <= Len(image)
      /\ \A p \in 1..dbOrigSize : p \notin pInJournal => image[p] = before[p]
  BY <1>3, <1>4 DEF CacheInv
<1>15. pInJournal \subseteq 1..dbOrigSize
  BY <1>3 DEF CacheInv
<1>10. \A p \in 1..Len(before) : p \in PlayedPages(j_data, journalHdr) \/ image[p] = before[p]
  BY <1>4, <1>8, <1>9
<1>11. ~Now("unlock")
  BY IdleNow
<1>12. PICK cells : cells = Cells'
  OBVIOUS
<1>13. Safe(before, cells, DbSize, StoredJournal, j_data, journalHdr)
  BY <1>2, <1>7, <1>12
<1>14. db_open' /\ j_open'
  BY <1>2, <1>3, <1>4
<1> QED  BY <1>1, <1>2, <1>3, <1>6, <1>7, <1>9, <1>10, <1>11, <1>12, <1>13, <1>14, <1>15, RollbackStarts

-----------------------------------------------------------------------------
(* pagerStress, after syncJournal.                                         *)

\* The page that is spilled is in the synced part of the journal, or the
\* database did not have it.
LEMMA SpillSafe ==
    ASSUME Modes, Inv, TxModified, NEW p, p \in 1..Len(image), journalHdr > 0,
           UnsealedAt(journalHdr, nRec, pInJournal),
           p \in Recorded(j_data, journalHdr) \/ p > dbOrigSize,
           NEW cells, \A q \in 1..MaxPages : q # p => cells[q] = Cells[q]
    PROVE  /\ Safe(before, cells, DbSize, StoredJournal, j_data, journalHdr)
           /\ Hot(before, cells, DbSize, StoredJournal)
           /\ p \in 1..MaxPages
<1>1. /\ before \in Seq(Nat) /\ Len(before) <= MaxPages /\ Len(before) \in Nat /\ MaxPages \in Nat
      /\ txs \in Nat \ {0} /\ j_data \in Seq(Nat) /\ StoredJournal \in Seq(Nat)
      /\ journalHdr \in Nat /\ dbOrigSize = Len(before) /\ image \in Seq(Nat)
  BY SyncingContext
<1>2. Len(image) <= MaxPages /\ Len(image) \in Nat
  BY <1>1 DEF Inv, TypeInv
<1>3. p \in 1..MaxPages /\ p \in Nat
  BY <1>1, <1>2
<1>4. \A q \in 1..Len(before) : q # p => cells[q] = Cells[q]
  BY <1>1
<1>5. p \in Recorded(j_data, journalHdr) \/ p \notin 1..Len(before)
  BY <1>1, <1>3
<1>6. /\ Safe(before, Cells, DbSize, StoredJournal, j_data, journalHdr)
      /\ Begun(j_data, before, txs) /\ Chained(j_data, journalHdr)
  BY DEF UnsealedAt, SafeNow, Unsealed
<1>7. journalHdr # 0
  BY <1>1
<1>8. Safe(before, cells, DbSize, StoredJournal, j_data, journalHdr)
  BY <1>1, <1>4, <1>5, <1>6, <1>7, SafeOverwritten
<1>9. Hot(before, cells, DbSize, StoredJournal)
  BY <1>1, <1>6, <1>8, SafeHot
<1> QED  BY <1>3, <1>8, <1>9

EntryFacts(p) == Entry(p).pgno = p /\ Entry(p).cell = image[p]

\* The entries of a page list tell their pages apart.
LEMMA EntriesHold == \A p : EntryFacts(p) /\ \A q : Entry(p) = Entry(q) => p = q
BY DEF Entry, EntryFacts

\* A single page is written.
LEMMA SpillPage ==
    ASSUME NEW p, p \in Nat, calls = <<WriteD(Pagelist({p}, image), FALSE)>>
    PROVE  /\ Now("write_db") /\ ~Head(calls).committing
           /\ PageToWrite.pgno = p /\ PageToWrite.cell = image[p]
           /\ ContinueWriting => calls' = << >>
<1>1. PICK todo : todo = Pagelist({p}, image)
  OBVIOUS
<1>2. DOMAIN todo = {p} /\ todo[p] = Entry(p)
  BY <1>1 DEF Pagelist, Entry
<1>3. calls = Cons(WriteD(todo, FALSE), << >>)
  BY <1>1, SingleList, Zenon
<1>4. Head(calls) = WriteD(todo, FALSE) /\ calls # << >>
  BY <1>3, ConsFacts, ListFacts
<1>5. Head(calls).op = "write_db" /\ ~Head(calls).committing
  <2>1. PICK w : w = WriteD(todo, FALSE)
    OBVIOUS
  <2>2. w.op = "write_db" /\ ~w.committing
    BY <2>1 DEF WriteD
  <2> QED  BY <1>4, <2>1, <2>2, Zenon
<1>6. DOMAIN todo \subseteq Nat /\ DOMAIN todo # {}
  BY <1>2
<1>7. PICK k \in DOMAIN todo :
        /\ PageToWrite = todo[k]
        /\ ContinueWriting =>
             \/ DOMAIN todo = {k} /\ calls' = << >>
             \/ \E left : OneWritten(todo, left, k) /\ calls' = Cons(WriteD(left, FALSE), << >>)
  BY <1>3, <1>6, ListFacts, WritingNext
<1>8. k = p
  BY <1>2, <1>7
<1>9. \A left : ~OneWritten(todo, left, k)
  BY <1>2, <1>8 DEF OneWritten
<1>10. ContinueWriting => calls' = << >>
  BY <1>7, <1>9
<1>11. PageToWrite = Entry(p)
  BY <1>2, <1>7, <1>8
<1> QED  BY <1>4, <1>5, <1>10, <1>11, EntriesHold DEF EntryFacts, Now

\* The spilled page is in the file.
LEMMA SpillFiled ==
    ASSUME NEW p, p \in 1..Len(image), CacheInv({Entry(p)}), image \in Seq(Nat),
           Len(image) <= MaxPages, db_size \in Nat, dbOrigSize \in Nat,
           UNCHANGED image, UNCHANGED dirty, UNCHANGED need_sync, UNCHANGED pInJournal,
           UNCHANGED dbOrigSize, UNCHANGED before,
           Cells'[p] = image[p], \A q \in 1..MaxPages : q # p => Cells'[q] = Cells[q],
           db_size' = (IF p > db_size THEN p ELSE db_size)
    PROVE  CacheInv({})'
<1>1. MaxPages \in Nat /\ Len(image) \in Nat /\ p \in Nat
  BY BoundsAssumption
<1>2. ASSUME NEW q \in 1..Len(image), q \notin dirty
      PROVE  Filed({}, q)'
  <2>1. CASE q = p
    <3>1. (p <= db_size /\ Cells[p] = image[p])'
      BY <1>1
    <3> QED  BY <2>1, <3>1 DEF Filed
  <2>2. CASE q # p
    <3>1. Entry(q) \notin {Entry(p)}
      BY <2>2, EntriesHold
    <3>2. q <= db_size /\ Cells[q] = image[q]
      BY <1>2, <3>1 DEF CacheInv, Filed
    <3>3. q \in 1..MaxPages
      BY <1>1, <1>2
    <3>4. (q <= db_size /\ Cells[q] = image[q])'
      BY <1>1, <2>2, <3>2, <3>3
    <3> QED  BY <3>4 DEF Filed
  <2> QED  BY <2>1, <2>2
<1>3. (\A q \in 1..Len(image) : q \notin dirty => Filed({}, q))'
  BY <1>2
<1>4. (/\ dirty \subseteq 1..Len(image) /\ need_sync \subseteq dirty
       /\ pInJournal \subseteq 1..dbOrigSize /\ dirty \cap 1..dbOrigSize \subseteq pInJournal
       /\ \A q \in 1..dbOrigSize : q \notin pInJournal => image[q] = before[q])'
  BY DEF CacheInv
<1>5. Len(image) > 0 /\ dbOrigSize <= db_size /\ db_size <= Len(image)
  BY DEF CacheInv
<1>6. db_size' <= Len(image) /\ db_size <= db_size' /\ db_size' \in Nat
  BY <1>1, <1>5
<1>7. dbOrigSize' <= db_size'
  <2>1. dbOrigSize' = dbOrigSize /\ (p > db_size => dbOrigSize <= p)
    <3>1. CASE p > db_size
      <4>1. db_size < p
        BY <3>1
      <4> QED  BY <1>1, <1>5, <4>1
    <3> QED  BY <3>1
  <2> QED  BY <1>5, <2>1
<1> QED  BY <1>3, <1>4, <1>5, <1>6, <1>7 DEF CacheInv

\* pagerStress writes its page to the database.
LEMMA SpillingStep ==
    ASSUME Modes, Inv, SpillingInv, Next
    PROVE  Inv' /\ Refined
<1>1. /\ TxModified /\ Room /\ Unsynced /\ journalHdr > 0
      /\ UnsealedAt(journalHdr, nRec, pInJournal)
  BY DEF SpillingInv
<1>2. PICK p \in 1..Len(image) :
         /\ calls = <<WriteD(Pagelist({p}, image), FALSE)>> /\ CacheInv({Entry(p)})
         /\ p \in Recorded(j_data, journalHdr) \/ p > dbOrigSize
  BY DEF SpillingInv
<1>3. /\ TxInv /\ TypeInv /\ JournalHandle /\ HandlesInv /\ DbHandle /\ image \in Seq(Nat) /\ eState \in Writing
      /\ before \in Seq(Nat) /\ before = recovered /\ Len(before) <= MaxPages /\ Len(before) \in Nat
      /\ StoredJournal \in Seq(Nat) /\ DbSize \in Nat /\ dbOrigSize = Len(before)
      /\ recovered \in Seq(Nat) /\ j_open /\ Len(image) <= MaxPages /\ db_size \in Nat
  BY <1>1, SyncingContext DEF HandlesInv, DbHandle, TypeInv
<1>4. p \in Nat
  BY <1>2, <1>3
<1>5. /\ Now("write_db") /\ ~Head(calls).committing
      /\ PageToWrite.pgno = p /\ PageToWrite.cell = image[p]
      /\ ContinueWriting => calls' = << >>
  BY <1>2, <1>4, SpillPage
<1>6. ~Now("delete_journal") /\ ~Now("sync_journal") /\ ~Now("unlock")
  BY <1>5 DEF Now
<1>7. (Call \/ Kill) /\ UNCHANGED pragma /\ Recovers
  BY <1>5, OnlyCall DEF Now
<1>8. ASSUME NEW cells, \A q \in 1..MaxPages : q # p => cells[q] = Cells[q]
      PROVE  /\ Safe(before, cells, DbSize, StoredJournal, j_data, journalHdr)
             /\ Hot(before, cells, DbSize, StoredJournal)
  BY <1>1, <1>2, <1>8, SpillSafe
<1>9. p \in 1..MaxPages
  BY <1>1, <1>2, SpillSafe
<1>10. CASE Kill
  <2>1. /\ PagerLost /\ DbSize' = DbSize
        /\ StoredJournal' \in Seq(Nat) /\ j_key' \in Nat \cup {NoFile}
        /\ StoredJournal' = StoredJournal
        /\ \A q \in 1..MaxPages : q # p => Cells'[q] = Cells[q]
    BY <1>3, <1>5, <1>6, <1>9, <1>10, KillFiles DEF Modes
  <2>2. Files(recovered, Cells', DbSize', StoredJournal')
    BY <1>3, <1>8, <2>1 DEF Files
  <2>3. Inv' /\ recovered' = recovered /\ Tx' = NoTx
    BY <1>3, <1>7, <2>1, <2>2, Dies
  <2> QED  BY <2>3, KeepsRecovered
<1>11. CASE Call
  <2>1. \/ /\ D!WriteDb(<<PageToWrite.cell>>, PageToWrite.pgno - 1)
           /\ ContinueWriting /\ PagerUnchanged /\ UNCHANGED J_vars
        \/ WriteDatabaseFails
    <3>1. PICK w : w = WriteD(Pagelist({p}, image), FALSE)
      OBVIOUS
    <3>2. calls = Cons(w, << >>)
      BY <1>2, <3>1, SingleList, Zenon
    <3>3. w.op = "write_db"
      BY <1>5, <3>2, ConsFacts, ListFacts DEF Now
    <3> QED  BY <1>11, <3>2, <3>3, ListFacts, CallIs
  <2>2. CASE WriteDatabaseFails
    <3>1. /\ D!WriteDbFails(<<PageToWrite.cell>>, PageToWrite.pgno - 1)
          /\ Fail /\ UNCHANGED J_vars
      BY <1>5, <2>2 DEF WriteDatabaseFails
    <3>2. /\ \A q \in 1..MaxPages : q # p => Cells'[q] = Cells[q]
          /\ db_open' /\ DbSize' = DbSize /\ db_size' = db_size /\ DbHandle'
      BY <1>3, <1>5, <1>9, <3>1, DbWriteFails
    <3>3. StoredJournal' = StoredJournal /\ JournalHandle'
      BY <1>3, <3>1, JournalSame
    <3>4. Hot(recovered, Cells', DbSize', StoredJournal')
      BY <1>3, <1>8, <3>2, <3>3
    <3>5. recovered' = recovered /\ FilesInv'
      <4>1. DbSize' \in Nat /\ StoredJournal' \in Seq(Nat)
        BY <1>3, <3>2, <3>3
      <4>2. Files(recovered, Cells', DbSize', StoredJournal')
        BY <3>4 DEF Files
      <4> QED  BY <1>3, <1>7, <4>1, <4>2, Recovered
    <3>6. HotNow'
      BY <3>4, <3>5 DEF HotNow
    <3>7. Ready'
      <4>1. Len(recovered) <= db_size
        BY <1>2, <1>3 DEF CacheInv
      <4>2. (Len(recovered) <= db_size)'
        BY <3>2, <3>5, <4>1
      <4>3. DbSize = Len(recovered)
        BY <1>1, <1>3 DEF UnsealedAt, SafeNow, Safe
      <4>4. (db_size = 0 => DbSize = 0)'
        BY <1>3, <3>2, <4>1, <4>3
      <4> QED  BY <3>6, <4>2, <4>4 DEF Ready
    <3>8. reply = "none" /\ pInJournal \subseteq 1..dbOrigSize
      BY <1>2, <1>3 DEF TxInv, CacheInv
    <3> QED  BY <1>3, <1>7, <3>1, <3>2, <3>3, <3>5, <3>7, <3>8, FailStops DEF HandlesInv
  <2>3. CASE /\ D!WriteDb(<<PageToWrite.cell>>, PageToWrite.pgno - 1)
             /\ ContinueWriting /\ PagerUnchanged /\ UNCHANGED J_vars
    <3>1. /\ Cells'[p] = image[p] /\ \A q \in 1..MaxPages : q # p => Cells'[q] = Cells[q]
          /\ db_open' /\ DbSize' = DbSize
          /\ db_size' = (IF p > db_size THEN p ELSE db_size) /\ DbHandle'
      BY <1>3, <1>5, <1>9, <2>3, DbWrite
    <3>2. /\ Safe(before, Cells', DbSize', StoredJournal, j_data, journalHdr)
          /\ Hot(before, Cells', DbSize', StoredJournal)
      BY <1>8, <3>1
    <3>3. Files(recovered, Cells', DbSize', StoredJournal)
      BY <1>3, <3>2 DEF Files
    <3>4. /\ recovered' = recovered /\ TypeInv' /\ HandlesInv' /\ FilesInv'
          /\ StoredJournal' = StoredJournal /\ j_open' = j_open /\ j_data' = j_data
      BY <1>7, <2>3, <3>1, <3>3, DbCall
    <3>5. UNCHANGED <<eState, image, dirty, need_sync, pInJournal, nRec, journalOff, journalHdr,
                      dbOrigSize, txs, before, reply>>
      BY <1>7, <2>3, <3>1, <3>3, DbCall
    <3>6. CacheInv({})'
      BY <1>2, <1>3, <3>1, <3>5, SpillFiled
    <3>7. UnsealedAt(journalHdr, nRec, pInJournal)'
      <4>1. Unsealed(j_data, before, txs, journalHdr, nRec, pInJournal)'
        BY <1>1, <3>4, <3>5 DEF UnsealedAt
      <4>2. Safe(before, Cells, DbSize, StoredJournal, j_data, journalHdr)'
        BY <3>2, <3>4, <3>5
      <4>3. (journalHdr = 0 => db_size = DbSize)'
        BY <1>1, <3>5
      <4> QED  BY <4>1, <4>2, <4>3 DEF UnsealedAt, SafeNow
    <3>8. TxInv' /\ ModeInv' /\ j_open' /\ Room' /\ Unsynced'
      <4>1. TxInv'
        BY <1>3, <3>1, <3>4, <3>5 DEF TxInv
      <4>2. ModeInv'
        BY <1>1, <3>5 DEF ModeInv, TxModified
      <4>3. Room' /\ Unsynced'
        BY <1>1, <3>4, <3>5 DEF Room, Unsynced
      <4> QED  BY <1>3, <3>4, <4>1, <4>2, <4>3
    <3>9. WriterInv'
      BY <3>6, <3>7, <3>8 DEF WriterInv
    <3>10. Idle'
      BY <1>5, <2>3 DEF Idle
    <3>11. Refined
      BY <1>3, <1>6, <3>4, <3>5, StaysTx
    <3> QED  BY <3>4, <3>9, <3>10, <3>11 DEF Inv, Phase, IdleInv
  <2> QED  BY <2>1, <2>2, <2>3
<1> QED  BY <1>7, <1>10, <1>11

-----------------------------------------------------------------------------
(* COMMIT, after syncJournal.                                              *)

\* The pages that COMMIT has still to write.
Commitable(todo) ==
    /\ DOMAIN todo \subseteq Nat /\ DOMAIN todo # {}
    /\ \A k \in DOMAIN todo : \E p \in 1..Len(image) :
         todo[k] = Entry(p) /\ (p \in pInJournal \/ p > dbOrigSize)

CommitSealed ==
    /\ j_open /\ journalHdr > 0
    /\ Sealed(j_data, before, txs, journalHdr, pInJournal) /\ SafeNow(journalHdr)

\* The types of what a transaction works on.
LEMMA CommitContext ==
    ASSUME Modes, Inv, TxInv
    PROVE  /\ TypeInv /\ JournalHandle /\ HandlesInv /\ DbHandle /\ image \in Seq(Nat) /\ eState \in Writing
           /\ before \in Seq(Nat) /\ before = recovered /\ Len(before) <= MaxPages /\ Len(before) \in Nat
           /\ txs \in Nat \ {0} /\ j_data \in Seq(Nat) /\ StoredJournal \in Seq(Nat)
           /\ journalHdr \in Nat /\ dbOrigSize = Len(before) /\ dbOrigSize \in Nat
           /\ MaxPages \in Nat /\ pragma \in Pragmas /\ db_open /\ reply = "none"
           /\ recovered \in Seq(Nat) /\ DbSize \in Nat /\ db_size \in Nat
           /\ Len(image) <= MaxPages /\ Len(image) \in Nat
BY BoundsAssumption DEF Inv, TypeInv, TxInv, HandlesInv, DbHandle, JournalHandle

\* The journal covers each page that is overwritten.
LEMMA CommitSafe ==
    ASSUME Modes, Inv, TxInv, CommitSealed, NEW p, p \in 1..Len(image),
           p \in pInJournal \/ p > dbOrigSize,
           NEW cells, \A q \in 1..MaxPages : q # p => cells[q] = Cells[q]
    PROVE  /\ Safe(before, cells, DbSize, StoredJournal, j_data, journalHdr)
           /\ Hot(before, cells, DbSize, StoredJournal)
           /\ p \in 1..MaxPages
<1>1. /\ before \in Seq(Nat) /\ Len(before) <= MaxPages /\ Len(before) \in Nat /\ MaxPages \in Nat
      /\ txs \in Nat \ {0} /\ j_data \in Seq(Nat) /\ StoredJournal \in Seq(Nat)
      /\ journalHdr \in Nat /\ dbOrigSize = Len(before) /\ image \in Seq(Nat)
      /\ Len(image) <= MaxPages /\ Len(image) \in Nat
  BY CommitContext
<1>3. p \in 1..MaxPages /\ p \in Nat
  BY <1>1
<1>4. \A q \in 1..Len(before) : q # p => cells[q] = Cells[q]
  BY <1>1
<1>6. /\ Safe(before, Cells, DbSize, StoredJournal, j_data, journalHdr)
      /\ Begun(j_data, before, txs) /\ Chained(j_data, journalHdr)
      /\ pInJournal = Recorded(j_data, journalHdr)
  BY DEF CommitSealed, SafeNow, Sealed
<1>5. p \in Recorded(j_data, journalHdr) \/ p \notin 1..Len(before)
  BY <1>1, <1>3, <1>6
<1>7. journalHdr # 0 /\ journalHdr > 0
  BY <1>1 DEF CommitSealed
<1>8. Safe(before, cells, DbSize, StoredJournal, j_data, journalHdr)
  BY <1>1, <1>4, <1>5, <1>6, <1>7, SafeOverwritten
<1>9. Hot(before, cells, DbSize, StoredJournal)
  BY <1>1, <1>6, <1>7, <1>8, SafeHot
<1> QED  BY <1>3, <1>8, <1>9

\* A page that the journal does not have is in the cache as it was.
LEMMA CommitUndone ==
    ASSUME Modes, Inv, TxInv, CommitSealed, NEW todo, Commitable(todo), PagesInv(todo)
    PROVE  \A p \in 1..Len(before) : p \in PlayedPages(j_data, journalHdr) \/ image[p] = before[p]
<1>1. /\ before \in Seq(Nat) /\ Len(before) <= MaxPages /\ Len(before) \in Nat /\ MaxPages \in Nat
      /\ txs \in Nat \ {0} /\ j_data \in Seq(Nat) /\ StoredJournal \in Seq(Nat)
      /\ journalHdr \in Nat /\ dbOrigSize = Len(before) /\ image \in Seq(Nat)
      /\ Len(image) <= MaxPages /\ Len(image) \in Nat /\ db_size \in Nat
  BY CommitContext
<1>2. /\ Safe(before, Cells, DbSize, StoredJournal, j_data, journalHdr)
      /\ Begun(j_data, before, txs) /\ Chained(j_data, journalHdr)
      /\ pInJournal = Recorded(j_data, journalHdr) /\ pInJournal \subseteq 1..Len(before)
      /\ journalHdr > 0
  BY DEF CommitSealed, SafeNow, Sealed
<1>3. ASSUME NEW p \in 1..Len(before), p \in pInJournal
      PROVE  p \in PlayedPages(j_data, journalHdr)
  <2>1. PICK at \in Places(j_data) :
          at < journalHdr /\ j_data[at + 1] \in 1 .. MaxPages /\ p = j_data[at + 1]
    BY <1>2, <1>3 DEF Recorded, PagesAt
  <2>2. journalHdr \notin 0 .. journalHdr - 1
    BY <1>1
  <2>3. j_data[at + 1] <= j_data[2] /\ j_data[3] # 0
    BY <1>1, <1>2, <2>1 DEF Begun
  <2>4. at \in Played(j_data, journalHdr)
    BY <1>1, <1>2, <2>1, <2>2, <2>3, ChainPlayed
  <2> QED  BY <2>1, <2>4 DEF PlayedPages, PagesAt
<1>4. ASSUME NEW p \in 1..Len(before), p \notin pInJournal
      PROVE  image[p] = before[p]
  <2>1. Same(before, Cells, Recorded(j_data, journalHdr))
    <3>1. journalHdr # 0
      BY <1>1, <1>2
    <3> QED  BY <1>2, <3>1, Zenon DEF Safe
  <2>2. Cells[p] = before[p]
    BY <1>2, <1>4, <2>1 DEF Same
  <2>3. p \in 1..Len(image)
    <3>1. dbOrigSize <= db_size /\ db_size <= Len(image)
      BY DEF PagesInv
    <3> QED  BY <1>1, <3>1
  <2>4. Filed(Left(todo), p)
    BY <2>3 DEF PagesInv
  <2>5. Entry(p) \notin Left(todo)
    <3>1. ASSUME NEW k \in DOMAIN todo, Entry(p) = todo[k]
          PROVE  FALSE
      <4>1. PICK q \in 1..Len(image) : todo[k] = Entry(q) /\ (q \in pInJournal \/ q > dbOrigSize)
        BY <3>1 DEF Commitable
      <4>2. p = q
        BY <3>1, <4>1, EntriesHold
      <4> QED  BY <1>1, <1>4, <4>1, <4>2
    <3> QED  BY <3>1 DEF Left
  <2> QED  BY <2>2, <2>4, <2>5 DEF Filed
<1> QED  BY <1>3, <1>4

\* When a page is written, the others stay as they were.
LEMMA CommitFiled ==
    ASSUME NEW todo, Commitable(todo), PagesInv(todo), NEW k, k \in DOMAIN todo,
           NEW p, p \in 1..Len(image), todo[k] = Entry(p), image \in Seq(Nat),
           Len(image) <= MaxPages, db_size \in Nat, dbOrigSize \in Nat,
           UNCHANGED image, UNCHANGED dbOrigSize,
           Cells'[p] = image[p], \A q \in 1..MaxPages : q # p => Cells'[q] = Cells[q],
           db_size' = (IF p > db_size THEN p ELSE db_size),
           NEW left,
           \/ DOMAIN todo = {k}
           \/ DOMAIN left = DOMAIN todo \ {k} /\ \A n \in DOMAIN left : left[n] = todo[n]
    PROVE  PagesInv(left)'
<1>1. MaxPages \in Nat /\ Len(image) \in Nat /\ p \in Nat
  BY BoundsAssumption
<1>2. ASSUME NEW q \in 1..Len(image)
      PROVE  Filed(Left(left), q)'
  <2>1. CASE q = p
    <3>1. (p <= db_size /\ Cells[p] = image[p])'
      BY <1>1
    <3> QED  BY <2>1, <3>1 DEF Filed
  <2>2. CASE q # p
    <3>1. q \in 1..MaxPages
      BY <1>1, <1>2
    <3>2. CASE q <= db_size /\ Cells[q] = image[q]
      <4>1. (q <= db_size /\ Cells[q] = image[q])'
        BY <1>1, <2>2, <3>1, <3>2
      <4> QED  BY <4>1 DEF Filed
    <3>3. CASE Entry(q) \in Left(todo)
      <4>1. PICK n \in DOMAIN todo : Entry(q) = todo[n]
        BY <3>3 DEF Left
      <4>2. n # k
        BY <2>2, <4>1, EntriesHold
      <4>3. n \in DOMAIN left /\ left[n] = Entry(q)
        BY <4>1, <4>2
      <4>4. Entry(q)' = Entry(q)
        BY DEF Entry
      <4>5. (Entry(q) \in Left(left))'
        BY <4>3, <4>4 DEF Left
      <4> QED  BY <4>5 DEF Filed
    <3> QED  BY <3>2, <3>3 DEF PagesInv, Filed
  <2> QED  BY <2>1, <2>2
<1>3. (\A q \in 1..Len(image) : Filed(Left(left), q))'
  BY <1>2
<1>5. Len(image) > 0 /\ dbOrigSize <= db_size /\ db_size <= Len(image)
  BY DEF PagesInv
<1>6. db_size' <= Len(image) /\ db_size <= db_size' /\ db_size' \in Nat
  BY <1>1, <1>5
<1>7. dbOrigSize' <= db_size'
  <2>1. dbOrigSize' = dbOrigSize
    OBVIOUS
  <2> QED  BY <1>5, <1>6, <2>1
<1> QED  BY <1>3, <1>5, <1>6, <1>7 DEF PagesInv

\* pager_write_pagelist writes a page, or its write fails and the transaction is
\* rolled back.
LEMMA CommitWrite ==
    ASSUME Modes, Inv, TxInv, Books, eState = "WRITER_DBMOD", CommitSealed,
           NEW todo, calls = Commits(todo), Commitable(todo), PagesInv(todo), Next
    PROVE  Inv' /\ Refined
<1>0. PICK s : s = Cons(SyncD, Finalize(Unlock("OK")))
  OBVIOUS
<1>1. IsList(s) /\ calls = Cons(WriteD(todo, TRUE), s)
  BY <1>0, FinalizeList, Zenon DEF Commits
<1>2. /\ calls # << >> /\ Head(calls) = WriteD(todo, TRUE)
      /\ (Call \/ Kill) /\ UNCHANGED pragma /\ Recovers
  BY <1>1, ConsFacts, OnlyCall
<1>3. /\ WriteD(todo, TRUE).op = "write_db" /\ Head(calls).committing
  <2>1. Head(calls).committing /\ Head(calls).op = "write_db"
    BY CommitsFacts
  <2>2. WriteD(todo, TRUE).op = "write_db"
    BY <1>2, <2>1, Zenon
  <2> QED  BY <2>1, <2>2
<1>4. Now("write_db") /\ ~Now("delete_journal") /\ ~Now("sync_journal") /\ ~Now("unlock")
  BY <1>2, <1>3 DEF Now
<1>5. /\ TypeInv /\ JournalHandle /\ HandlesInv /\ DbHandle /\ image \in Seq(Nat) /\ eState \in Writing
      /\ before \in Seq(Nat) /\ before = recovered /\ Len(before) <= MaxPages /\ Len(before) \in Nat
      /\ StoredJournal \in Seq(Nat) /\ DbSize \in Nat /\ dbOrigSize = Len(before) /\ dbOrigSize \in Nat
      /\ recovered \in Seq(Nat) /\ Len(image) <= MaxPages /\ db_size \in Nat
  BY CommitContext
<1>6. DOMAIN todo \subseteq Nat /\ DOMAIN todo # {}
  BY DEF Commitable
<1>7. PICK k \in DOMAIN todo :
        /\ PageToWrite = todo[k]
        /\ ContinueWriting =>
             \/ DOMAIN todo = {k} /\ calls' = s
             \/ \E left : OneWritten(todo, left, k) /\ calls' = Cons(WriteD(left, TRUE), s)
  BY <1>1, <1>6, WritingNext
<1>8. PICK p \in 1..Len(image) : todo[k] = Entry(p) /\ (p \in pInJournal \/ p > dbOrigSize)
  BY <1>7 DEF Commitable
<1>9. PageToWrite.pgno = p /\ PageToWrite.cell = image[p]
  BY <1>7, <1>8, EntriesHold DEF EntryFacts
<1>10. ASSUME NEW cells, \A q \in 1..MaxPages : q # p => cells[q] = Cells[q]
      PROVE  /\ Safe(before, cells, DbSize, StoredJournal, j_data, journalHdr)
             /\ Hot(before, cells, DbSize, StoredJournal)
  BY <1>8, <1>10, CommitSafe
<1>11. p \in 1..MaxPages
  BY <1>8, CommitSafe
<1>12. CASE Kill
  <2>1. /\ PagerLost /\ DbSize' = DbSize
        /\ StoredJournal' \in Seq(Nat) /\ j_key' \in Nat \cup {NoFile}
        /\ StoredJournal' = StoredJournal
        /\ \A q \in 1..MaxPages : q # p => Cells'[q] = Cells[q]
    BY <1>4, <1>5, <1>9, <1>11, <1>12, KillFiles DEF Modes
  <2>2. Files(recovered, Cells', DbSize', StoredJournal')
    BY <1>5, <1>10, <2>1 DEF Files
  <2>3. Inv' /\ recovered' = recovered /\ Tx' = NoTx
    BY <1>2, <1>5, <2>1, <2>2, Dies
  <2> QED  BY <2>3, KeepsRecovered
<1>13. CASE Call
  <2>1. \/ /\ D!WriteDb(<<PageToWrite.cell>>, PageToWrite.pgno - 1)
           /\ ContinueWriting /\ PagerUnchanged /\ UNCHANGED J_vars
        \/ WriteDatabaseFails
    BY <1>1, <1>3, <1>13, CallIs
  <2>2. CASE WriteDatabaseFails
    <3>1. /\ D!WriteDbFails(<<PageToWrite.cell>>, PageToWrite.pgno - 1)
          /\ StartRollback("ERROR") /\ UNCHANGED J_vars
          /\ UNCHANGED eState /\ UNCHANGED jrnl /\ UNCHANGED txs /\ UNCHANGED before /\ UNCHANGED reply
      BY <1>3, <2>2 DEF WriteDatabaseFails
    <3>2. /\ \A q \in 1..MaxPages : q # p => Cells'[q] = Cells[q]
          /\ db_open' /\ DbSize' = DbSize /\ db_size' = db_size /\ DbHandle'
      BY <1>5, <1>9, <1>11, <3>1, DbWriteFails
    <3>3. StoredJournal' = StoredJournal /\ JournalHandle' /\ j_open' = j_open /\ j_data' = j_data
      BY <1>5, <3>1, JournalSame
    <3>4. /\ Hot(recovered, Cells', DbSize', StoredJournal')
          /\ Safe(before, Cells', DbSize, StoredJournal, j_data, journalHdr)
      BY <1>5, <1>10, <3>2, <3>3
    <3>5. recovered' = recovered /\ FilesInv'
      <4>1. DbSize' \in Nat /\ StoredJournal' \in Seq(Nat)
        BY <1>5, <3>2, <3>3
      <4>2. Files(recovered, Cells', DbSize', StoredJournal')
        BY <3>4 DEF Files
      <4> QED  BY <1>2, <1>5, <4>1, <4>2, Recovered
    <3>6. HandlesInv' /\ j_open /\ j_open'
      BY <3>2, <3>3 DEF HandlesInv, CommitSealed
    <3>7. journalHdr > 0 /\ Begun(j_data, before, txs) /\ Chained(j_data, journalHdr)
      BY DEF CommitSealed, Sealed
    <3>8. ModeInv /\ (journalHdr = 0 => db_size = DbSize)
      BY <3>7 DEF ModeInv
    <3>9. dbOrigSize <= db_size /\ dbOrigSize <= Len(image)
      BY <1>5 DEF PagesInv
    <3>13. pInJournal \subseteq 1..dbOrigSize
      BY DEF Books
    <3>10. \A q \in 1..Len(before) : q \in PlayedPages(j_data, journalHdr) \/ image[q] = before[q]
      BY CommitUndone
    <3>11. PICK cells : cells = Cells'
      OBVIOUS
    <3>12. Safe(before, cells, DbSize, StoredJournal, j_data, journalHdr)
      BY <3>4, <3>11
    <3> QED  BY <1>2, <1>4, <3>1, <3>2, <3>3, <3>5, <3>6, <3>7, <3>8, <3>9, <3>10, <3>11, <3>12, <3>13, RollbackStarts
  <2>3. CASE /\ D!WriteDb(<<PageToWrite.cell>>, PageToWrite.pgno - 1)
             /\ ContinueWriting /\ PagerUnchanged /\ UNCHANGED J_vars
    <3>1. /\ Cells'[p] = image[p] /\ \A q \in 1..MaxPages : q # p => Cells'[q] = Cells[q]
          /\ db_open' /\ DbSize' = DbSize
          /\ db_size' = (IF p > db_size THEN p ELSE db_size) /\ DbHandle'
      BY <1>5, <1>9, <1>11, <2>3, DbWrite
    <3>2. /\ Safe(before, Cells', DbSize', StoredJournal, j_data, journalHdr)
          /\ Hot(before, Cells', DbSize', StoredJournal)
      BY <1>10, <3>1
    <3>3. Files(recovered, Cells', DbSize', StoredJournal)
      BY <1>5, <3>2 DEF Files
    <3>4. /\ recovered' = recovered /\ TypeInv' /\ HandlesInv' /\ FilesInv'
          /\ StoredJournal' = StoredJournal /\ j_open' = j_open /\ j_data' = j_data
      BY <1>2, <2>3, <3>1, <3>3, DbCall
    <3>5. UNCHANGED <<eState, image, dirty, need_sync, pInJournal, nRec, journalOff, journalHdr,
                      dbOrigSize, txs, before, reply>>
      BY <1>2, <2>3, <3>1, <3>3, DbCall
    <3>6. ASSUME NEW left, DOMAIN todo = {k} \/ OneWritten(todo, left, k)
          PROVE  PagesInv(left)'
      <4>1. \/ DOMAIN todo = {k}
            \/ DOMAIN left = DOMAIN todo \ {k} /\ \A n \in DOMAIN left : left[n] = todo[n]
        BY <3>6 DEF OneWritten
      <4> QED  BY <1>5, <1>8, <3>1, <3>5, <4>1, CommitFiled
    <3>7. TxInv' /\ Books' /\ (eState = "WRITER_DBMOD")' /\ HotNow'
      <4>1. TxInv'
        BY <3>1, <3>4, <3>5 DEF TxInv
      <4>2. HotNow'
        BY <1>5, <3>2, <3>4 DEF HotNow
      <4>3. Books'
        BY <3>5 DEF Books
      <4> QED  BY <3>5, <4>1, <4>2, <4>3
    <3>8. CommitSealed'
      <4>1. Safe(before, Cells, DbSize, StoredJournal, j_data, journalHdr)'
        BY <3>2, <3>4, <3>5
      <4>2. (journalHdr > 0)' /\ (journalHdr = 0 => db_size = DbSize)'
        BY <3>5 DEF CommitSealed
      <4>3. Sealed(j_data, before, txs, journalHdr, pInJournal)' /\ j_open'
        BY <3>4, <3>5 DEF CommitSealed
      <4> QED  BY <4>1, <4>2, <4>3 DEF CommitSealed, SafeNow
    <3>9. Refined
      BY <1>4, <1>5, <3>4, <3>5, StaysTx
    <3>10. CommittingInv'
      <4>1. CASE DOMAIN todo = {k} /\ calls' = s
        <5>1. (calls = Cons(SyncD, Finalize(Unlock("OK"))))'
          BY <1>0, <1>2, <4>1, FinalizeSame, Zenon
        <5>2. ~Now("write_db")'
          <6>1. Head(calls') = SyncD /\ SyncD.op = "sync_db"
            BY <1>0, <4>1, FinalizeList, ConsFacts, OpFacts
          <6> QED  BY <6>1 DEF Now
        <5>3. Todo' = << >>
          BY <5>2 DEF Todo
        <5>4. PagesInv(Todo)'
          BY <3>6, <4>1, <5>3
        <5>5. (j_open /\ Sound(j_data, before))'
          BY <3>8 DEF CommitSealed, Sealed, Begun
        <5> QED  BY <3>7, <5>1, <5>4, <5>5 DEF CommittingInv
      <4>2. ASSUME NEW left, OneWritten(todo, left, k), calls' = Cons(WriteD(left, TRUE), s)
            PROVE  CommittingInv'
        <5>1. calls' = Commits(left)
          BY <1>0, <4>2, Zenon DEF Commits
        <5>2. (calls = Commits(left))'
          BY <1>2, <5>1, FinalizeSame, Zenon
        <5>3. (Now("write_db") /\ Head(calls).todo = left)'
          BY <5>1, CommitsFacts DEF Now
        <5>4. Todo' = left
          BY <5>3 DEF Todo
        <5>5. PagesInv(left)'
          BY <3>6, <4>2
        <5>6. Commitable(left)'
          <6>1. DOMAIN left \subseteq Nat /\ DOMAIN left # {}
            BY <1>6, <4>2 DEF OneWritten
          <6>2. ASSUME NEW n \in DOMAIN left
                PROVE  (\E q \in 1..Len(image) : left[n] = Entry(q) /\ (q \in pInJournal \/ q > dbOrigSize))'
            <7>1. n \in DOMAIN todo /\ left[n] = todo[n]
              BY <4>2 DEF OneWritten
            <7>2. PICK q \in 1..Len(image) : todo[n] = Entry(q) /\ (q \in pInJournal \/ q > dbOrigSize)
              BY <7>1 DEF Commitable
            <7>3. Entry(q)' = Entry(q)
              BY <3>5 DEF Entry
            <7> QED  BY <3>5, <7>1, <7>2, <7>3
          <6> QED  BY <6>1, <6>2 DEF Commitable
        <5>7. (Todo # << >>)'
          <6>1. DOMAIN left # {}
            BY <4>2 DEF OneWritten
          <6>2. DOMAIN << >> = {}
            OBVIOUS
          <6> QED  BY <5>4, <6>1, <6>2, Zenon
        <5>8. (Todo # << >> /\ PagesInv(Todo) /\ calls = Commits(Todo) /\ Commitable(Todo) /\ CommitSealed)'
          BY <3>8, <5>2, <5>4, <5>5, <5>6, <5>7, Zenon
        <5> QED  BY <3>7, <5>8 DEF CommittingInv, Commitable, CommitSealed
      <4> QED  BY <1>7, <2>3, <4>1, <4>2
    <3> QED  BY <3>4, <3>9, <3>10 DEF Inv, Phase
  <2> QED  BY <2>1, <2>2, <2>3
<1> QED  BY <1>2, <1>12, <1>13

\* After the writes, nothing is left to write.
LEMMA NothingLeft ==
    ASSUME NEW z, NEW list, list \in {Cons(SyncD, Finalize(z)), Finalize(z), Ending(z)}
    PROVE  /\ calls = list => ~Now("write_db") /\ ~Now("unlock") /\ Todo = << >>
           /\ calls' = list => Todo' = << >>
<1>1. PICK e, f : e = Ending(z) /\ f = Finalize(z)
  OBVIOUS
<1>2. IsList(e) /\ IsList(f) /\ IsList(<<z>>)
  BY <1>1, FinalizeList, ListFacts, Zenon
<1>3. f = Cons(FirstEnd, e) /\ e = Cons(LastEnd, <<z>>)
  BY <1>1, Zenon DEF Finalize, Ending
<1>4. Head(e) = LastEnd /\ Head(f) = FirstEnd /\ Head(Cons(SyncD, f)) = SyncD
  BY <1>2, <1>3, ConsFacts
<1>5. /\ SyncD.op = "sync_db" /\ (LastEnd.op = "delete_journal" \/ LastEnd.op = "sync_journal")
      /\ (FirstEnd.op = "close_journal" \/ FirstEnd.op = "write_journal")
  BY OpFacts DEF FirstEnd, LastEnd
<1>6. list = Cons(SyncD, f) \/ list = f \/ list = e
  BY <1>1
<1>7. Head(list) = SyncD \/ Head(list) = FirstEnd \/ Head(list) = LastEnd
  BY <1>4, <1>6, Zenon
<1>8. Head(list).op # "write_db" /\ Head(list).op # "unlock"
  BY <1>5, <1>7
<1> QED  BY <1>8 DEF Todo, Now

\* The database file is the cache.
LEMMA AllFiled ==
    ASSUME PagesInv(<< >>), image \in Seq(Nat), Len(image) <= MaxPages, db_size \in Nat
    PROVE  db_size = Len(image) /\ Same(image, Cells, {})
<1>1. Left(<< >>) = {}
  BY DEF Left
<1>2. \A p \in 1..Len(image) : p <= db_size /\ Cells[p] = image[p]
  BY <1>1 DEF PagesInv, Filed
<1>3. Len(image) \in 1..Len(image) /\ Len(image) \in Nat
  BY DEF PagesInv
<1>4. db_size <= Len(image)
  BY DEF PagesInv
<1> QED  BY <1>2, <1>3, <1>4 DEF Same

\* What a call of another file leaves.
LEMMA CommitStays ==
    ASSUME Modes, Inv, TxInv, Books, eState = "WRITER_DBMOD", HotNow, PagesInv(<< >>),
           PagerUnchanged, recovered' = recovered, Cells' = Cells, db_open' = db_open,
           db_size' = db_size, StoredJournal' = StoredJournal,
           DbSize' = DbSize \/ DbSize' = db_size
    PROVE  (TxInv /\ Books /\ eState = "WRITER_DBMOD" /\ HotNow /\ PagesInv(<< >>))'
<1>1. UNCHANGED <<eState, image, dirty, need_sync, pInJournal, nRec, journalOff, journalHdr,
                  dbOrigSize, txs, before, reply>>
  BY DEF PagerUnchanged, cache, jrnl
<1>2. TxInv'
  BY <1>1 DEF TxInv
<1>3. PagesInv(<< >>)'
  <2>1. \A p : Entry(p)' = Entry(p)
    BY <1>1 DEF Entry
  <2>2. Left(<< >>)' = Left(<< >>)
    BY DEF Left
  <2>3. \A p : Filed(Left(<< >>), p)' <=> Filed(Left(<< >>), p)
    BY <1>1, <2>1, <2>2 DEF Filed
  <2> QED  BY <1>1, <2>3 DEF PagesInv
<1>4. HotNow'
  <2>1. Len(recovered) <= db_size
    BY CommitContext DEF PagesInv
  <2>2. Hot(recovered, Cells, DbSize', StoredJournal)
    BY <2>1 DEF HotNow, Hot
  <2> QED  BY <2>2 DEF HotNow
<1>5. Books'
  BY <1>1 DEF Books
<1> QED  BY <1>1, <1>2, <1>3, <1>4, <1>5

\* sqlite3PagerSync
LEMMA CommitSync ==
    ASSUME Modes, Inv, TxInv, Books, eState = "WRITER_DBMOD", HotNow, PagesInv(<< >>),
           calls = Cons(SyncD, Finalize(Unlock("OK"))), j_open, Sound(j_data, before), Next
    PROVE  Inv' /\ Refined
<1>0. PICK s : s = Finalize(Unlock("OK"))
  OBVIOUS
<1>1. IsList(s) /\ calls = Cons(SyncD, s)
  BY <1>0, FinalizeList, Zenon
<1>2. /\ calls # << >> /\ Head(calls) = SyncD /\ SyncD.op = "sync_db"
      /\ (Call \/ Kill) /\ UNCHANGED pragma /\ Recovers
  BY <1>1, ConsFacts, OnlyCall, OpFacts
<1>3. ~Now("delete_journal") /\ ~Now("write_db") /\ ~Now("sync_journal") /\ ~Now("unlock")
  BY <1>2 DEF Now
<1>4. CASE Kill
  BY <1>2, <1>3, <1>4, DiesUntouched
<1>5. CASE Call
  <2>1. D!Sync /\ calls' = s /\ PagerUnchanged /\ UNCHANGED J_vars
    BY <1>1, <1>2, <1>5, CallIs
  <2>2. /\ DbHandle /\ recovered \in Seq(Nat) /\ recovered = before /\ image \in Seq(Nat)
        /\ eState \in Writing
    BY CommitContext
  <2>3. /\ Cells' = Cells /\ DbSize' = db_size /\ db_size' = db_size /\ db_open /\ db_open' /\ DbHandle'
    BY <2>1, <2>2, DbSync
  <2>4. Files(recovered, Cells', DbSize', StoredJournal)
    <3>1. Len(recovered) <= db_size
      BY CommitContext DEF PagesInv
    <3>2. Hot(recovered, Cells, db_size, StoredJournal)
      BY <3>1 DEF HotNow, Hot
    <3> QED  BY <2>3, <3>2 DEF Files
  <2>5. /\ recovered' = recovered /\ TypeInv' /\ HandlesInv' /\ FilesInv'
        /\ StoredJournal' = StoredJournal /\ j_open' = j_open /\ j_data' = j_data
    BY <1>2, <2>1, <2>3, <2>4, DbCall
  <2>6. (TxInv /\ Books /\ eState = "WRITER_DBMOD" /\ HotNow /\ PagesInv(<< >>))'
    BY <2>1, <2>3, <2>5, CommitStays
  <2>7. (calls = Finalize(Unlock("OK")))'
    BY <1>0, <1>2, <2>1, FinalizeSame, Zenon
  <2>8. Todo' = << >>
    <3>1. s \in {Cons(SyncD, Finalize(Unlock("OK"))), Finalize(Unlock("OK")), Ending(Unlock("OK"))}
      BY <1>0
    <3> QED  BY <2>1, <3>1, NothingLeft
  <2>9. PagesInv(Todo)'
    BY <2>6, <2>8
  <2>10. (before = recovered)'
    BY <2>6 DEF TxInv
  <2>11. (j_open /\ Sound(j_data, before) /\ DbSize = db_size)'
    BY <2>2, <2>3, <2>5, <2>10
  <2>12. CommittingInv'
    BY <2>6, <2>7, <2>9, <2>11 DEF CommittingInv
  <2>13. Refined
    <3>1. image' = image
      BY <2>1 DEF PagerUnchanged, cache
    <3> QED  BY <1>3, <2>2, <2>5, <3>1, StaysTx
  <2> QED  BY <2>5, <2>12, <2>13 DEF Inv, Phase
<1> QED  BY <1>2, <1>4, <1>5

\* pager_end_transaction begins.
LEMMA CommitFinalize ==
    ASSUME Modes, Inv, TxInv, Books, eState = "WRITER_DBMOD", HotNow, PagesInv(<< >>),
           calls = Finalize(Unlock("OK")), j_open, Sound(j_data, before), DbSize = db_size, Next
    PROVE  Inv' /\ Refined
<1>0. PICK z : z = Unlock("OK")
  OBVIOUS
<1>1. calls = Finalize(z)
  BY <1>0, Zenon
<1>2. /\ (Call \/ Kill) /\ UNCHANGED pragma /\ Recovers
      /\ ~Now("delete_journal") /\ ~Now("write_db") /\ ~Now("sync_journal") /\ ~Now("unlock")
  BY <1>1, FinalizeHead
<1>3. CASE Kill
  BY <1>2, <1>3, DiesUntouched
<1>4. CASE Call
  <2>1. /\ before \in Seq(Nat) /\ image \in Seq(Nat) /\ eState \in Writing
    BY CommitContext
  <2>2. /\ JournalStep(Ending(z)) /\ (calls = Ending(z))'
        /\ StoredJournal' = StoredJournal /\ recovered' = recovered
        /\ TypeInv' /\ HandlesInv' /\ FilesInv'
        /\ IF pragma.journal_mode = "DELETE" THEN ~j_open'
           ELSE j_open' /\ j_data' # << >> /\ j_data'[1] = 0
    <3>1. PICK base : base = before
      OBVIOUS
    <3>2. base \in Seq(Nat) /\ Sound(j_data, base)
      BY <2>1, <3>1
    <3> QED  BY <1>1, <1>2, <1>4, <3>2, FinalizeStarts
  <2>3. PagerUnchanged /\ UNCHANGED D_vars
    BY <2>2 DEF JournalStep
  <2>4. Cells' = Cells /\ DbSize' = DbSize /\ db_size' = db_size /\ db_open' = db_open
    BY <2>3, DbSame
  <2>5. (TxInv /\ Books /\ eState = "WRITER_DBMOD" /\ HotNow /\ PagesInv(<< >>))'
    BY <2>2, <2>3, <2>4, CommitStays
  <2>6. Todo' = << >>
    <3>1. calls' = Ending(z)
      BY <2>2 DEF JournalStep
    <3> QED  BY <3>1, NothingLeft
  <2>7. PagesInv(Todo)'
    BY <2>5, <2>6
  <2>8. (/\ DbSize = db_size
         /\ IF pragma.journal_mode = "DELETE" THEN ~j_open
            ELSE j_open /\ j_data # << >> /\ j_data[1] = 0)'
    BY <1>2, <2>2, <2>4
  <2>9. (calls = Ending(Unlock("OK")))'
    BY <1>0, <2>2, Zenon
  <2>10. CommittingInv'
    BY <2>5, <2>7, <2>8, <2>9 DEF CommittingInv
  <2>11. Refined
    <3>1. image' = image
      BY <2>3 DEF PagerUnchanged, cache
    <3> QED  BY <1>2, <2>1, <2>2, <3>1, StaysTx
  <2> QED  BY <2>2, <2>10, <2>11 DEF Inv, Phase
<1> QED  BY <1>2, <1>3, <1>4

\* The commit point.
LEMMA CommitEnds ==
    ASSUME Modes, Inv, TxInv, Books, eState = "WRITER_DBMOD", HotNow, PagesInv(<< >>),
           calls = Ending(Unlock("OK")), DbSize = db_size,
           IF pragma.journal_mode = "DELETE" THEN ~j_open
           ELSE j_open /\ j_data # << >> /\ j_data[1] = 0,
           Next
    PROVE  Inv' /\ Refined
<1>0. PICK z, base : z = Unlock("OK") /\ base = image
  OBVIOUS
<1>1. /\ image \in Seq(Nat) /\ Len(image) <= MaxPages /\ db_size \in Nat /\ eState \in Writing
      /\ db_open /\ JournalHandle /\ reply = "none" /\ StoredJournal \in Seq(Nat)
  BY CommitContext
<1>2. /\ base \in Seq(Nat) /\ Len(base) <= MaxPages /\ DbSize = Len(base) /\ Same(base, Cells, {})
      /\ calls = Ending(z)
  <2>1. db_size = Len(image) /\ Same(image, Cells, {})
    BY <1>1, AllFiled
  <2>2. calls = Ending(z)
    BY <1>0, Zenon
  <2> QED  BY <1>0, <1>1, <2>1, <2>2
<1>3. /\ Recovers /\ UNCHANGED pragma /\ ~Now("unlock") /\ ~Now("write_db")
      /\ \/ Inv' /\ recovered' \in {recovered, base} /\ Tx' = NoTx
         \/ DeleteJournalFails /\ ~JournalExists
         \/ /\ calls' = <<z>> /\ PagerUnchanged /\ UNCHANGED D_vars
            /\ recovered' = base /\ TypeInv' /\ HandlesInv' /\ FilesInv'
            /\ CleanNow' /\ ~ValidNow'
            /\ j_data' = j_data /\ j_open' = j_open
  BY <1>2, JournalEnds
<1>4. Tx = base /\ Tx # NoTx
  BY <1>0, <1>1, <1>3, TxFacts
<1>5. ASSUME recovered' \in {recovered, base}, Tx' = NoTx
      PROVE  Refined
  BY <1>4, <1>5 DEF Refined, Transaction!Next, Transaction!Commit, Transaction!Abort
<1>6. CASE Inv' /\ recovered' \in {recovered, base} /\ Tx' = NoTx
  BY <1>5, <1>6
<1>7. ~(DeleteJournalFails /\ ~JournalExists)
  BY <1>1, StoredLen, ValidFacts DEF HotNow, Hot, Dead
<1>8. CASE /\ calls' = <<z>> /\ PagerUnchanged /\ UNCHANGED D_vars
           /\ recovered' = base /\ TypeInv' /\ HandlesInv' /\ FilesInv'
           /\ CleanNow' /\ ~ValidNow'
           /\ j_data' = j_data /\ j_open' = j_open
  <2>1. Cells' = Cells /\ DbSize' = DbSize /\ db_size' = db_size /\ db_open' = db_open
    BY <1>8, DbSame
  <2>2. Settled'
    BY <1>1, <1>8, <2>1 DEF Settled
  <2>3. eState' = eState /\ image' = image /\ reply' = reply
    BY <1>8 DEF PagerUnchanged, cache
  <2>4. (calls = <<Unlock("OK")>>)'
    BY <1>0, <1>8, Zenon
  <2>5. (eState \in Writing /\ reply = "none" /\ image = recovered)'
    BY <1>0, <1>1, <1>8, <2>3
  <2>10. Books'
    BY <1>8 DEF PagerUnchanged, cache, jrnl, Books
  <2>6. UnlockInv'
    BY <2>2, <2>4, <2>5, <2>10 DEF UnlockInv
  <2>7. Now("unlock")'
    BY <1>0, <1>8, ListFacts, OpFacts DEF Now
  <2>8. Tx' = NoTx
    BY <2>7 DEF Tx
  <2>9. Refined
    BY <1>5, <1>8, <2>8
  <2> QED  BY <1>8, <2>6, <2>9 DEF Inv, Phase
<1> QED  BY <1>3, <1>6, <1>7, <1>8

\* Each call of COMMIT after syncJournal.
LEMMA CommittingStep ==
    ASSUME Modes, Inv, CommittingInv, Next
    PROVE  Inv' /\ Refined
<1>1. TxInv /\ Books /\ eState = "WRITER_DBMOD" /\ HotNow /\ PagesInv(Todo)
  BY DEF CommittingInv
<1>2. CASE /\ Todo # << >> /\ calls = Commits(Todo) /\ Commitable(Todo) /\ CommitSealed
  <2>1. PICK todo : todo = Todo
    OBVIOUS
  <2>2. calls = Commits(todo) /\ Commitable(todo) /\ PagesInv(todo)
    BY <1>1, <1>2, <2>1, Zenon
  <2> QED  BY <1>1, <1>2, <2>2, CommitWrite
<1>3. CASE calls = Cons(SyncD, Finalize(Unlock("OK"))) /\ j_open /\ Sound(j_data, before)
  <2>1. Todo = << >>
    BY <1>3, NothingLeft
  <2> QED  BY <1>1, <1>3, <2>1, CommitSync
<1>4. CASE calls = Finalize(Unlock("OK")) /\ j_open /\ Sound(j_data, before) /\ DbSize = db_size
  <2>1. Todo = << >>
    BY <1>4, NothingLeft
  <2> QED  BY <1>1, <1>4, <2>1, CommitFinalize
<1>5. CASE /\ calls = Ending(Unlock("OK")) /\ DbSize = db_size
           /\ IF pragma.journal_mode = "DELETE" THEN ~j_open ELSE j_open /\ j_data # << >> /\ j_data[1] = 0
  <2>1. Todo = << >>
    BY <1>5, NothingLeft
  <2> QED  BY <1>1, <1>5, <2>1, CommitEnds
<1> QED  BY <1>2, <1>3, <1>4, <1>5 DEF CommittingInv, Commitable, CommitSealed

\* What a step that changes nothing leaves alone.
Still == /\ PagerUnchanged /\ UNCHANGED D_vars /\ UNCHANGED J_vars /\ UNCHANGED pragma
         /\ calls' = calls /\ recovered' = recovered

\* A step that changes no variable changes no file.
LEMMA StillFacts ==
    ASSUME Still
    PROVE  /\ Cells' = Cells /\ DbSize' = DbSize /\ StoredJournal' = StoredJournal
           /\ JournalExists' = JournalExists /\ j_open' = j_open /\ j_data' = j_data
           /\ j_dirty' = j_dirty /\ db_open' = db_open /\ db_size' = db_size
           /\ db_dirty' = db_dirty
           /\ j_key' = j_key /\ j_size' = j_size /\ eState' = eState /\ image' = image
           /\ dirty' = dirty /\ need_sync' = need_sync /\ pInJournal' = pInJournal
           /\ nRec' = nRec /\ journalOff' = journalOff /\ journalHdr' = journalHdr
           /\ dbOrigSize' = dbOrigSize /\ txs' = txs /\ before' = before /\ reply' = reply
           /\ pragma' = pragma /\ calls' = calls /\ recovered' = recovered
<1>1. PagerUnchanged /\ UNCHANGED D_vars /\ UNCHANGED J_vars /\ UNCHANGED pragma
      /\ calls' = calls /\ recovered' = recovered
  BY DEF Still
<1>2. Cells' = Cells /\ DbSize' = DbSize  BY <1>1, DbSame
<1>3. StoredJournal' = StoredJournal /\ JournalExists' = JournalExists  BY <1>1, JournalSame
<1>4. j_open' = j_open /\ j_data' = j_data /\ j_dirty' = j_dirty /\ j_key' = j_key /\ j_size' = j_size
  BY <1>1 DEF J_vars
<1>5. db_open' = db_open /\ db_size' = db_size /\ db_dirty' = db_dirty  BY <1>1 DEF D_vars
<1>6. /\ eState' = eState /\ image' = image /\ dirty' = dirty /\ need_sync' = need_sync
      /\ pInJournal' = pInJournal /\ nRec' = nRec /\ journalOff' = journalOff
      /\ journalHdr' = journalHdr /\ dbOrigSize' = dbOrigSize /\ txs' = txs /\ before' = before
      /\ reply' = reply
  BY <1>1 DEF PagerUnchanged, cache, jrnl
<1> QED  BY <1>1, <1>2, <1>3, <1>4, <1>5, <1>6

\* Nor the journal that is being written.
LEMMA UnsealedStill ==
    ASSUME Still
    PROVE  /\ \A h : SafeNow(h)' <=> SafeNow(h)
           /\ \A h, n, pages : UnsealedAt(h, n, pages)' <=> UnsealedAt(h, n, pages)
           /\ Unsynced' <=> Unsynced
<1>1. \A h : SafeNow(h)' <=> SafeNow(h)  BY StillFacts, Zenon DEF SafeNow
<1>2. \A h, n, pages : UnsealedAt(h, n, pages)' <=> UnsealedAt(h, n, pages)
  BY <1>1, StillFacts, Zenon DEF UnsealedAt
<1>3. Unsynced' <=> Unsynced  BY StillFacts, Zenon DEF Unsynced
<1> QED  BY <1>1, <1>2, <1>3, Zenon

\* Stuttering while a record is to be written.
LEMMA RecordingStill ==
    ASSUME Still, RecordingInv
    PROVE  RecordingInv'
<1>1. /\ TxInv' <=> TxInv
      /\ ModeInv' <=> ModeInv
      /\ Room' <=> Room
      /\ \A pages : CacheInv(pages)' <=> CacheInv(pages)
  <2>1. PagerUnchanged /\ UNCHANGED D_vars /\ UNCHANGED pragma /\ recovered' = recovered  BY DEF Still
  <2> QED  BY <2>1, PagerSame, Zenon
<1>2. TxInv' /\ ModeInv' /\ Room' /\ CacheInv({})'  BY <1>1, Zenon DEF RecordingInv
<1>3. j_open' /\ Unsynced' /\ nRec' > 0
  <2>1. j_open /\ Unsynced /\ nRec > 0  BY DEF RecordingInv
  <2> QED  BY <2>1, StillFacts, UnsealedStill
<1>4. PICK p \in need_sync \cap 1..dbOrigSize, pages \in {pInJournal} \cup {pInJournal \ {q} : q \in pInJournal} :
         /\ calls = <<OrigRecord(journalOff - Sector, p)>>
         /\ pInJournal = pages \cup {p}
         /\ UnsealedAt(journalHdr, nRec - 1, pages)
  BY Zenon DEF RecordingInv
<1>5. p \in (need_sync \cap 1..dbOrigSize)'  BY <1>4, StillFacts, Zenon
<1>6. pages \in ({pInJournal} \cup {pInJournal \ {q} : q \in pInJournal})'
  BY <1>4, StillFacts, Zenon
<1>7. \A at : OrigRecord(at, p)' = OrigRecord(at, p)  BY StillFacts, Zenon DEF OrigRecord
<1>8. (calls = <<OrigRecord(journalOff - Sector, p)>>)'  BY <1>4, <1>7, StillFacts, Zenon
<1>9. (pInJournal = pages \cup {p})'  BY <1>4, StillFacts, Zenon
<1>10. UnsealedAt(journalHdr, nRec - 1, pages)'
  <2>1. \A h, n : UnsealedAt(h, n, pages)' <=> UnsealedAt(h, n, pages)  BY UnsealedStill, Zenon
  <2>2. journalHdr' = journalHdr /\ nRec' = nRec  BY StillFacts
  <2> QED  BY <1>4, <2>1, <2>2, Zenon
<1> QED  BY <1>2, <1>3, <1>5, <1>6, <1>8, <1>9, <1>10, Zenon DEF RecordingInv

\* Stuttering in a stage of syncJournal.
LEMMA StageStill ==
    ASSUME Still, NEW h, NEW n, NEW rest, SyncStage(h, n, rest)
    PROVE  SyncStage(h, n, rest)'
<1>1. /\ \A a, b : Checks(a, b, rest)' = Checks(a, b, rest)
      /\ \A a, b : Syncs(a, b, rest)' = Syncs(a, b, rest)
      /\ \A a, b : Magics(a, b, rest)' = Magics(a, b, rest)
  <2>1. PagerUnchanged /\ UNCHANGED D_vars /\ UNCHANGED pragma /\ recovered' = recovered  BY DEF Still
  <2> QED  BY <2>1, PurposeSame, Zenon
<1>2. \A at, p : OrigRecord(at, p)' = OrigRecord(at, p)  BY StillFacts, Zenon DEF OrigRecord
<1>3. (h + Sector * (n + 1) = journalHdr)'  BY StillFacts, Zenon DEF SyncStage
<1>4. CASE /\ n > 0 /\ 1 \in 1..dbOrigSize
           /\ calls = Cons(OrigRecord(journalHdr - Sector, 1), Checks(h, n, rest))
           /\ \E pages \in {pInJournal} \cup {pInJournal \ {q} : q \in pInJournal} :
                UnsealedAt(h, n - 1, pages) /\ pInJournal = pages \cup {1}
  <2>1. (n > 0 /\ 1 \in 1..dbOrigSize)'  BY <1>4, StillFacts, Zenon
  <2>2. (calls = Cons(OrigRecord(journalHdr - Sector, 1), Checks(h, n, rest)))'
    BY <1>1, <1>2, <1>4, StillFacts, Zenon
  <2>3. PICK pages \in {pInJournal} \cup {pInJournal \ {q} : q \in pInJournal} :
                UnsealedAt(h, n - 1, pages) /\ pInJournal = pages \cup {1}
    BY <1>4
  <2>4. pages \in ({pInJournal} \cup {pInJournal \ {q} : q \in pInJournal})'
    BY <2>3, StillFacts, Zenon
  <2>5. (UnsealedAt(h, n - 1, pages) /\ pInJournal = pages \cup {1})'
    BY <2>3, StillFacts, UnsealedStill, Zenon
  <2> QED  BY <1>3, <2>1, <2>2, <2>4, <2>5, Zenon DEF SyncStage
<1>5. CASE /\ calls \in {Checks(h, n, rest), Syncs(h, n, rest), Magics(h, n, rest)}
           /\ UnsealedAt(h, n, pInJournal)
  <2>1. (calls \in {Checks(h, n, rest), Syncs(h, n, rest), Magics(h, n, rest)})'
    BY <1>1, <1>5, StillFacts, Zenon
  <2>2. UnsealedAt(h, n, pInJournal)'
    <3>1. \A pages : UnsealedAt(h, n, pages)' <=> UnsealedAt(h, n, pages)  BY UnsealedStill, Zenon
    <3> QED  BY <1>5, <3>1, StillFacts, Zenon
  <2> QED  BY <1>3, <2>1, <2>2, Zenon DEF SyncStage
<1>6. CASE /\ calls = Cons(SyncJ, rest)
           /\ Sealed(j_data, before, txs, journalHdr, pInJournal) /\ SafeNow(h)
           /\ Chained(j_data, h) /\ Recorded(j_data, h) \subseteq pInJournal
  <2>1. (calls = Cons(SyncJ, rest))'  BY <1>6, StillFacts, Zenon DEF SyncJ
  <2>2. Sealed(j_data, before, txs, journalHdr, pInJournal)' /\ SafeNow(h)'
    BY <1>6, StillFacts, UnsealedStill, Zenon
  <2>3. (Chained(j_data, h) /\ Recorded(j_data, h) \subseteq pInJournal)'
    BY <1>6, StillFacts, Zenon
  <2> QED  BY <1>3, <2>1, <2>2, <2>3, Zenon DEF SyncStage
<1> QED  BY <1>4, <1>5, <1>6, Zenon DEF SyncStage

\* Stuttering in syncJournal.
LEMMA SyncingStill ==
    ASSUME Still, SyncingInv
    PROVE  SyncingInv'
<1>1. /\ TxInv' <=> TxInv
      /\ Rests' = Rests
      /\ \A rest : Purpose(rest) => Purpose(rest)'
  <2>1. PagerUnchanged /\ UNCHANGED D_vars /\ UNCHANGED pragma /\ recovered' = recovered  BY DEF Still
  <2> QED  BY <2>1, PagerSame, PurposeSame, Zenon
<1>2. TxModified' /\ (need_sync = {})'
  <2>1. TxModified /\ need_sync = {}  BY DEF SyncingInv
  <2> QED  BY <1>1, <2>1, StillFacts, Zenon DEF TxModified
<1>3. PICK rest \in Rests :
         /\ Purpose(rest)
         /\ \/ \E h, n \in 0..journalHdr : SyncStage(h, n, rest)
            \/ /\ calls = rest /\ journalHdr > 0
               /\ Sealed(j_data, before, txs, journalHdr, pInJournal) /\ SafeNow(journalHdr)
  BY Zenon DEF SyncingInv
<1>4. (rest \in Rests)' /\ Purpose(rest)'  BY <1>1, <1>3, Zenon
<1>5. CASE \E h, n \in 0..journalHdr : SyncStage(h, n, rest)
  <2>1. PICK h, n \in 0..journalHdr : SyncStage(h, n, rest)  BY <1>5
  <2>2. SyncStage(h, n, rest)'  BY <2>1, StageStill
  <2>3. (h \in 0..journalHdr /\ n \in 0..journalHdr)'  BY <2>1, StillFacts, Zenon
  <2> QED  BY <1>2, <1>4, <2>2, <2>3, Zenon DEF SyncingInv
<1>6. CASE /\ calls = rest /\ journalHdr > 0
           /\ Sealed(j_data, before, txs, journalHdr, pInJournal) /\ SafeNow(journalHdr)
  <2>1. (calls = rest /\ journalHdr > 0)'  BY <1>6, StillFacts, Zenon
  <2>2. Sealed(j_data, before, txs, journalHdr, pInJournal)' /\ SafeNow(journalHdr)'
    <3>1. \A h : SafeNow(h)' <=> SafeNow(h)  BY UnsealedStill, Zenon
    <3> QED  BY <1>6, <3>1, StillFacts, Zenon
  <2> QED  BY <1>2, <1>4, <2>1, <2>2, Zenon DEF SyncingInv
<1> QED  BY <1>3, <1>5, <1>6, Zenon

\* Stuttering in a playback.
LEMMA UndoStill ==
    ASSUME Still, UndoInv
    PROVE  UndoInv'
<1>1. PICK z \in {Reader, Unlock("none"), Unlock("ERROR")} :
      /\ Ends(z) /\ db_open
      /\ \/ /\ j_open /\ Sound(j_data, recovered) /\ HotNow
            /\ \/ /\ calls = Cons(TruncateD(Len(recovered)), Cons(SyncD, Finalize(z)))
                  /\ Same(recovered, Cells, {}) /\ Len(recovered) <= db_size
               \/ /\ Len(calls) > 1 /\ calls[2].op = "write_db"
                  /\ \E todo \in {calls[2].todo} :
                     /\ calls = Cons(TruncateD(Len(recovered)), Undoes(todo, z))
                     /\ Originals(todo)
                  /\ Len(recovered) <= db_size
               \/ /\ Now("write_db") /\ \E todo \in {Head(calls).todo} :
                     /\ calls = Undoes(todo, z)
                     /\ Originals(todo)
                  /\ Len(recovered) = db_size
         \/ /\ j_open /\ Sound(j_data, recovered)
            /\ db_size = Len(recovered) /\ Same(recovered, Cells, {})
            /\ z = Reader => JournalExists
            /\ \/ calls = Cons(SyncD, Finalize(z))
               \/ calls = Finalize(z) /\ db_size = DbSize
               \/ calls = Cons(SyncD, <<Reader>>) /\ z = Reader /\ ~ValidNow
         \/ /\ calls = Ending(z)
            /\ db_size = Len(recovered) /\ Same(recovered, Cells, {}) /\ db_size = DbSize
            /\ z = Reader => JournalExists
            /\ KeepsSound(recovered)
            /\ IF pragma.journal_mode = "DELETE" THEN ~j_open
               ELSE j_open /\ j_data # << >> /\ j_data[1] = 0
         \/ calls = <<z>> /\ Settled /\ (z = Reader => KeepsSound(recovered))
  BY Zenon DEF UndoInv
<1>2. /\ HotNow' = HotNow /\ ValidNow' = ValidNow /\ CleanNow' = CleanNow
      /\ KeepsSound(recovered)' <=> KeepsSound(recovered)
  <2>1. HotNow' = HotNow  BY StillFacts, Zenon DEF HotNow
  <2>2. CleanNow' = CleanNow  BY StillFacts, Zenon DEF CleanNow
  <2>3. ValidNow' = ValidNow  BY StillFacts, Zenon DEF ValidNow
  <2>4. KeepsSound(recovered)' <=> KeepsSound(recovered)
    <3>1. j_open' = j_open /\ j_data' = j_data /\ recovered' = recovered  BY StillFacts
    <3> QED  BY <3>1 DEF KeepsSound
  <2> QED  BY <2>1, <2>2, <2>3, <2>4, Zenon
<1>3. Settled' <=> Settled
  <2>1. db_open' = db_open /\ db_size' = db_size /\ DbSize' = DbSize  BY StillFacts
  <2> QED  BY <1>2, <2>1 DEF Settled
<1>4. /\ Finalize(z)' = Finalize(z) /\ Ending(z)' = Ending(z)
      /\ \A todo : Undoes(todo, z)' = Undoes(todo, z)
  <2>1. UNCHANGED pragma  BY DEF Still
  <2> QED  BY <2>1, FinalizeSame, Zenon
<1>5. Ends(z)' /\ db_open'
  <2>1. PagerUnchanged /\ recovered' = recovered /\ db_open' = db_open  BY StillFacts DEF Still
  <2>2. Ends(z)'  BY <1>1, <1>2, <2>1, EndsKept, Zenon
  <2> QED  BY <1>1, <2>1, <2>2, Zenon
<1>6. \A todo : Originals(todo) => Originals(todo)'
  <2> SUFFICES ASSUME NEW todo, Originals(todo) PROVE Originals(todo)'  OBVIOUS
  <2> QED  BY StillFacts, OriginalsSame, Zenon
<1>7. CASE /\ j_open /\ Sound(j_data, recovered) /\ HotNow
            /\ calls = Cons(TruncateD(Len(recovered)), Cons(SyncD, Finalize(z)))
            /\ Same(recovered, Cells, {}) /\ Len(recovered) <= db_size
  <2>1. (j_open /\ Sound(j_data, recovered) /\ HotNow)'  BY <1>2, <1>7, StillFacts, Zenon
  <2>2. (calls = Cons(TruncateD(Len(recovered)), Cons(SyncD, Finalize(z))))'
    BY <1>4, <1>7, StillFacts, Zenon DEF SyncD
  <2>3. (Same(recovered, Cells, {}) /\ Len(recovered) <= db_size)'  BY <1>7, StillFacts, Zenon
  <2> QED  BY <1>1, <1>5, <2>1, <2>2, <2>3, Zenon DEF UndoInv, Reader, Unlock
<1>8. CASE /\ j_open /\ Sound(j_data, recovered) /\ HotNow
            /\ Len(calls) > 1 /\ calls[2].op = "write_db"
            /\ \E todo \in {calls[2].todo} :
                  /\ calls = Cons(TruncateD(Len(recovered)), Undoes(todo, z))
                  /\ Originals(todo)
            /\ Len(recovered) <= db_size
  <2>1. (j_open /\ Sound(j_data, recovered) /\ HotNow)'  BY <1>2, <1>8, StillFacts, Zenon
  <2>2. PICK todo \in {calls[2].todo} :
                  /\ calls = Cons(TruncateD(Len(recovered)), Undoes(todo, z))
                  /\ Originals(todo)
    BY <1>8
  <2>3. (calls = Cons(TruncateD(Len(recovered)), Undoes(todo, z)) /\ Originals(todo))'
    BY <1>4, <1>6, <2>2, StillFacts, Zenon
  <2>4. (Len(calls) > 1 /\ calls[2].op = "write_db" /\ todo \in {calls[2].todo} /\ Len(recovered) <= db_size)'
    BY <1>8, <2>2, StillFacts, Zenon
  <2> QED  BY <1>1, <1>5, <2>1, <2>3, <2>4, Zenon DEF UndoInv, Reader, Unlock
<1>9. CASE /\ j_open /\ Sound(j_data, recovered) /\ HotNow
            /\ Now("write_db") /\ \E todo \in {Head(calls).todo} :
                  /\ calls = Undoes(todo, z)
                  /\ Originals(todo)
            /\ Len(recovered) = db_size
  <2>1. (j_open /\ Sound(j_data, recovered) /\ HotNow)'  BY <1>2, <1>9, StillFacts, Zenon
  <2>2. PICK todo \in {Head(calls).todo} :
                  /\ calls = Undoes(todo, z)
                  /\ Originals(todo)
    BY <1>9
  <2>3. (calls = Undoes(todo, z) /\ Originals(todo))'
    BY <1>4, <1>6, <2>2, StillFacts, Zenon
  <2>4. (Now("write_db") /\ todo \in {Head(calls).todo} /\ Len(recovered) = db_size)'
    BY <1>9, <2>2, StillFacts, Zenon DEF Now
  <2> QED  BY <1>1, <1>5, <2>1, <2>3, <2>4, Zenon DEF UndoInv, Reader, Unlock
<1>10. CASE /\ j_open /\ Sound(j_data, recovered)
            /\ db_size = Len(recovered) /\ Same(recovered, Cells, {})
            /\ z = Reader => JournalExists
            /\ \/ calls = Cons(SyncD, Finalize(z))
               \/ calls = Finalize(z) /\ db_size = DbSize
               \/ calls = Cons(SyncD, <<Reader>>) /\ z = Reader /\ ~ValidNow
  <2>1. (j_open /\ Sound(j_data, recovered) /\ db_size = Len(recovered) /\ Same(recovered, Cells, {}))'
    BY <1>10, StillFacts, Zenon
  <2>2. (z = Reader => JournalExists)'  BY <1>10, StillFacts, Zenon DEF Reader
  <2>3. (\/ calls = Cons(SyncD, Finalize(z))
         \/ calls = Finalize(z) /\ db_size = DbSize
         \/ calls = Cons(SyncD, <<Reader>>) /\ z = Reader /\ ~ValidNow)'
    BY <1>2, <1>4, <1>10, StillFacts, Zenon DEF Reader, SyncD
  <2> QED  BY <1>1, <1>5, <2>1, <2>2, <2>3, Zenon DEF UndoInv, Reader, Unlock
<1>11. CASE /\ calls = Ending(z)
            /\ db_size = Len(recovered) /\ Same(recovered, Cells, {}) /\ db_size = DbSize
            /\ z = Reader => JournalExists
            /\ KeepsSound(recovered)
            /\ IF pragma.journal_mode = "DELETE" THEN ~j_open
               ELSE j_open /\ j_data # << >> /\ j_data[1] = 0
  <2>1. (calls = Ending(z))'  BY <1>4, <1>11, StillFacts, Zenon
  <2>2. (db_size = Len(recovered) /\ Same(recovered, Cells, {}) /\ db_size = DbSize)'
    BY <1>11, StillFacts, Zenon
  <2>3. (z = Reader => JournalExists)'  BY <1>11, StillFacts, Zenon DEF Reader
  <2>4. KeepsSound(recovered)'  BY <1>2, <1>11, StillFacts, Zenon
  <2>5. (IF pragma.journal_mode = "DELETE" THEN ~j_open
         ELSE j_open /\ j_data # << >> /\ j_data[1] = 0)'
    <3>1. CASE pragma.journal_mode = "DELETE"
      <4>0. j_open' = j_open /\ pragma' = pragma  BY StillFacts
      <4>1. ~j_open' /\ pragma'.journal_mode = "DELETE"  BY <1>11, <3>1, <4>0
      <4> QED  BY <4>1, Zenon
    <3>2. CASE pragma.journal_mode # "DELETE"
      <4>0. j_open' = j_open /\ pragma' = pragma /\ j_data' = j_data  BY StillFacts
      <4>1. j_open' /\ j_data' # << >> /\ j_data'[1] = 0 /\ pragma'.journal_mode # "DELETE"
        BY <1>11, <3>2, <4>0
      <4> QED  BY <4>1, Zenon
    <3> QED  BY <3>1, <3>2
  <2> QED  BY <1>1, <1>5, <2>1, <2>2, <2>3, <2>4, <2>5, Zenon DEF UndoInv, Reader, Unlock
<1>12. CASE calls = <<z>> /\ Settled /\ (z = Reader => KeepsSound(recovered))
  <2>1. (calls = <<z>> /\ Settled)'  BY <1>3, <1>12, StillFacts, Zenon
  <2>2. (z = Reader => KeepsSound(recovered))'  BY <1>2, <1>12, StillFacts, Zenon DEF Reader
  <2> QED  BY <1>1, <1>5, <2>1, <2>2, Zenon DEF UndoInv, Reader, Unlock
<1> QED  BY <1>1, <1>7, <1>8, <1>9, <1>10, <1>11, <1>12, Zenon

\* Stuttering in any phase.
LEMMA PhaseStill ==
    ASSUME Still, Phase
    PROVE  Phase'
<1>1. /\ Cells' = Cells /\ DbSize' = DbSize /\ StoredJournal' = StoredJournal
      /\ JournalExists' = JournalExists /\ j_open' = j_open /\ j_data' = j_data
      /\ j_dirty' = j_dirty /\ db_open' = db_open /\ db_size' = db_size
      /\ eState' = eState /\ image' = image
      /\ dirty' = dirty /\ need_sync' = need_sync /\ pInJournal' = pInJournal
      /\ nRec' = nRec /\ journalOff' = journalOff /\ journalHdr' = journalHdr
      /\ dbOrigSize' = dbOrigSize /\ txs' = txs /\ before' = before /\ reply' = reply
      /\ pragma' = pragma /\ calls' = calls /\ recovered' = recovered
  BY StillFacts
<1>2. noSync' = noSync  BY <1>1 DEF noSync
<1>3. /\ CleanNow' = CleanNow /\ HotNow' = HotNow /\ ValidNow' = ValidNow
      /\ TxInv' = TxInv /\ ModeInv' = ModeInv /\ Room' = Room
      /\ Unsynced' = Unsynced /\ Idle' = Idle /\ Books' = Books /\ Todo' = Todo
      /\ Ready' = Ready /\ Settled' = Settled /\ Forgotten' = Forgotten
  BY <1>1, Zenon DEF CleanNow, HotNow, ValidNow, TxInv, ModeInv, Room, Unsynced, Idle,
       Books, Todo, Now, Ready, Settled, Forgotten
<1>4. OpenInv' = OpenInv  BY <1>1, <1>2, <1>3, Zenon DEF OpenInv
<1>5. ReaderInv' = ReaderInv  BY <1>1, <1>2, <1>3, Zenon DEF ReaderInv, KeepsSound
<1>6. LockedInv' = LockedInv  BY <1>1, <1>2, <1>3, Zenon DEF LockedInv, KeepsSound
<1>7. WriterInv' = WriterInv
  BY <1>1, <1>2, <1>3, Zenon DEF WriterInv, CacheInv, Filed, Entry, UnsealedAt, SafeNow
<1>8. CASE IdleInv
  <2>1. IdleInv' = IdleInv  BY <1>1, <1>2, <1>3, <1>4, <1>5, <1>6, <1>7, Zenon DEF IdleInv
  <2> QED  BY <1>8, <2>1, Zenon DEF Phase
<1>9. CASE OpeningInv
  <2>1. OpeningInv' = OpeningInv
    BY <1>1, <1>2, <1>3, Zenon DEF OpeningInv, CacheInv, Filed, Entry, UnsealedAt, SafeNow,
         KeepsSound, OrigRecord, FirstHeader, Header, noSync
  <2> QED  BY <1>9, <2>1, Zenon DEF Phase
<1>10. CASE RecordingInv
  <2>1. RecordingInv'  BY <1>10, RecordingStill
  <2> QED  BY <2>1, Zenon DEF Phase
<1>11. CASE SyncingInv
  <2>1. SyncingInv'  BY <1>11, SyncingStill
  <2> QED  BY <2>1, Zenon DEF Phase
<1>12. CASE SpillingInv
  <2>1. SpillingInv' = SpillingInv
    BY <1>1, <1>2, <1>3, Zenon DEF SpillingInv, TxModified, CacheInv, Filed, Entry, UnsealedAt, SafeNow
  <2> QED  BY <1>12, <2>1, Zenon DEF Phase
<1>13. CASE CommittingInv
  <2>1. CommittingInv' = CommittingInv
    BY <1>1, <1>2, <1>3, Zenon DEF CommittingInv, Filed, Entry, SafeNow, PagesInv, Commits, Finalize,
         Ending, FirstEnd, LastEnd
  <2> QED  BY <1>13, <2>1, Zenon DEF Phase
<1>14. CASE UndoInv
  <2>1. UndoInv'  BY <1>14, UndoStill
  <2> QED  BY <2>1, Zenon DEF Phase
<1>15. CASE SharedLockInv
  <2>1. SharedLockInv' = SharedLockInv  BY <1>1, <1>2, <1>3, <1>4, Zenon DEF SharedLockInv
  <2> QED  BY <1>15, <2>1, Zenon DEF Phase
<1>16. CASE UnlockInv
  <2>1. UnlockInv' = UnlockInv  BY <1>1, <1>2, <1>3, <1>5, <1>6, Zenon DEF UnlockInv, Now
  <2> QED  BY <1>16, <2>1, Zenon DEF Phase
<1> QED  BY <1>8, <1>9, <1>10, <1>11, <1>12, <1>13, <1>14, <1>15, <1>16, Zenon DEF Phase

\* A step that changes nothing keeps the invariant.
LEMMA Stutters ==
    ASSUME Inv, UNCHANGED vars
    PROVE  Inv' /\ Refined
<1>1. Still
  BY DEF vars, Still, D_vars, J_vars, cache, jrnl, PagerUnchanged
<1>2. /\ TypeInv' <=> TypeInv
      /\ HandlesInv' <=> HandlesInv
      /\ FilesInv' <=> FilesInv
  BY <1>1, StillFacts DEF TypeInv, HandlesInv, DbHandle, JournalHandle, FilesInv
<1>3. Inv'  BY <1>1, <1>2, PhaseStill, Zenon DEF Inv
<1>4. Refined  BY <1>1, StillFacts DEF Refined, Tx, Now
<1> QED  BY <1>3, <1>4

\* Between two functions eState tells what the pager is doing.
LEMMA PhasesApart ==
    /\ OpenInv => eState = "OPEN"
    /\ ReaderInv => eState = "READER"
    /\ LockedInv => eState = "WRITER_LOCKED"
    /\ WriterInv => eState \in {"WRITER_CACHEMOD", "WRITER_DBMOD"}
  BY DEF OpenInv, ReaderInv, LockedInv, WriterInv, ModeInv

\* A function of the pager begins, or the process is killed between two.
LEMMA IdleStep ==
    ASSUME Modes, Inv, IdleInv, Next
    PROVE  Inv' /\ Refined
<1>1. Idle  BY DEF IdleInv
<1>2. /\ Recovers
      /\ \/ Connect
         \/ /\ UNCHANGED pragma
            /\ \/ Disconnect \/ SharedLock \/ EndRead \/ Begin
               \/ \E p \in 1..MaxPages : Write(p) \/ Spill(p)
               \/ CommitUnchanged \/ Commit \/ RollbackUnchanged \/ Rollback
               \/ Kill
  BY <1>1, IdleNext, Zenon
<1>3. CASE Connect  BY <1>2, <1>3, ConnectStep, Zenon
<1>4. SUFFICES ASSUME UNCHANGED pragma,
           \/ Disconnect \/ SharedLock \/ EndRead \/ Begin
           \/ \E p \in 1..MaxPages : Write(p) \/ Spill(p)
           \/ CommitUnchanged \/ Commit \/ RollbackUnchanged \/ Rollback
           \/ Kill
       PROVE  Inv' /\ Refined
  BY <1>2, <1>3, Zenon
<1>5. OpenInv \/ ReaderInv \/ LockedInv \/ WriterInv  BY Zenon DEF IdleInv
<1>6. CASE Disconnect  BY <1>2, <1>4, <1>6, DisconnectStep, Zenon
<1>7. CASE SharedLock  BY <1>2, <1>4, <1>7, SharedLockStarts, Zenon
<1>8. CASE EndRead
  <2>1. ReaderInv  BY <1>5, <1>8, PhasesApart DEF EndRead
  <2> QED  BY <1>2, <1>4, <1>8, <2>1, EndReadStep, Zenon
<1>9. CASE Begin
  <2>1. ReaderInv  BY <1>5, <1>9, PhasesApart DEF Begin
  <2> QED  BY <1>2, <1>4, <1>9, <2>1, BeginStep, Zenon
<1>10. ASSUME NEW p \in 1..MaxPages, Write(p) PROVE Inv' /\ Refined
  <2>1. LockedInv \/ WriterInv
    <3>1. eState \in Writing  BY <1>10 DEF Write
    <3> QED  BY <1>5, <3>1, PhasesApart DEF Writing
  <2>2. CASE LockedInv  BY <1>1, <1>2, <1>4, <1>10, <2>2, WriteFirst, Zenon
  <2>3. CASE WriterInv  BY <1>1, <1>2, <1>4, <1>10, <2>3, WriteNext, Zenon
  <2> QED  BY <2>1, <2>2, <2>3
<1>11. ASSUME NEW p \in 1..MaxPages, Spill(p) PROVE Inv' /\ Refined
  <2>1. WriterInv
    <3>1. eState \in {"WRITER_CACHEMOD", "WRITER_DBMOD"}  BY <1>11 DEF Spill
    <3> QED  BY <1>5, <3>1, PhasesApart
  <2> QED  BY <1>1, <1>2, <1>4, <1>11, <2>1, SpillStep, Zenon
<1>12. CASE CommitUnchanged \/ RollbackUnchanged
  <2>1. LockedInv
    <3>1. eState = "WRITER_LOCKED"  BY <1>12 DEF CommitUnchanged, RollbackUnchanged
    <3> QED  BY <1>5, <3>1, PhasesApart
  <2> QED  BY <1>2, <1>4, <1>12, <2>1, UnchangedStep, Zenon
<1>13. CASE Commit
  <2>1. WriterInv
    <3>1. eState \in {"WRITER_CACHEMOD", "WRITER_DBMOD"}  BY <1>13 DEF Commit
    <3> QED  BY <1>5, <3>1, PhasesApart
  <2> QED  BY <1>1, <1>2, <1>4, <1>13, <2>1, CommitStep, Zenon
<1>14. CASE Rollback
  <2>1. WriterInv
    <3>1. eState \in {"WRITER_CACHEMOD", "WRITER_DBMOD"}  BY <1>14 DEF Rollback
    <3> QED  BY <1>5, <3>1, PhasesApart
  <2> QED  BY <1>1, <1>2, <1>4, <1>14, <2>1, RollbackStep, Zenon
<1>15. CASE Kill  BY <1>1, <1>2, <1>4, <1>15, IdleKilled, Zenon
<1> QED  BY <1>4, <1>6, <1>7, <1>8, <1>9, <1>10, <1>11, <1>12, <1>13, <1>14, <1>15, Zenon

\* The invariant is inductive, and every step is one of Transactions or a stutter.
LEMMA Steps ==
    ASSUME Modes, Inv, [Next]_vars
    PROVE  Inv' /\ Refined
<1>1. CASE UNCHANGED vars  BY <1>1, Stutters
<1>2. CASE Next
  <2>1. Phase  BY DEF Inv
  <2>2. CASE IdleInv  BY <1>2, <2>2, IdleStep, Zenon
  <2>3. CASE OpeningInv  BY <1>2, <2>3, OpeningStep, Zenon
  <2>4. CASE RecordingInv  BY <1>2, <2>4, RecordingStep, Zenon
  <2>5. CASE CommittingInv  BY <1>2, <2>5, CommittingStep, Zenon
  <2>6. CASE SyncingInv  BY <1>2, <2>5, <2>6, SyncingStep, Zenon
  <2>7. CASE SpillingInv  BY <1>2, <2>7, SpillingStep, Zenon
  <2>8. CASE UndoInv  BY <1>2, <2>8, UndoStep, Zenon
  <2>9. CASE SharedLockInv  BY <1>2, <2>9, SharedLockStep, Zenon
  <2>10. CASE UnlockInv  BY <1>2, <2>10, UnlockStep, Zenon
  <2> QED  BY <2>1, <2>2, <2>3, <2>4, <2>5, <2>6, <2>7, <2>8, <2>9, <2>10, Zenon DEF Phase
<1> QED  BY <1>1, <1>2

\* No file is there yet.
LEMMA Starts ==
    ASSUME Init
    PROVE  Inv
<1>1. /\ eState = "OPEN" /\ image = << >> /\ dirty = {} /\ need_sync = {}
      /\ pInJournal = {} /\ nRec = 0 /\ journalOff = 0 /\ journalHdr = 0
      /\ dbOrigSize = 0 /\ calls = << >> /\ before = << >> /\ reply = "none" /\ txs = 0
      /\ recovered = << >> /\ pragma \in Pragmas
      /\ ~db_open /\ db_size = 0 /\ ~db_dirty /\ db_open \in BOOLEAN /\ db_dirty \in BOOLEAN
      /\ ~j_open /\ j_size = 0 /\ ~j_dirty /\ j_open \in BOOLEAN /\ j_dirty \in BOOLEAN
      /\ j_data = << >> /\ db_key = NoFile /\ j_key = NoFile
  BY DEF Init, D!Init, J!Init
<1>2. DbSize = 0 /\ StoredJournal = << >>
  BY <1>1 DEF DbSize, D!StoredSize, StoredJournal, JournalExists
<1>3. << >> \in Seq(Nat) /\ Len(<< >>) = 0 /\ MaxPages \in Nat /\ MaxJournal \in Nat
  BY BoundsAssumption
<1>4. TypeInv
  <2>1. /\ recovered \in Seq(Nat) /\ Len(recovered) <= MaxPages
        /\ image \in Seq(Nat) /\ Len(image) <= MaxPages
        /\ before \in Seq(Nat) /\ Len(before) <= MaxPages
    BY <1>1, <1>3
  <2>2. /\ txs \in Nat /\ pragma \in Pragmas /\ reply \in {"none", "OK", "ERROR"}
        /\ journalHdr \in Nat /\ journalOff \in Nat /\ nRec \in Nat
        /\ journalHdr <= journalOff /\ journalOff <= MaxJournal
    BY <1>1, <1>3
  <2> QED  BY <2>1, <2>2 DEF TypeInv
<1>5. HandlesInv
  <2>1. DbHandle  BY <1>1, <1>2 DEF DbHandle
  <2>2. JournalHandle  BY <1>1, <1>2, <1>3 DEF JournalHandle
  <2> QED  BY <2>1, <2>2 DEF HandlesInv
<1>6. CleanNow /\ ~ValidNow
  <2>1. ~Valid(<< >>)  BY ValidFacts, <1>3
  <2>2. Same(<< >>, Cells, {})  BY <1>3 DEF Same
  <2>3. Clean(<< >>, Cells, 0, << >>)  BY <1>3, <2>1, <2>2 DEF Clean, Dead
  <2> QED  BY <1>1, <1>2, <2>1, <2>3, Zenon DEF CleanNow, ValidNow
<1>7. FilesInv  BY <1>6 DEF FilesInv, Files, CleanNow
<1>8. OpenInv
  <2>1. Forgotten  BY <1>1 DEF Forgotten
  <2> QED  BY <1>1, <1>6, <2>1 DEF OpenInv
<1>9. Phase
  <2>1. Idle  BY <1>1 DEF Idle
  <2> QED  BY <1>1, <1>8, <2>1 DEF Phase, IdleInv
<1> QED  BY <1>4, <1>5, <1>7, <1>9 DEF Inv

-----------------------------------------------------------------------------
(* Which call is next.                                                     *)

\* The next call of a list.
LEMMA NowIs ==
    ASSUME NEW a, NEW s, IsList(s), calls = Cons(a, s)
    PROVE  ~Idle /\ \A op : Now(op) <=> a.op = op
<1>1. calls # << >> /\ Head(calls) = a  BY ConsFacts
<1> QED  BY <1>1, Zenon DEF Idle, Now

\* The next call of a list of one.
LEMMA NowSingle ==
    ASSUME NEW a, calls = <<a>>
    PROVE  ~Idle /\ \A op : Now(op) <=> a.op = op
<1>1. calls # << >> /\ Head(calls) = a  BY ListFacts
<1> QED  BY <1>1, Zenon DEF Idle, Now

\* pager_open_journal writes to the journal only.
LEMMA OpeningCalls ==
    ASSUME OpeningInv
    PROVE  ~Idle /\ ~Now("write_db")
<1>1. PICK rest \in {<< >>} \cup {<<OrigRecord(Sector, p)>> : p \in pInJournal} :
         calls = Cons(OpenJ, Cons(FirstHeader, rest)) \/ calls = Cons(FirstHeader, rest)
  BY Zenon DEF OpeningInv
<1>2. IsList(rest)
  <2>1. CASE rest = << >>  BY <2>1, ListFacts, Zenon
  <2>2. CASE \E p \in pInJournal : rest = <<OrigRecord(Sector, p)>>  BY <2>2, ListFacts, Zenon
  <2> QED  BY <1>1, <2>1, <2>2, Zenon
<1>3. IsList(Cons(FirstHeader, rest))  BY <1>2, ConsFacts, Zenon
<1>4. OpenJ.op # "write_db" /\ FirstHeader.op # "write_db"  BY OpFacts DEF FirstHeader
<1>5. CASE calls = Cons(OpenJ, Cons(FirstHeader, rest))  BY <1>3, <1>4, <1>5, NowIs, Zenon
<1>6. CASE calls = Cons(FirstHeader, rest)  BY <1>2, <1>4, <1>6, NowIs, Zenon
<1> QED  BY <1>1, <1>5, <1>6, Zenon

\* pagerAddPageToRollbackJournal writes to the journal only.
LEMMA RecordingCalls ==
    ASSUME RecordingInv
    PROVE  ~Idle /\ ~Now("write_db")
<1>1. PICK p \in need_sync \cap 1..dbOrigSize : calls = <<OrigRecord(journalOff - Sector, p)>>
  BY Zenon DEF RecordingInv
<1>2. OrigRecord(journalOff - Sector, p).op # "write_db"  BY OpFacts DEF OrigRecord
<1> QED  BY <1>1, <1>2, NowSingle, Zenon

\* syncJournal writes to the journal; a page is next only when it is done.
LEMMA SyncingCalls ==
    ASSUME Modes, Inv, SyncingInv
    PROVE  ~Idle /\ (Now("write_db") => CommittingInv)
<1>1. PICK rest \in Rests :
         /\ Purpose(rest)
         /\ \/ \E h, n \in 0..journalHdr : SyncStage(h, n, rest)
            \/ /\ calls = rest /\ journalHdr > 0
               /\ Sealed(j_data, before, txs, journalHdr, pInJournal) /\ SafeNow(journalHdr)
  BY Zenon DEF SyncingInv
<1>2. IsList(rest)  BY <1>1, RestsAreLists
<1>3. ASSUME NEW h, NEW n, SyncStage(h, n, rest) PROVE ~Idle /\ ~Now("write_db")
  <2>1. /\ IsList(Magics(h, n, rest)) /\ IsList(Syncs(h, n, rest)) /\ IsList(Checks(h, n, rest))
        /\ IsList(Cons(SyncJ, rest))
    BY <1>2, SyncLists, Zenon
  <2>2. /\ \A at, data : WriteJ(at, data).op # "write_db"
        /\ \A at : CheckJ(at).op # "write_db"
        /\ SyncJ.op # "write_db"
        /\ OrigRecord(journalHdr - Sector, 1).op # "write_db"
    BY OpFacts DEF OrigRecord
  <2>3. CASE calls = Cons(OrigRecord(journalHdr - Sector, 1), Checks(h, n, rest))
    BY <2>1, <2>2, <2>3, NowIs, Zenon
  <2>4. CASE calls = Magics(h, n, rest)
    <3>1. PICK a : a = WriteJ(h, <<Magic(n)>>)  OBVIOUS
    <3>2. calls = Cons(a, Cons(SyncJ, rest))  BY <2>4, <3>1, Zenon DEF Magics
    <3>3. a.op # "write_db"  BY <2>2, <3>1, Zenon
    <3> QED  BY <2>1, <3>2, <3>3, NowIs, Zenon
  <2>5. CASE calls = Cons(SyncJ, Magics(h, n, rest))
    BY <2>1, <2>2, <2>5, NowIs, Zenon
  <2>6. CASE calls = Syncs(h, n, rest)
    <3>1. calls = Cons(SyncJ, Magics(h, n, rest)) \/ calls = Magics(h, n, rest)
      BY <2>6, Zenon DEF Syncs
    <3> QED  BY <2>4, <2>5, <3>1, Zenon
  <2>7. CASE calls = Checks(h, n, rest)
    <3>1. PICK a, t : a = CheckJ(journalHdr) /\ t = Syncs(h, n, rest)  OBVIOUS
    <3>2. calls = Cons(a, t)  BY <2>7, <3>1, Zenon DEF Checks
    <3>3. a.op # "write_db" /\ IsList(t)  BY <2>1, <2>2, <3>1, Zenon
    <3> QED  BY <3>2, <3>3, NowIs, Zenon
  <2>8. CASE calls = Cons(SyncJ, rest)
    BY <1>2, <2>2, <2>8, NowIs, Zenon
  <2>9. \/ calls = Cons(OrigRecord(journalHdr - Sector, 1), Checks(h, n, rest))
        \/ calls = Magics(h, n, rest) \/ calls = Syncs(h, n, rest) \/ calls = Checks(h, n, rest)
        \/ calls = Cons(SyncJ, rest)
    BY <1>3, Zenon DEF SyncStage
  <2> QED  BY <2>3, <2>4, <2>6, <2>7, <2>8, <2>9, Zenon
<1>4. CASE \E h, n \in 0..journalHdr : SyncStage(h, n, rest)
  BY <1>3, <1>4, Zenon
<1>5. CASE /\ calls = rest /\ journalHdr > 0
           /\ Sealed(j_data, before, txs, journalHdr, pInJournal) /\ SafeNow(journalHdr)
  <2>1. CASE rest = CommitRest /\ CacheInv({}) /\ 1 \in dirty
    <3>1. TxModified  BY DEF SyncingInv
    <3>2. CommittingInv  BY <1>5, <2>1, <3>1, SyncedCommits, Zenon
    <3>3. calls # << >>  BY <1>5, <2>1, CommitsFacts, Zenon DEF CommitRest
    <3> QED  BY <3>2, <3>3 DEF Idle
  <2>2. ASSUME NEW p, rest = SpillRest(p) PROVE ~Idle /\ ~Now("write_db")
    <3>1. PICK a, s : /\ a = WriteJ(journalHdr, Header(dbOrigSize))
                      /\ s = <<WriteD(Pagelist({p}, image), FALSE)>>
      OBVIOUS
    <3>2. calls = Cons(a, s)  BY <1>5, <2>2, <3>1, Zenon DEF SpillRest
    <3>3. IsList(s)  BY <3>1, ListFacts, Zenon
    <3>4. a.op # "write_db"  BY <3>1, OpFacts
    <3> QED  BY <3>2, <3>3, <3>4, NowIs, Zenon
  <2> QED  BY <1>1, <2>1, <2>2, Zenon DEF Purpose
<1> QED  BY <1>1, <1>4, <1>5, Zenon

\* Ending a transaction writes no page.
LEMMA EndingCalls ==
    ASSUME NEW z, calls = Cons(SyncD, Finalize(z)) \/ calls = Finalize(z) \/ calls = Ending(z)
    PROVE  ~Idle /\ ~Now("write_db")
<1>1. ~Now("write_db")  BY NothingLeft, Zenon
<1>2. PICK e, f : e = Ending(z) /\ f = Finalize(z)  OBVIOUS
<1>3. IsList(e) /\ IsList(f) /\ IsList(<<z>>)  BY <1>2, FinalizeList, ListFacts, Zenon
<1>4. f = Cons(FirstEnd, e) /\ e = Cons(LastEnd, <<z>>)  BY <1>2, Zenon DEF Finalize, Ending
<1>5. CASE calls = Cons(SyncD, f)  BY <1>1, <1>3, <1>5, NowIs, Zenon
<1>6. CASE calls = f  BY <1>1, <1>3, <1>4, <1>6, NowIs, Zenon
<1>7. CASE calls = e  BY <1>1, <1>3, <1>4, <1>7, NowIs, Zenon
<1> QED  BY <1>2, <1>5, <1>6, <1>7, Zenon

\* COMMIT has calls to make.
LEMMA CommittingCalls ==
    ASSUME CommittingInv
    PROVE  ~Idle
<1>1. CASE calls = Commits(Todo)
  <2>1. calls # << >>  BY <1>1, CommitsFacts, Zenon
  <2> QED  BY <2>1 DEF Idle
<1>2. CASE calls \in {Cons(SyncD, Finalize(Unlock("OK"))), Finalize(Unlock("OK")), Ending(Unlock("OK"))}
  <2>1. PICK z : z = Unlock("OK")  OBVIOUS
  <2>2. calls = Cons(SyncD, Finalize(z)) \/ calls = Finalize(z) \/ calls = Ending(z)  BY <1>2, <2>1, Zenon
  <2> QED  BY <2>2, EndingCalls, Zenon
<1> QED  BY <1>1, <1>2, Zenon DEF CommittingInv

\* A spill has its page to write.
LEMMA SpillingCalls ==
    ASSUME SpillingInv
    PROVE  ~Idle
<1>1. PICK p : calls = <<WriteD(Pagelist({p}, image), FALSE)>>  BY Zenon DEF SpillingInv
<1> QED  BY <1>1, NowSingle, Zenon

\* pager_unlock writes no page.
LEMMA UnlockCalls ==
    ASSUME UnlockInv
    PROVE  ~Idle /\ ~Now("write_db")
<1>1. PICK a : calls = <<Unlock(a)>>  BY Zenon DEF UnlockInv
<1>2. Unlock(a).op # "write_db"  BY OpFacts
<1> QED  BY <1>1, <1>2, NowSingle, Zenon

\* sqlite3PagerSharedLock writes no page before the playback.
LEMMA SharedLockCallsNow ==
    ASSUME SharedLockInv
    PROVE  ~Idle /\ ~Now("write_db")
<1>1. PICK r, s : r = Cons(ReadJ, <<Reader>>) /\ s = Cons(SyncJ, r)  OBVIOUS
<1>2. IsList(<<Reader>>) /\ IsList(r) /\ IsList(s)  BY <1>1, ListFacts, ConsFacts, Zenon
<1>3. /\ DeleteJ.op # "write_db" /\ OpenJ.op # "write_db" /\ SyncJ.op # "write_db"
      /\ ReadJ.op # "write_db"
  BY OpFacts
<1>4. CASE calls = Cons(DeleteJ, <<Reader>>)  BY <1>2, <1>3, <1>4, NowIs, Zenon
<1>5. CASE calls = Cons(OpenJ, s)  BY <1>2, <1>3, <1>5, NowIs, Zenon
<1>6. CASE calls = s  BY <1>1, <1>2, <1>3, <1>6, NowIs, Zenon
<1>7. CASE calls = r  BY <1>1, <1>2, <1>3, <1>7, NowIs, Zenon
<1> QED  BY <1>1, <1>4, <1>5, <1>6, <1>7, Zenon DEF SharedLockInv

\* A playback writes pages from the hot journal only.
LEMMA UndoCalls ==
    ASSUME UndoInv
    PROVE  /\ ~Idle
           /\ Now("write_db") =>
                \E z \in {Reader, Unlock("none"), Unlock("ERROR")}, todo \in {Head(calls).todo} :
                  /\ Ends(z) /\ HotNow
                  /\ calls = Undoes(todo, z) /\ Originals(todo)
<1>1. PICK z \in {Reader, Unlock("none"), Unlock("ERROR")} :
      /\ Ends(z)
      /\ \/ /\ HotNow
            /\ \/ calls = Cons(TruncateD(Len(recovered)), Cons(SyncD, Finalize(z)))
               \/ \E todo : calls = Cons(TruncateD(Len(recovered)), Undoes(todo, z))
               \/ /\ Now("write_db") /\ \E todo \in {Head(calls).todo} :
                     /\ calls = Undoes(todo, z)
                     /\ Originals(todo)
         \/ calls = Cons(SyncD, Finalize(z))
         \/ calls = Finalize(z)
         \/ calls = Cons(SyncD, <<Reader>>)
         \/ calls = Ending(z)
         \/ calls = <<z>>
  BY Zenon DEF UndoInv
<1>2. \A n : TruncateD(n).op # "write_db"  BY OpFacts
<1>3. SyncD.op # "write_db" /\ z.op # "write_db"  BY OpFacts
<1>4. CASE calls = Cons(TruncateD(Len(recovered)), Cons(SyncD, Finalize(z)))
  <2>1. PICK a, t : a = TruncateD(Len(recovered)) /\ t = Cons(SyncD, Finalize(z))  OBVIOUS
  <2>2. IsList(t)  BY <2>1, FinalizeList, Zenon
  <2>3. calls = Cons(a, t) /\ a.op # "write_db"  BY <1>2, <1>4, <2>1, Zenon
  <2>4. ~Idle /\ ~Now("write_db")  BY <2>2, <2>3, NowIs, Zenon
  <2> QED  BY <2>4
<1>5. ASSUME NEW todo, calls = Cons(TruncateD(Len(recovered)), Undoes(todo, z))
      PROVE  ~Idle /\ ~Now("write_db")
  <2>1. PICK a, t : a = TruncateD(Len(recovered)) /\ t = Undoes(todo, z)  OBVIOUS
  <2>2. IsList(t)  BY <2>1, UndoesFacts, Zenon
  <2>3. calls = Cons(a, t) /\ a.op # "write_db"  BY <1>2, <1>5, <2>1, Zenon
  <2> QED  BY <2>2, <2>3, NowIs, Zenon
<1>6. CASE calls = Cons(SyncD, Finalize(z)) \/ calls = Finalize(z) \/ calls = Ending(z)
  <2>1. ~Idle /\ ~Now("write_db")  BY <1>6, EndingCalls, Zenon
  <2> QED  BY <2>1
<1>7. CASE calls = Cons(SyncD, <<Reader>>)
  <2>1. IsList(<<Reader>>)  BY ListFacts, Zenon
  <2>2. ~Idle /\ ~Now("write_db")  BY <1>3, <1>7, <2>1, NowIs, Zenon
  <2> QED  BY <2>2
<1>8. CASE calls = <<z>>
  <2>1. ~Idle /\ ~Now("write_db")  BY <1>3, <1>8, NowSingle, Zenon
  <2> QED  BY <2>1
<1>9. CASE /\ HotNow /\ Now("write_db")
           /\ \E todo \in {Head(calls).todo} : calls = Undoes(todo, z) /\ Originals(todo)
  <2>1. ~Idle  BY <1>9 DEF Now, Idle
  <2> QED  BY <1>1, <1>9, <2>1, Zenon
<1> QED  BY <1>1, <1>4, <1>5, <1>6, <1>7, <1>8, <1>9, Zenon

\* Between two statements no call is open.
LEMMA IdlePhase ==
    ASSUME Modes, Inv, Idle
    PROVE  IdleInv
BY OpeningCalls, RecordingCalls, SyncingCalls, SpillingCalls, CommittingCalls, UndoCalls,
   SharedLockCallsNow, UnlockCalls, Zenon DEF Inv, Phase

-----------------------------------------------------------------------------
(* Pages are overwritten.                                                  *)

\* The pages a playback writes are in the stored journal.
LEMMA UndoOverwrites ==
    ASSUME Inv, UndoInv, Now("write_db"), NEW p, p \in 1..Len(before), PageToWrite.pgno = p
    PROVE  HotNow /\ before = recovered /\ p \in PlayedPages(StoredJournal, NoHeader)
<1>1. PICK z \in {Reader, Unlock("none"), Unlock("ERROR")}, todo \in {Head(calls).todo} :
           /\ Ends(z) /\ HotNow
           /\ calls = Undoes(todo, z) /\ Originals(todo)
  BY UndoCalls, Zenon
<1>2. recovered \in Seq(Nat) /\ Len(recovered) <= MaxPages  BY DEF Inv, TypeInv
<1>3. PICK k \in DOMAIN todo : PageToWrite = todo[k]
  <2>1. PICK s : s = Cons(SyncD, Finalize(z))  OBVIOUS
  <2>2. IsList(s)  BY <2>1, FinalizeList, Zenon
  <2>3. PICK c : c = FALSE  OBVIOUS
  <2>4. calls = Cons(WriteD(todo, c), s)  BY <1>1, <2>1, <2>3, Zenon DEF Undoes
  <2>5. DOMAIN todo \subseteq Nat /\ DOMAIN todo # {}  BY <1>1, Zenon DEF Originals
  <2> QED  BY <2>2, <2>4, <2>5, WritingNext, Zenon
<1>4. p \in PlayedPages(StoredJournal, NoHeader)
  <2>1. PICK q \in 1..Len(recovered) :
             q \in PlayedPages(StoredJournal, NoHeader) /\ todo[k].pgno = q
    <3>1. Originals(todo)  BY <1>1
    <3>2. k \in DOMAIN todo  BY <1>3
    <3> QED  BY <1>2, <3>1, <3>2, OriginalWritten
  <2> QED  BY <1>3, <2>1, Zenon
<1>5. before = recovered
  <2>1. CASE EndsTx  BY <2>1 DEF EndsTx, TxInv
  <2>2. CASE EndsRead
    <3>1. ValidNow  BY <1>1 DEF HotNow, Hot, ValidNow
    <3>2. before # << >>  OBVIOUS
    <3> QED  BY <2>2, <3>1, <3>2 DEF EndsRead
  <2> QED  BY <1>1, <2>1, <2>2, Zenon DEF Ends
<1> QED  BY <1>1, <1>4, <1>5

\* The page that pagerStress writes is in the stored journal, or is new.
LEMMA SpillOverwrites ==
    ASSUME Modes, Inv, SpillingInv, NEW p, p \in 1..Len(before), PageToWrite.pgno = p
    PROVE  HotNow /\ before = recovered /\ p \in PlayedPages(StoredJournal, NoHeader)
<1>1. PICK q \in 1..Len(image) :
         /\ calls = <<WriteD(Pagelist({q}, image), FALSE)>>
         /\ q \in Recorded(j_data, journalHdr) \/ q > dbOrigSize
  BY Zenon DEF SpillingInv
<1>2. TxModified /\ TxInv /\ journalHdr > 0 /\ UnsealedAt(journalHdr, nRec, pInJournal)
  BY DEF SpillingInv, TxModified
<1>3. /\ before \in Seq(Nat) /\ before = recovered /\ Len(before) <= MaxPages /\ Len(before) \in Nat
      /\ txs \in Nat \ {0} /\ j_data \in Seq(Nat) /\ StoredJournal \in Seq(Nat)
      /\ journalHdr \in Nat /\ dbOrigSize = Len(before) /\ DbSize \in Nat /\ Len(image) \in Nat
  BY <1>2, CommitContext
<1>4. q \in Nat  BY <1>3
<1>5. p = q  BY <1>1, <1>4, SpillPage
<1>6. p \in Recorded(j_data, journalHdr)  BY <1>1, <1>3, <1>5
<1>7. /\ Safe(before, Cells, DbSize, StoredJournal, j_data, journalHdr)
      /\ Begun(j_data, before, txs) /\ Chained(j_data, journalHdr)
  BY <1>2 DEF UnsealedAt, SafeNow, Unsealed
<1>8. HotNow
  <2>1. Hot(before, Cells, DbSize, StoredJournal)  BY <1>2, <1>3, <1>7, SafeHot
  <2> QED  BY <1>3, <2>1, Zenon DEF HotNow
<1>9. p \in PlayedPages(StoredJournal, NoHeader)
  BY <1>2, <1>3, <1>6, <1>7, SafePlayed
<1> QED  BY <1>3, <1>8, <1>9

\* The pages that COMMIT writes are in the stored journal, or are new.
LEMMA CommitOverwrites ==
    ASSUME Modes, Inv, CommittingInv, Now("write_db"), NEW p, p \in 1..Len(before), PageToWrite.pgno = p
    PROVE  HotNow /\ before = recovered /\ p \in PlayedPages(StoredJournal, NoHeader)
<1>1. TxInv /\ HotNow  BY DEF CommittingInv
<1>2. /\ before \in Seq(Nat) /\ before = recovered /\ Len(before) <= MaxPages /\ Len(before) \in Nat
      /\ txs \in Nat \ {0} /\ j_data \in Seq(Nat) /\ StoredJournal \in Seq(Nat)
      /\ journalHdr \in Nat /\ dbOrigSize = Len(before) /\ DbSize \in Nat /\ Len(image) \in Nat
  BY <1>1, CommitContext
<1>3. /\ calls = Commits(Todo)
      /\ DOMAIN Todo \subseteq Nat /\ DOMAIN Todo # {}
      /\ \A k \in DOMAIN Todo : \E q \in 1..Len(image) :
             Todo[k] = Entry(q) /\ (q \in pInJournal \/ q > dbOrigSize)
      /\ journalHdr > 0
      /\ Sealed(j_data, before, txs, journalHdr, pInJournal) /\ SafeNow(journalHdr)
  <2>1. PICK z : z = Unlock("OK")  OBVIOUS
  <2>2. ~(calls = Cons(SyncD, Finalize(z)) \/ calls = Finalize(z) \/ calls = Ending(z))
    BY EndingCalls, Zenon
  <2> QED  BY <2>1, <2>2, Zenon DEF CommittingInv
<1>4. PICK todo : todo = Todo  OBVIOUS
<1>5. PICK k \in DOMAIN todo : PageToWrite = todo[k]
  <2>1. PICK s : s = Cons(SyncD, Finalize(Unlock("OK")))  OBVIOUS
  <2>2. IsList(s)  BY <2>1, FinalizeList, Zenon
  <2>3. PICK c : c = TRUE  OBVIOUS
  <2>4. calls = Cons(WriteD(todo, c), s)  BY <1>3, <1>4, <2>1, <2>3, Zenon DEF Commits
  <2>5. DOMAIN todo \subseteq Nat /\ DOMAIN todo # {}  BY <1>3, <1>4, Zenon
  <2> QED  BY <2>2, <2>4, <2>5, WritingNext, Zenon
<1>6. PICK q \in 1..Len(image) : todo[k] = Entry(q) /\ (q \in pInJournal \/ q > dbOrigSize)
  BY <1>3, <1>4, <1>5, Zenon
<1>7. p = q
  <2>1. Entry(q).pgno = q  BY EntriesHold, Zenon DEF EntryFacts
  <2> QED  BY <1>5, <1>6, <2>1, Zenon
<1>8. p \in pInJournal  BY <1>2, <1>6, <1>7
<1>9. /\ Safe(before, Cells, DbSize, StoredJournal, j_data, journalHdr)
      /\ Begun(j_data, before, txs) /\ Chained(j_data, journalHdr)
      /\ p \in Recorded(j_data, journalHdr)
  BY <1>3, <1>8 DEF SafeNow, Sealed
<1>10. p \in PlayedPages(StoredJournal, NoHeader)
  BY <1>2, <1>3, <1>9, SafePlayed
<1> QED  BY <1>1, <1>2, <1>10

\* Whoever writes to the database file, the journal has the page.
LEMMA Journaled ==
    ASSUME Modes, Inv, Now("write_db"), NEW p, p \in 1..Len(before), PageToWrite.pgno = p
    PROVE  /\ IsHot(Len(before), StoredJournal)
           /\ \E at \in Played(StoredJournal, NoHeader) :
                 StoredJournal[at + 1] = p /\ StoredJournal[at + 2] = before[p]
<1>1. HotNow /\ before = recovered /\ p \in PlayedPages(StoredJournal, NoHeader)
  <2>1. ~Idle  BY DEF Now, Idle
  <2>2. Phase  BY DEF Inv
  <2>3. ~IdleInv  BY <2>1 DEF IdleInv
  <2>4. CASE UndoInv  BY <2>4, UndoOverwrites, Zenon
  <2>5. CASE SpillingInv  BY <2>5, SpillOverwrites, Zenon
  <2>6. CASE CommittingInv  BY <2>6, CommitOverwrites, Zenon
  <2>7. SyncingInv => CommittingInv  BY SyncingCalls, Zenon
  <2>8. ~OpeningInv /\ ~RecordingInv /\ ~SharedLockInv /\ ~UnlockInv
    BY OpeningCalls, RecordingCalls, SharedLockCallsNow, UnlockCalls, Zenon
  <2> QED  BY <2>2, <2>3, <2>4, <2>5, <2>6, <2>7, <2>8, Zenon DEF Phase
<1>2. recovered \in Seq(Nat) /\ StoredJournal \in Seq(Nat)
  BY DEF Inv, TypeInv, HandlesInv, JournalHandle
<1>3. Valid(StoredJournal) /\ StoredJournal[2] = Len(recovered) /\ Sound(StoredJournal, recovered)
  BY <1>1 DEF HotNow, Hot
<1>4. IsHot(Len(before), StoredJournal)
  <2>1. Len(before) \in Nat /\ Len(before) > 0  BY <1>1, <1>2
  <2> QED  BY <1>2, <1>3, <2>1, ValidFacts
<1>5. PICK at \in Played(StoredJournal, NoHeader) : StoredJournal[at + 1] = p
  BY <1>1 DEF PlayedPages, PagesAt
<1>6. StoredJournal[at + 2] = before[p]
  BY <1>1, <1>2, <1>3, <1>5, PlayedSound
<1> QED  BY <1>4, <1>5, <1>6

\* Outside a transaction the pager keeps nothing of the pages.
LEMMA ForgottenBooks ==
    ASSUME Forgotten
    PROVE  Books
BY DEF Forgotten, Books

\* The books of a transaction that writes.
LEMMA CacheBooks ==
    ASSUME NEW pages, CacheInv(pages)
    PROVE  Books
BY DEF CacheInv, Books

\* The books are right in every phase.
LEMMA PhaseBooks ==
    ASSUME Inv
    PROVE  Books /\ eState \in Writing \cup {"OPEN", "READER", "ERROR"}
<1>1. Phase  BY DEF Inv
<1>2. OpenInv => Books /\ eState = "OPEN"  BY ForgottenBooks DEF OpenInv
<1>3. ReaderInv => Books /\ eState = "READER"  BY ForgottenBooks DEF ReaderInv
<1>4. LockedInv => Books /\ eState \in Writing
  BY DEF LockedInv, Books, TxInv
<1>5. TxInv => eState \in Writing  BY DEF TxInv
<1>6. CASE IdleInv
  <2>1. WriterInv => Books /\ eState \in Writing  BY <1>5, CacheBooks DEF WriterInv
  <2> QED  BY <1>2, <1>3, <1>4, <1>6, <2>1 DEF IdleInv
<1>7. CASE OpeningInv  BY <1>5, <1>7, CacheBooks DEF OpeningInv
<1>8. CASE RecordingInv  BY <1>5, <1>8, CacheBooks DEF RecordingInv
<1>9. CASE SyncingInv
  <2>1. eState \in Writing  BY <1>5, <1>9 DEF SyncingInv, TxModified
  <2>2. PICK rest \in Rests : Purpose(rest)  BY <1>9, Zenon DEF SyncingInv
  <2>3. PICK pages : CacheInv(pages)  BY <2>2, Zenon DEF Purpose
  <2> QED  BY <2>1, <2>3, CacheBooks
<1>10. CASE SpillingInv
  <2>1. eState \in Writing  BY <1>5, <1>10 DEF SpillingInv, TxModified
  <2>2. PICK pages : CacheInv(pages)  BY <1>10, Zenon DEF SpillingInv
  <2> QED  BY <2>1, <2>2, CacheBooks
<1>11. CASE CommittingInv  BY <1>5, <1>11 DEF CommittingInv
<1>12. CASE UndoInv
  <2>1. PICK z : Ends(z)  BY <1>12, Zenon DEF UndoInv
  <2>2. EndsRead => Books /\ eState = "OPEN"  BY ForgottenBooks DEF EndsRead
  <2>3. EndsTx => Books /\ eState \in Writing  BY <1>5 DEF EndsTx
  <2>4. EndsRead \/ EndsTx  BY <2>1, Zenon DEF Ends
  <2> QED  BY <2>2, <2>3, <2>4
<1>13. CASE SharedLockInv  BY <1>2, <1>13 DEF SharedLockInv
<1>14. CASE UnlockInv
  <2>1. CASE ReaderInv  BY <1>3, <2>1
  <2>2. CASE LockedInv  BY <1>4, <2>2
  <2>3. CASE eState \in Writing /\ Books  BY <2>3
  <2>4. CASE /\ eState = "ERROR" /\ pInJournal \subseteq 1..dbOrigSize
             /\ dirty = {} /\ need_sync = {}
    BY <2>4 DEF Books
  <2> QED  BY <1>14, <2>1, <2>2, <2>3, <2>4, Zenon DEF UnlockInv
<1> QED  BY <1>1, <1>6, <1>7, <1>8, <1>9, <1>10, <1>11, <1>12, <1>13, <1>14, Zenon DEF Phase

\* The invariant implies assert_pager_state.
LEMMA TypesHold ==
    ASSUME Modes, Inv
    PROVE  TypeOK
<1>1. /\ image \in Seq(Nat) /\ Len(image) <= MaxPages
      /\ journalHdr <= journalOff /\ journalOff <= MaxJournal
      /\ reply \in {"none", "OK", "ERROR"}
  BY DEF Inv, TypeInv
<1>2. Books /\ eState \in Writing \cup {"OPEN", "READER", "ERROR"}  BY PhaseBooks
<1>3. DOMAIN image = 1..Len(image)  BY <1>1
<1>4. dirty \subseteq DOMAIN image /\ need_sync \subseteq dirty /\ pInJournal \subseteq 1..dbOrigSize
  BY <1>2, <1>3 DEF Books
<1>5. Idle /\ eState \in {"WRITER_CACHEMOD", "WRITER_DBMOD"} => j_open
  <2>1. SUFFICES ASSUME Idle, eState \in {"WRITER_CACHEMOD", "WRITER_DBMOD"} PROVE j_open
    OBVIOUS
  <2>2. OpenInv \/ ReaderInv \/ LockedInv \/ WriterInv  BY <2>1, IdlePhase DEF IdleInv
  <2>3. WriterInv  BY <2>1, <2>2, PhasesApart
  <2> QED  BY <2>3 DEF WriterInv
<1> QED  BY <1>1, <1>2, <1>4, <1>5 DEF TypeOK

\* The invariant implies that statements read what is committed.
LEMMA ReadsHold ==
    ASSUME Modes, Inv
    PROVE  ReadsWhatIsCommitted
<1>1. SUFFICES ASSUME Idle, eState = "READER" PROVE image = recovered /\ Live = recovered
  BY DEF ReadsWhatIsCommitted
<1>2. OpenInv \/ ReaderInv \/ LockedInv \/ WriterInv  BY <1>1, IdlePhase DEF IdleInv
<1>3. ReaderInv  BY <1>1, <1>2, PhasesApart
<1>4. image = recovered /\ Settled  BY <1>3 DEF ReaderInv
<1>5. recovered \in Seq(Nat) /\ Len(recovered) <= MaxPages  BY DEF Inv, TypeInv
<1> QED  BY <1>4, <1>5, LiveIsRecovered

\* The invariant implies that the answers of COMMIT are true.
LEMMA AnswersHold ==
    ASSUME Inv
    PROVE  AnswersAreTrue
<1>1. Phase  BY DEF Inv
<1>2. TxInv => AnswersAreTrue  BY DEF TxInv, AnswersAreTrue
<1>3. OpenInv => AnswersAreTrue  BY DEF OpenInv, AnswersAreTrue
<1>4. ReaderInv => AnswersAreTrue  BY DEF ReaderInv, AnswersAreTrue
<1>5. CASE IdleInv  BY <1>2, <1>3, <1>4, <1>5 DEF IdleInv, LockedInv, WriterInv
<1>6. CASE OpeningInv \/ RecordingInv  BY <1>2, <1>6 DEF OpeningInv, RecordingInv
<1>7. CASE SyncingInv \/ SpillingInv  BY <1>2, <1>7 DEF SyncingInv, SpillingInv, TxModified
<1>8. CASE CommittingInv  BY <1>2, <1>8 DEF CommittingInv
<1>9. CASE UndoInv
  <2>1. EndsRead \/ EndsTx  BY <1>9, Zenon DEF UndoInv, Ends
  <2>2. EndsRead => AnswersAreTrue  BY DEF EndsRead, AnswersAreTrue
  <2> QED  BY <1>2, <2>1, <2>2 DEF EndsTx
<1>10. CASE SharedLockInv  BY <1>3, <1>10 DEF SharedLockInv
<1>11. CASE UnlockInv
  <2>1. CASE ReaderInv \/ LockedInv  BY <1>2, <1>4, <2>1 DEF LockedInv
  <2>2. CASE reply = "none"  BY <2>2 DEF AnswersAreTrue
  <2>3. CASE reply # "OK" /\ (reply = "ERROR" => before = recovered)
    BY <2>3 DEF AnswersAreTrue
  <2> QED  BY <1>11, <2>1, <2>2, <2>3, Zenon DEF UnlockInv
<1> QED  BY <1>1, <1>5, <1>6, <1>7, <1>8, <1>9, <1>10, <1>11, Zenon DEF Phase

-----------------------------------------------------------------------------

\* In every reachable state the files, the handles and the calls still to be made
\* agree: whatever the pager is doing, a recovery finds the committed database.
THEOREM Invariant ==
    ASSUME Modes
    PROVE  Spec => []Inv
<1>1. Init => Inv  BY Starts
<1>2. Inv /\ [Next]_vars => Inv'  BY Steps
<1> QED  BY <1>1, <1>2, PTL DEF Spec

\* assert_pager_state holds, for every number of pages and of transactions.
THEOREM TypeCorrect ==
    ASSUME Modes
    PROVE  Spec => []TypeOK
<1>1. Inv => TypeOK  BY TypesHold
<1> QED  BY <1>1, Invariant, PTL

\* A statement that reads sees what is committed: sqlite3PagerSharedLock plays a
\* hot journal back, and drops a cache that is not of this file.
THEOREM StatementsReadCommits ==
    ASSUME Modes
    PROVE  Spec => []ReadsWhatIsCommitted
<1>1. Inv => ReadsWhatIsCommitted  BY ReadsHold
<1> QED  BY <1>1, Invariant, PTL

\* A COMMIT that answered SQLITE_OK is in the files, and one that answered an
\* error has left nothing there.
THEOREM RepliesAreTrue ==
    ASSUME Modes
    PROVE  Spec => []AnswersAreTrue
<1>1. Inv => AnswersAreTrue  BY AnswersHold
<1> QED  BY <1>1, Invariant, PTL

\* Invariant (1) of pager.c: a page is overwritten only when its original is in
\* the journal that idbvfs has stored, where a recovery would play it back.
THEOREM JournalsFirst ==
    ASSUME Modes
    PROVE  Spec => OverwrittenOnlyWhenJournaled
<1> DEFINE A == \A p \in 1..Len(before) :
         CallDatabase /\ Now("write_db") /\ PageToWrite.pgno = p
         => /\ IsHot(Len(before), StoredJournal)
            /\ \E at \in Played(StoredJournal, NoHeader) :
                  StoredJournal[at + 1] = p /\ StoredJournal[at + 2] = before[p]
<1>1. Inv => [A]_vars
  <2>1. Inv => A  BY Journaled
  <2> QED  BY <2>1
<1>2. Spec => [][A]_vars
  <2> HIDE DEF A
  <2> QED  BY <1>1, Invariant, PTL
<1> QED  BY <1>2 DEF OverwrittenOnlyWhenJournaled

\* SQLite over idbvfs implements Transactions: killed in any call, inside a store
\* of a page or of a journal that is not hot, and whatever write fails, a
\* transaction is there whole or not at all.
THEOREM TransactionsAreAtomic ==
    ASSUME Modes
    PROVE  Spec => Atomic
<1>1. Init => Transaction!Init
  <2>1. Init => recovered = << >> /\ Tx = NoTx  BY DEF Init, Tx, Writing
  <2>2. << >> \in Seq(Nat)  OBVIOUS
  <2> QED  BY <2>1, <2>2 DEF Transaction!Init
<1>2. Inv /\ [Next]_vars => [Transaction!Next]_(Transaction!vars)
  <2>1. Inv /\ [Next]_vars => Refined  BY Steps
  <2> QED  BY <2>1 DEF Refined, Transaction!vars
<1>3. Spec => Transaction!Init /\ [][Transaction!Next]_(Transaction!vars)
  BY <1>1, <1>2, Invariant, PTL DEF Spec
<1> QED  BY <1>3 DEF Atomic, Transaction!Spec
=============================================================================
