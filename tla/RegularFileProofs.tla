------------------------- MODULE RegularFileProofs -------------------------
(***************************************************************************)
(* Theorems about RegularFile for every size of file and every page: what  *)
(* holds whatever the system refuses, and what its calls answer while it   *)
(* refuses nothing.                                                        *)
(***************************************************************************)
EXTENDS RegularFile, SequenceTheorems, TLAPS

Page == Pages \cup {0}

\* The length and the domain of a file.
LEMMA FileFacts ==
    ASSUME NEW file \in Files
    PROVE  /\ Len(file) \in 0..MaxPages /\ DOMAIN file = 1..Len(file)
           /\ file \in [1..Len(file) -> Page] /\ file \in Seq(Page)
<1>1. PICK size \in 0..MaxPages : file \in [1..size -> Page]
  BY DEF Files, Page
<1>2. size \in Nat
  BY <1>1, PagesAssumption
<1>3. file \in Seq(Page)
  BY <1>1, <1>2, SeqDef
<1>4. Len(file) = size
  BY <1>1, <1>2, <1>3, LenProperties
<1> QED  BY <1>1, <1>3, <1>4

\* Put makes a file, and changes the page it puts and no other.
LEMMA PutFacts ==
    ASSUME NEW file \in Files, NEW n \in 1..MaxPages, NEW page \in Page
    PROVE  /\ Put(file, n, page) \in Files
           /\ n \in DOMAIN Put(file, n, page) /\ Put(file, n, page)[n] = page
           /\ \A i \in DOMAIN file : i \in DOMAIN Put(file, n, page)
           /\ \A i \in DOMAIN file \ {n} : Put(file, n, page)[i] = file[i]
           /\ DOMAIN Put(file, n, page) = 1..(IF n > Len(file) THEN n ELSE Len(file))
<1> DEFINE size == IF n > Len(file) THEN n ELSE Len(file)
<1>1. Len(file) \in 0..MaxPages /\ file \in [1..Len(file) -> Page]
  BY FileFacts
<1>2. size \in 0..MaxPages /\ 0 \in Page /\ n \in 1..size
  BY <1>1, PagesAssumption DEF Page
<1>3. Put(file, n, page) \in [1..size -> Page]
  BY <1>1, <1>2, PagesAssumption DEF Put
<1>4. Put(file, n, page) \in Files
  BY <1>2, <1>3 DEF Files, Page
<1> QED  BY <1>1, <1>2, <1>4, PagesAssumption DEF Put

\* Cut makes a file of the first pages.
LEMMA CutFacts ==
    ASSUME NEW file \in Files, NEW size \in 0..MaxPages
    PROVE  /\ Cut(file, size) \in Files
           /\ \A i \in DOMAIN file : i <= size =>
                i \in DOMAIN Cut(file, size) /\ Cut(file, size)[i] = file[i]
<1>1. Len(file) \in 0..MaxPages /\ file \in [1..Len(file) -> Page] /\ file \in Seq(Page)
  BY FileFacts
<1>2. CASE size < Len(file)
  <2>1. Cut(file, size) = [i \in 1..size |-> file[i]]
    BY <1>1, <1>2, PagesAssumption DEF Cut
  <2>2. Cut(file, size) \in [1..size -> Page]
    BY <1>1, <1>2, <2>1, PagesAssumption
  <2>3. Cut(file, size) \in Files
    BY <2>2 DEF Files, Page
  <2> QED  BY <1>1, <1>2, <2>1, <2>3, PagesAssumption
<1>3. CASE ~(size < Len(file))
  BY <1>1, <1>3 DEF Cut
<1> QED  BY <1>2, <1>3

-----------------------------------------------------------------------------
(* Types.                                                                  *)

Streams == [file : Files, at : 1..MaxPages + 1, buffer : Pages \cup {NoWrite}, err : {0, 1}]

\* A buffered page has a place inside the bound.
Sound(s) == s \in Streams /\ (s.buffer # NoWrite => s.at \in 1..MaxPages)

\* The fields of a stream.
LEMMA StreamFacts ==
    ASSUME NEW file, NEW at, NEW buffer, NEW err
    PROVE  /\ Stream(file, at, buffer, err).file = file
           /\ Stream(file, at, buffer, err).at = at
           /\ Stream(file, at, buffer, err).buffer = buffer
           /\ Stream(file, at, buffer, err).err = err
           /\ file \in Files /\ at \in 1..MaxPages + 1 /\ buffer \in Pages \cup {NoWrite}
                /\ err \in {0, 1} => Stream(file, at, buffer, err) \in Streams
BY DEF Stream, Streams

\* A flush leaves an empty buffer, with the file put or as it was.
LEMMA FlushFacts ==
    ASSUME NEW s, Sound(s)
    PROVE  /\ Sound(Stored(s)) /\ Stored(s).buffer = NoWrite /\ Stored(s).at = s.at
           /\ Sound(Dropped(s)) /\ Dropped(s).buffer = NoWrite /\ Dropped(s).at = s.at
           /\ Dropped(s).file = s.file /\ Stored(s).err = s.err /\ Dropped(s).err = 1
           /\ Stored(s).file = IF s.buffer = NoWrite THEN s.file ELSE Put(s.file, s.at, s.buffer)
<1>1. s.file \in Files /\ s.at \in 1..MaxPages + 1 /\ s.buffer \in Pages \cup {NoWrite}
      /\ s.err \in {0, 1}
  BY DEF Sound, Streams
<1>2. CASE s.buffer = NoWrite
  BY <1>1, <1>2, StreamFacts DEF Stored, Dropped, Sound
<1>3. CASE s.buffer # NoWrite
  <2>1. s.at \in 1..MaxPages /\ s.buffer \in Page
    BY <1>1, <1>3 DEF Sound, Page
  <2>2. Put(s.file, s.at, s.buffer) \in Files
    BY <1>1, <2>1, PutFacts
  <2> QED  BY <1>1, <1>3, <2>2, StreamFacts DEF Stored, Dropped, Sound
<1> QED  BY <1>2, <1>3

\* An fseek flushes, and reaches its place or stays where it was.
LEMMA SeekFacts ==
    ASSUME NEW s, Sound(s), NEW n \in 1..MaxPages + 1, NEW t \in Seek(s, n)
    PROVE  /\ Sound(t) /\ t.buffer = NoWrite
           /\ \/ t.at = n /\ t.file = Stored(s).file /\ t.err = s.err
              \/ FlushFails(s) /\ t.at = s.at /\ t.file = s.file /\ t.err = 1
<1>1. t = Stream(Stored(s).file, n, NoWrite, s.err) \/ (FlushFails(s) /\ t = Dropped(s))
  BY DEF Seek
<1>2. Stored(s).file \in Files /\ s.err \in {0, 1}
  BY FlushFacts DEF Sound, Streams
<1>3. Sound(Stream(Stored(s).file, n, NoWrite, s.err))
  BY <1>2, StreamFacts DEF Sound
<1> QED  BY <1>1, <1>3, FlushFacts, StreamFacts

\* What xWrite may leave.
WriteLeaves(s, n, page) ==
    {Stream(s.file, s.at, page, s.err), Stream(Put(s.file, s.at, page), s.at, NoWrite, s.err),
     Dropped(s)}

\* xWrite buffers its page, puts it, or drops it.
LEMMA WriteFacts ==
    ASSUME NEW s, Sound(s), s.buffer = NoWrite, s.at \in 1..MaxPages, NEW n,
           NEW page \in Pages, NEW t \in WriteLeaves(s, n, page)
    PROVE  Sound(t) /\ t.at = s.at
<1>1. s.file \in Files /\ page \in Page /\ s.err \in {0, 1}
  BY DEF Sound, Streams, Page
<1>2. Put(s.file, s.at, page) \in Files
  BY <1>1, PutFacts
<1> QED  BY <1>1, <1>2, StreamFacts, FlushFacts, PagesAssumption DEF WriteLeaves, Sound

-----------------------------------------------------------------------------
(* Whatever fails, only dirty pages change.                                *)

\* A buffered page is dirty, in an open stream.
StreamInv ==
    /\ Sound(stream)
    /\ handle \in {"closed", "stream", "null", "deleted"}
    /\ stream.buffer # NoWrite => handle = "stream" /\ stream.at \in dirty
    /\ dirty \subseteq 1..MaxPages

Keeps(old, new, changed) ==
    \A n \in DOMAIN old \ changed : n \in DOMAIN new /\ new[n] = old[n]

\* A flush changes the page of the buffer only, and so does an fseek.
LEMMA FlushKeeps ==
    ASSUME NEW s, Sound(s), NEW changed, s.buffer # NoWrite => s.at \in changed
    PROVE  /\ Keeps(s.file, Stored(s).file, changed)
           /\ Keeps(s.file, Dropped(s).file, changed)
           /\ \A n \in 1..MaxPages + 1 : \A t \in Seek(s, n) : Keeps(s.file, t.file, changed)
<1>1. s.file \in Files
  BY DEF Sound, Streams
<1>2. Keeps(s.file, Stored(s).file, changed)
  <2>1. CASE s.buffer # NoWrite
    <3>1. s.at \in 1..MaxPages /\ s.buffer \in Page
      BY <2>1 DEF Sound, Streams, Page
    <3> QED  BY <1>1, <2>1, <3>1, FlushFacts, PutFacts DEF Keeps
  <2> QED  BY <2>1, FlushFacts DEF Keeps
<1> QED  BY <1>2, FlushFacts, SeekFacts DEF Keeps

\* The step of an xWrite: a misplaced page is put where a dirty page was.
LEMMA WriteStep ==
    ASSUME StreamInv, NEW n \in 1..MaxPages, NEW page \in Pages, Write(n, page)
    PROVE  StreamInv' /\ Keeps(stream.file, stream'.file, dirty')
<1>1. PICK s \in Seek(stream, n) : stream' \in WriteLeaves(s, n, page)
  BY DEF Write, WriteLeaves
<1>2. /\ dirty' = dirty \cup {n} /\ handle' = "stream" /\ handle = "stream"
      /\ n \in 1..MaxPages + 1
  BY PagesAssumption DEF Write
<1>3. /\ Sound(s) /\ s.buffer = NoWrite
      /\ s.at = n \/ (stream.buffer # NoWrite /\ s.at = stream.at)
  BY <1>2, SeekFacts DEF StreamInv, FlushFails
<1>4. s.at \in dirty' /\ s.at \in 1..MaxPages
  BY <1>2, <1>3 DEF StreamInv
<1>5. Sound(stream') /\ stream'.at = s.at
  BY <1>1, <1>3, <1>4, WriteFacts
<1>6. Keeps(stream.file, s.file, dirty')
  BY <1>2, FlushKeeps DEF StreamInv
<1>7. Keeps(s.file, stream'.file, dirty')
  <2>1. s.file \in Files /\ page \in Page
    BY <1>3 DEF Sound, Streams, Page
  <2>2. stream'.file = s.file \/ stream'.file = Put(s.file, s.at, page)
    BY <1>1, <1>3, StreamFacts, FlushFacts DEF WriteLeaves
  <2> QED  BY <1>4, <2>1, <2>2, PutFacts DEF Keeps
<1>8. Keeps(stream.file, stream'.file, dirty')
  BY <1>6, <1>7 DEF Keeps
<1> QED  BY <1>2, <1>4, <1>5, <1>8 DEF StreamInv

\* Every step keeps StreamInv, and changes dirty pages only.
LEMMA StreamStep ==
    ASSUME StreamInv, [Next]_vars
    PROVE  StreamInv' /\ Keeps(stream.file, stream'.file, dirty \cup dirty')
<1>0. /\ stream.file \in Files /\ stream.at \in 1..MaxPages + 1
      /\ stream.buffer \in Pages \cup {NoWrite}
  BY DEF StreamInv, Sound, Streams
<1>1. ASSUME NEW n \in 1..MaxPages, NEW page \in Pages, Write(n, page)
      PROVE  StreamInv' /\ Keeps(stream.file, stream'.file, dirty \cup dirty')
  BY <1>1, WriteStep DEF Keeps
<1>2. CASE Open
  <2>1. stream' = Stream(stream.file, 1, NoWrite, 0) /\ dirty' = {} /\ handle' \in {"stream", "null"}
    BY <1>2 DEF Open
  <2>2. Sound(stream') /\ stream'.file = stream.file /\ stream'.buffer = NoWrite
    BY <1>0, <2>1, StreamFacts, PagesAssumption DEF Sound
  <2> QED  BY <2>1, <2>2 DEF StreamInv, Keeps
<1>3. ASSUME NEW n \in 1..MaxPages, Read(n)
      PROVE  StreamInv' /\ Keeps(stream.file, stream'.file, dirty \cup dirty')
  <2>1. stream' \in Seek(stream, n) /\ dirty' = dirty /\ handle' = handle
        /\ n \in 1..MaxPages + 1
    BY <1>3, PagesAssumption DEF Read
  <2>2. Sound(stream') /\ stream'.buffer = NoWrite
    BY <2>1, SeekFacts DEF StreamInv
  <2> QED  BY <2>1, <2>2, FlushKeeps DEF StreamInv
<1>4. CASE FileSize
  <2>1. /\ \/ stream' = Stream(Stored(stream).file, Len(Stored(stream).file) + 1, NoWrite, stream.err)
           \/ stream' = Dropped(stream)
        /\ dirty' = dirty /\ handle' = handle
    BY <1>4 DEF FileSize
  <2>2. Stored(stream).file \in Files /\ stream.err \in {0, 1}
    BY FlushFacts DEF StreamInv, Sound, Streams
  <2>3. Len(Stored(stream).file) + 1 \in 1..MaxPages + 1
    BY <2>2, FileFacts, PagesAssumption
  <2>4. Sound(stream') /\ stream'.buffer = NoWrite
        /\ stream'.file \in {Stored(stream).file, Dropped(stream).file}
    BY <2>1, <2>2, <2>3, StreamFacts, FlushFacts DEF StreamInv, Sound
  <2> QED  BY <2>1, <2>4, FlushKeeps DEF StreamInv
<1>5. ASSUME NEW size \in 0..MaxPages, Truncate(size)
      PROVE  StreamInv' /\ Keeps(stream.file, stream'.file, dirty \cup dirty')
  <2>1. /\ stream' = [stream EXCEPT !.file = Cut(@, size)] \/ stream' = stream
        /\ dirty' = dirty \cup (size + 1 .. MaxPages) /\ handle' = handle
    BY <1>5 DEF Truncate, Truncated
  <2>2. Cut(stream.file, size) \in Files /\ Keeps(stream.file, Cut(stream.file, size), dirty')
    <3>1. \A i \in DOMAIN stream.file \ dirty' : i <= size
      BY <1>0, <2>1, FileFacts, PagesAssumption
    <3> QED  BY <1>0, <3>1, CutFacts DEF Keeps
  <2>3. Sound(stream') /\ stream'.buffer = stream.buffer /\ stream'.at = stream.at
        /\ stream'.file \in {stream.file, Cut(stream.file, size)}
    BY <1>0, <2>1, <2>2 DEF StreamInv, Sound, Streams
  <2>4. dirty' \subseteq 1..MaxPages
    BY <2>1, PagesAssumption DEF StreamInv
  <2> QED  BY <2>1, <2>2, <2>3, <2>4 DEF StreamInv, Keeps
<1>6. CASE Sync \/ Close \/ Killed
  <2>1. /\ stream' \in {Stored(stream), Dropped(stream), [stream EXCEPT !.buffer = NoWrite]}
        /\ dirty' \in {{}, dirty} /\ handle' \in {"stream", "closed"}
    BY <1>6 DEF Sync, Close, Killed
  <2>2. LET s == [stream EXCEPT !.buffer = NoWrite]
        IN  Sound(s) /\ s.buffer = NoWrite /\ s.file = stream.file
    BY <1>0 DEF StreamInv, Sound, Streams
  <2>3. Sound(stream') /\ stream'.buffer = NoWrite
    BY <2>1, <2>2, FlushFacts DEF StreamInv
  <2>4. Keeps(stream.file, stream'.file, dirty \cup dirty')
    <3>1. Keeps(stream.file, stream'.file, dirty)
      <4>1. /\ Keeps(stream.file, Stored(stream).file, dirty)
            /\ Keeps(stream.file, Dropped(stream).file, dirty)
        BY FlushKeeps DEF StreamInv
      <4>2. Keeps(stream.file, stream.file, dirty)
        BY DEF Keeps
      <4> QED  BY <2>1, <2>2, <4>1, <4>2
    <3> QED  BY <3>1 DEF Keeps
  <2> QED  BY <2>1, <2>3, <2>4 DEF StreamInv
<1>7. CASE Delete
  <2>1. CASE dirty' = 1..MaxPages /\ stream' = Stream(<< >>, 1, NoWrite, 0) /\ handle' = "deleted"
    <3>1. << >> \in Files
      BY PagesAssumption DEF Files
    <3>2. Sound(stream') /\ stream'.buffer = NoWrite
      BY <2>1, <3>1, StreamFacts, PagesAssumption DEF Sound
    <3>3. DOMAIN stream.file \subseteq dirty'
      BY <1>0, <2>1, FileFacts, PagesAssumption
    <3> QED  BY <2>1, <3>2, <3>3 DEF StreamInv, Keeps
  <2>2. CASE UNCHANGED <<handle, stream, dirty>>
    BY <2>2 DEF StreamInv, Keeps
  <2> QED  BY <1>7, <2>1, <2>2 DEF Delete
<1>8. CASE UNCHANGED vars \/ \E n \in 1..MaxPages : UseNull(n)
  BY <1>8 DEF UseNull, vars, StreamInv, Keeps
<1> QED  BY <1>1, <1>2, <1>3, <1>4, <1>5, <1>6, <1>7, <1>8 DEF Next

\* The stream is sound at the start.
LEMMA StreamInit == Init => StreamInv
<1> SUFFICES ASSUME Init PROVE StreamInv
  OBVIOUS
<1>1. PICK page \in Pages : stream = Stream(<<page>>, 1, NoWrite, 0)
  BY DEF Init
<1>2. <<page>> \in [1..1 -> Page] /\ 1 \in 0..MaxPages
  BY PagesAssumption DEF Page
<1>3. <<page>> \in Files
  BY <1>2 DEF Files, Page
<1> QED  BY <1>1, <1>3, StreamFacts, PagesAssumption DEF Init, StreamInv, Sound

\* StreamInv always holds.
LEMMA StreamCorrect == Spec => []StreamInv
BY StreamInit, StreamStep, PTL DEF Spec

\* The history and the answers have types.
AnswerInv ==
    /\ answer.op \in Ops /\ answer.page \in 0..MaxPages /\ answer.ok \in BOOLEAN
    /\ answer.value \in Nat
    /\ written \in Files /\ failed \in BOOLEAN

\* A call that answers.
LEMMA SaysType ==
    ASSUME NEW op \in Ops, NEW n \in 0..MaxPages, NEW ok \in BOOLEAN, NEW value \in Nat,
           Says(op, n, ok, value), written' \in Files, failed' \in BOOLEAN
    PROVE  AnswerInv'
BY DEF Says, Answer, AnswerInv

\* Every step keeps the types of the history and the answers.
LEMMA AnswerStep ==
    ASSUME StreamInv, AnswerInv, [Next]_vars
    PROVE  AnswerInv'
<1>0. /\ stream.file \in Files /\ stream'.file \in Files /\ stream'.at \in 1..MaxPages + 1
      /\ written \in Files /\ failed' \in BOOLEAN /\ 0 \in 0..MaxPages
  <2>1. StreamInv'
    BY StreamStep
  <2>2. stream' \in Streams /\ stream \in Streams
    BY <2>1 DEF StreamInv, Sound
  <2>3. 0 \in 0..MaxPages
    BY PagesAssumption
  <2>4. failed' \in BOOLEAN
    <3>1. failed' = failed \/ failed' = TRUE \/ failed' = FALSE
      BY Zenon DEF Next, Open, Read, Write, FileSize, Truncate, Truncated, Sync, Close, Delete,
                   Killed, UseNull, vars
    <3> QED  BY <3>1, Zenon DEF AnswerInv
  <2> QED  BY <2>2, <2>3, <2>4 DEF Streams, AnswerInv
<1>1. CASE Open \/ Killed
  <2>1. /\ answer' = Answer("open", 0, TRUE, 0) \/ answer' = Answer("none", 0, TRUE, 0)
        /\ written' \in Files /\ failed' \in BOOLEAN
    BY <1>0, <1>1 DEF Open, Killed, Says
  <2>2. /\ answer'.op \in {"open", "none"} /\ answer'.page = 0 /\ answer'.ok = TRUE
        /\ answer'.value = 0
    BY <2>1 DEF Answer
  <2>3. answer'.op \in Ops
    BY <2>2 DEF Ops
  <2>4. answer'.page \in 0..MaxPages /\ answer'.value \in Nat
    BY <1>0, <2>2
  <2>5. answer'.ok \in BOOLEAN
    BY <2>2, Zenon
  <2> QED  BY <2>1, <2>3, <2>4, <2>5 DEF AnswerInv
<1>2. ASSUME NEW n \in 1..MaxPages, Read(n) PROVE AnswerInv'
  <2>1. stream'.at <= Len(stream'.file) => stream'.file[stream'.at] \in Nat
    <3> SUFFICES ASSUME stream'.at <= Len(stream'.file) PROVE stream'.file[stream'.at] \in Nat
      OBVIOUS
    <3>1. stream'.file \in [1..Len(stream'.file) -> Page] /\ Len(stream'.file) \in 0..MaxPages
      BY <1>0, FileFacts
    <3>2. stream'.at \in 1..Len(stream'.file)
      BY <1>0, <3>1, PagesAssumption
    <3>3. stream'.file[stream'.at] \in Page
      BY <3>1, <3>2
    <3>4. Page \subseteq Nat
      BY PagesAssumption DEF Page
    <3> QED  BY <3>3, <3>4
  <2>2. n \in 0..MaxPages /\ written' = written
    BY <1>2, PagesAssumption DEF Read
  <2> QED  BY <1>0, <1>2, <2>1, <2>2, SaysType DEF Read, Ops
<1>3. ASSUME NEW n \in 1..MaxPages, NEW page \in Pages, Write(n, page) PROVE AnswerInv'
  <2>1. n \in 0..MaxPages /\ page \in Page
    BY PagesAssumption DEF Page
  <2>2. written' \in Files
    <3>1. written' = Put(written, n, page) \/ written' = written
      BY <1>3 DEF Write
    <3> QED  BY <1>0, <2>1, <3>1, PutFacts
  <2> QED  BY <1>0, <1>3, <2>1, <2>2, SaysType DEF Write, Ops
<1>4. CASE FileSize
  <2>1. Says("size", 0, TRUE, stream'.at - 1) /\ written' = written
    BY <1>4 DEF FileSize
  <2>2. stream'.at - 1 \in Nat
    BY <1>0, PagesAssumption
  <2> QED  BY <1>0, <2>1, <2>2, SaysType DEF Ops
<1>5. ASSUME NEW size \in 0..MaxPages, Truncate(size) PROVE AnswerInv'
  <2>1. written' \in Files
    BY <1>0, <1>5, CutFacts DEF Truncate, Truncated
  <2> QED  BY <1>0, <1>5, <2>1, SaysType DEF Truncate, Truncated, Ops
<1>6. CASE Sync \/ Close \/ \E n \in 1..MaxPages : UseNull(n)
  <2>1. written' = written /\ \A n \in 1..MaxPages : n \in 0..MaxPages
    <3>1. \A n \in 1..MaxPages : n \in 0..MaxPages
      BY PagesAssumption
    <3> QED  BY <1>6, <3>1 DEF Sync, Close, UseNull
  <2> QED  BY <1>0, <1>6, <2>1, SaysType DEF Sync, Close, UseNull, Ops
<1>7. CASE Delete
  <2>1. << >> \in Files
    BY PagesAssumption DEF Files
  <2> QED  BY <1>0, <1>7, <2>1, SaysType DEF Delete, Ops
<1>8. CASE UNCHANGED vars
  BY <1>8 DEF vars, AnswerInv
<1> QED  BY <1>1, <1>2, <1>3, <1>4, <1>5, <1>6, <1>7, <1>8 DEF Next

\* The types always hold, and no page stays buffered in a stream that is gone.
THEOREM TypeCorrect == Spec => []TypeOK
<1>1. Init => AnswerInv
  <2> SUFFICES ASSUME Init PROVE AnswerInv
    OBVIOUS
  <2>1. stream.file \in Files
    BY StreamInit DEF StreamInv, Sound, Streams
  <2>2. /\ answer.op = "none" /\ answer.page = 0 /\ answer.ok = TRUE /\ answer.value = 0
    BY DEF Init, Answer
  <2>3. 0 \in 0..MaxPages
    BY PagesAssumption
  <2>4. answer.op \in Ops
    BY <2>2 DEF Ops
  <2>5. answer.page \in 0..MaxPages /\ answer.value \in Nat
    BY <2>2, <2>3
  <2>6. answer.ok \in BOOLEAN
    BY <2>2, Zenon
  <2>7. written \in Files /\ failed \in BOOLEAN
    BY <2>1 DEF Init
  <2> QED  BY <2>4, <2>5, <2>6, <2>7 DEF AnswerInv
<1>2. StreamInv /\ AnswerInv /\ [Next]_vars => AnswerInv'
  BY AnswerStep
<1>3. StreamInv /\ AnswerInv => TypeOK
  BY DEF StreamInv, Sound, Streams, AnswerInv, TypeOK
<1> QED  BY <1>1, <1>2, <1>3, StreamCorrect, PTL DEF Spec

\* Whatever the system refuses, and wherever a failed fseek leaves the stream,
\* no page changes that was not written or truncated since the last xSync.
THEOREM OthersUntouched == Spec => OnlyDirtyPagesChange
<1> DEFINE Step == \A n \in DOMAIN stream.file \ (dirty \cup dirty') :
                      n \in DOMAIN stream'.file /\ stream'.file[n] = stream.file[n]
<1>1. StreamInv /\ [Next]_vars => [Step]_vars
  BY StreamStep DEF Keeps
<1> QED  BY <1>1, StreamCorrect, PTL DEF Spec, OnlyDirtyPagesChange

-----------------------------------------------------------------------------
(* While nothing is lost, the calls answer the truth.                      *)

AnswersInv == ReadsLatest /\ SizeIsTrue /\ SyncedIsStored

\* The file is what was written, but for the page in the buffer; and there is
\* none after an xFileSize, which is when pager_truncate truncates.
TrueInv ==
    /\ handle = "null" => failed
    /\ handle = "stream" /\ NothingLost => Stored(stream).file = written
    /\ answer.op = "size" => stream.buffer = NoWrite
    /\ AnswersInv

\* A stream with an empty buffer stores nothing more.
LEMMA NothingBuffered ==
    ASSUME NEW s, s.buffer = NoWrite PROVE Stored(s) = s
BY DEF Stored

\* The other answers promise nothing.
LEMMA OtherAnswers ==
    ASSUME answer'.op \in {"none", "open", "write", "truncate", "close", "delete"}
    PROVE  AnswersInv' /\ answer'.op # "size"
BY DEF AnswersInv, ReadsLatest, SizeIsTrue, SyncedIsStored

\* Once something is lost, the answers promise nothing either.
LEMMA LostPromisesNothing ==
    ASSUME ~NothingLost', (answer.op = "size" => stream.buffer = NoWrite)',
           (handle = "null" => failed)'
    PROVE  TrueInv'
BY DEF TrueInv, AnswersInv, ReadsLatest, SizeIsTrue, SyncedIsStored

\* Every step keeps TrueInv.
LEMMA TrueStep ==
    ASSUME StreamInv, TrueInv, [Next]_vars
    PROVE  TrueInv'
<1>0. /\ stream.file \in Files /\ Stored(stream).file \in Files /\ Stored(stream).buffer = NoWrite
      /\ Dropped(stream).buffer = NoWrite /\ Dropped(stream).err = 1
      /\ Stored(stream).err = stream.err
  BY FlushFacts DEF StreamInv, Sound, Streams
<1>1. CASE Open
  <2>1. stream' = Stream(stream.file, 1, NoWrite, 0)
        /\ written' = stream.file /\ answer'.op = "open"
    BY <1>1 DEF Open, Says, Answer
  <2>2. Stored(stream').file = stream.file
    BY <2>1, StreamFacts, NothingBuffered
  <2>3. handle' = "null" => failed'
    BY <1>1 DEF Open
  <2> QED  BY <2>1, <2>2, <2>3, OtherAnswers DEF TrueInv
<1>2. ASSUME NEW n \in 1..MaxPages, Read(n) PROVE TrueInv'
  <2>1. handle = "stream" /\ handle' = "stream" /\ written' = written /\ failed' = failed
        /\ stream' \in Seek(stream, n) /\ n \in 1..MaxPages + 1
    BY <1>2, PagesAssumption DEF Read
  <2>2. answer'.op = "read" /\ answer'.page = n
        /\ IF stream'.at <= Len(stream'.file)
           THEN answer'.ok = TRUE /\ answer'.value = stream'.file[stream'.at]
           ELSE answer'.ok = FALSE
    BY <1>2 DEF Read, Says, Answer
  <2>3. CASE stream'.err = 1
    BY <2>1, <2>2, <2>3, LostPromisesNothing DEF NothingLost
  <2>4. CASE stream'.err # 1 /\ NothingLost'
    <3>1. stream'.at = n /\ stream'.file = Stored(stream).file /\ stream'.buffer = NoWrite
          /\ stream'.err = stream.err
      BY <2>1, <2>4, SeekFacts DEF StreamInv
    <3>2. stream'.file = written
      BY <2>1, <2>4, <3>1 DEF NothingLost, TrueInv
    <3>3. ReadsLatest'
      BY <2>1, <2>2, <3>1, <3>2 DEF ReadsLatest
    <3> QED
      BY <2>1, <2>2, <3>1, <3>2, <3>3, NothingBuffered
      DEF TrueInv, AnswersInv, SizeIsTrue, SyncedIsStored
  <2> QED  BY <2>1, <2>2, <2>3, <2>4, LostPromisesNothing
<1>3. ASSUME NEW n \in 1..MaxPages, NEW page \in Pages, Write(n, page) PROVE TrueInv'
  <2>1. handle = "stream" /\ handle' = "stream" /\ failed' = failed
        /\ answer'.op = "write" /\ n \in 1..MaxPages + 1
    BY <1>3, PagesAssumption DEF Write, Says, Answer
  <2>2. CASE ~NothingLost'
    BY <2>1, <2>2, LostPromisesNothing
  <2>3. CASE NothingLost'
    <3>1. PICK s \in Seek(stream, n) :
            \/ /\ stream' \in {Stream(s.file, s.at, page, s.err),
                               Stream(Put(s.file, s.at, page), s.at, NoWrite, s.err)}
               /\ written' = Put(written, n, page)
            \/ stream' = Dropped(s)
      BY <1>3 DEF Write
    <3>2. Sound(s)
      BY <2>1, SeekFacts DEF StreamInv
    <3>3. stream' # Dropped(s) /\ stream'.err = s.err /\ stream'.err # 1
      BY <2>3, <3>1, <3>2, FlushFacts, StreamFacts DEF NothingLost
    <3>4. s.at = n /\ s.file = Stored(stream).file /\ s.err = stream.err
      BY <2>1, <3>3, SeekFacts DEF StreamInv
    <3>5. s.file = written
      BY <2>1, <2>3, <3>3, <3>4 DEF NothingLost, TrueInv
    <3>6. Stored(stream').file = Put(written, n, page)
      BY <3>1, <3>3, <3>4, <3>5, StreamFacts, PagesAssumption DEF Stored
    <3> QED  BY <2>1, <3>1, <3>3, <3>6, OtherAnswers DEF TrueInv
  <2> QED  BY <2>2, <2>3
<1>4. CASE FileSize
  <2>1. handle = "stream" /\ handle' = handle /\ written' = written /\ failed' = failed
        /\ answer'.op = "size" /\ answer'.value = stream'.at - 1
    BY <1>4 DEF FileSize, Says, Answer
  <2>2. CASE stream' = Dropped(stream)
    BY <1>0, <2>1, <2>2, LostPromisesNothing DEF NothingLost
  <2>3. CASE stream' = Stream(Stored(stream).file, Len(Stored(stream).file) + 1, NoWrite, stream.err)
    <3>1. stream'.file = Stored(stream).file /\ stream'.at = Len(Stored(stream).file) + 1
          /\ stream'.buffer = NoWrite /\ stream'.err = stream.err
      BY <2>3, StreamFacts
    <3>2. Len(Stored(stream).file) \in Nat
      BY <1>0, FileFacts, PagesAssumption
    <3>3. NothingLost' => stream'.file = written
      BY <2>1, <3>1 DEF NothingLost, TrueInv
    <3>4. answer'.value = Len(stream'.file)
      BY <2>1, <3>1, <3>2
    <3> QED
      BY <2>1, <3>1, <3>3, <3>4, NothingBuffered
      DEF TrueInv, AnswersInv, ReadsLatest, SizeIsTrue, SyncedIsStored
  <2> QED  BY <1>4, <2>2, <2>3 DEF FileSize
<1>5. ASSUME NEW size \in 0..MaxPages, Truncate(size) PROVE TrueInv'
  <2>1. /\ handle = "stream" /\ handle' = "stream" /\ stream.buffer = NoWrite
        /\ written' = Cut(written, size) /\ answer'.op = "truncate"
        /\ \/ stream' = [stream EXCEPT !.file = Cut(@, size)] /\ failed' = failed
           \/ failed'
    BY <1>5 DEF Truncate, Truncated, TrueInv, Says, Answer
  <2>2. CASE ~NothingLost'
    BY <2>1, <2>2, LostPromisesNothing
  <2>3. CASE NothingLost'
    <3>1. stream' = [stream EXCEPT !.file = Cut(@, size)] /\ failed' = failed
      BY <2>1, <2>3 DEF NothingLost
    <3>2. stream'.buffer = NoWrite /\ stream'.file = Cut(stream.file, size) /\ stream'.err = stream.err
      BY <2>1, <3>1 DEF StreamInv, Sound, Streams
    <3>3. stream.file = written
      BY <2>1, <2>3, <3>1, <3>2, NothingBuffered DEF NothingLost, TrueInv
    <3> QED  BY <2>1, <3>2, <3>3, NothingBuffered, OtherAnswers DEF TrueInv
  <2> QED  BY <2>2, <2>3
<1>6. CASE Sync
  <2>1. handle = "stream" /\ handle' = handle /\ written' = written /\ failed' = failed
        /\ answer'.op = "sync" /\ stream' \in {Stored(stream), Dropped(stream)}
    BY <1>6 DEF Sync, Says, Answer
  <2>2. NothingLost' => stream'.file = written /\ stream'.buffer = NoWrite
    BY <1>0, <2>1 DEF NothingLost, TrueInv
  <2> QED
    BY <2>1, <2>2, NothingBuffered
    DEF TrueInv, AnswersInv, ReadsLatest, SizeIsTrue, SyncedIsStored
<1>7. CASE Close \/ Killed \/ Delete
  <2>1. \/ handle' \in {"closed", "deleted"} /\ answer'.op \in {"none", "close", "delete"}
        \/ handle' = "closed" /\ answer'.op = "delete"
    BY <1>7 DEF Close, Killed, Delete, Answer, Says
  <2> QED  BY <2>1, OtherAnswers DEF TrueInv
<1>8. CASE UNCHANGED vars
  BY <1>8 DEF vars, TrueInv, AnswersInv, ReadsLatest, SizeIsTrue, SyncedIsStored, Stored,
              NothingLost, Put
<1>9. ASSUME NEW n \in 1..MaxPages, UseNull(n) PROVE TrueInv'
  <2>1. handle = "null" /\ handle' = handle /\ stream' = stream /\ failed' = failed /\ failed
    BY <1>9 DEF UseNull, TrueInv
  <2>2. stream.buffer = NoWrite /\ ~NothingLost'
    BY <2>1 DEF StreamInv, NothingLost
  <2> QED  BY <2>1, <2>2, LostPromisesNothing
<1> QED  BY <1>1, <1>2, <1>3, <1>4, <1>5, <1>6, <1>7, <1>8, <1>9 DEF Next

\* TrueInv holds at the start.
LEMMA TrueInit == Init => TrueInv
BY DEF Init, Answer, Stream, Stored, TrueInv, AnswersInv, ReadsLatest, SizeIsTrue, SyncedIsStored

\* While no write, ftruncate or fopen has failed since xOpen, told or not,
\* every page reads as written last, the size counts the buffered pages, and
\* an xSync that answers OK has stored all: the unchecked fseeks and the
\* ftruncate below the stream are harmless.
THEOREM AnswersTrue == Spec => [](ReadsLatest /\ SizeIsTrue /\ SyncedIsStored)
<1>1. Init => TrueInv
  BY TrueInit
<1>2. StreamInv /\ TrueInv /\ [Next]_vars => TrueInv'
  BY TrueStep
<1>3. TrueInv => ReadsLatest /\ SizeIsTrue /\ SyncedIsStored
  BY DEF TrueInv, AnswersInv
<1> QED  BY <1>1, <1>2, <1>3, StreamCorrect, PTL DEF Spec

\* While nothing has failed, an xRead that answers OK answers the page that
\* was written last, buffered or stored, through any order of reads, writes
\* and truncations on the one stream.
THEOREM ReadsAreLatest == Spec => []ReadsLatest
BY AnswersTrue, PTL

\* While nothing has failed, xFileSize counts the page in the buffer.
THEOREM SizesAreTrue == Spec => []SizeIsTrue
BY AnswersTrue, PTL
=============================================================================
