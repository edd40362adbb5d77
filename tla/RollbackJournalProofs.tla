----------------------- MODULE RollbackJournalProofs -----------------------
(***************************************************************************)
(* What a playback of a rollback journal finds, whatever the journal: the  *)
(* records of a journal that is sound are originals, and no record of a    *)
(* chain of headers is missed.                                             *)
(***************************************************************************)
EXTENDS RollbackJournal, FiniteSetTheorems, TLAPS

-----------------------------------------------------------------------------
(* What the pager keeps true of the journal of the transaction that began  *)
(* with the database base and has that seed.                               *)

Places(data) == {at \in 0 .. Len(data) : at % Sector = 0 /\ at + Sector <= Len(data)}

\* Every whole record of a page of base holds the page, and after a place
\* that was cut short there is nothing.
Sound(data, base) ==
    \A at \in Places(data) :
      /\ data[at + 1] \in 1 .. Len(base) /\ data[at + 3] # 0
           => data[at + 2] = base[data[at + 1]]
      /\ at > 0 /\ data[at + 3] = 0 => \A i \in at + 4 .. Len(data) : data[i] = 0

\* The headers before end lead from the first to end, over records only.
Chained(data, end) ==
    /\ end % Sector = 0 /\ end <= Len(data)
    /\ end > 0 => IsMagic(data[1])
    /\ \A hdr \in Places(data) : hdr < end /\ IsMagic(data[hdr + 1]) =>
         LET n    == data[hdr + 1] - Magic(0)
             next == hdr + Sector * (n + 1)
         IN  /\ n # AllRecs /\ next <= end /\ (next < end => IsMagic(data[next + 1]))
             /\ \A i \in 1..n : data[hdr + Sector * i + 1] \in 1 .. MaxPages
    /\ \A at \in Places(data) : at < end => data[at + 3] = data[3]

PagesAt(data, places) == {data[at + 1] : at \in places}

\* The pages of the records before end.
Recorded(data, end) ==
    PagesAt(data, {at \in Places(data) : at < end /\ data[at + 1] \in 1 .. MaxPages})

PlayedPages(data, open) == PagesAt(data, Played(data, open))

Begun(data, base, seed) ==
    /\ data \in Seq(Nat) /\ Len(data) >= Sector
    /\ data[2] = Len(base) /\ data[3] = seed /\ Sound(data, base)

\* The journal of those pages, with n records after the header at hdr, which
\* are not synced.
Unsealed(data, base, seed, hdr, n, pages) ==
    /\ Begun(data, base, seed) /\ Chained(data, hdr)
    /\ hdr + Sector * (n + 1) <= Len(data) /\ data[hdr + 1] = 0
    /\ \A i \in 0..n : data[hdr + Sector * i + 3] = seed
    /\ \A i \in 1..n : data[hdr + Sector * i + 1] \in 1 .. Len(base)
    /\ pages = Recorded(data, hdr) \cup {data[hdr + Sector * i + 1] : i \in 1..n}
    /\ pages \subseteq 1 .. Len(base)

\* The journal of those pages, with nRec in its last header.
Sealed(data, base, seed, end, pages) ==
    /\ Begun(data, base, seed) /\ Chained(data, end)
    /\ pages = Recorded(data, end) /\ pages \subseteq 1 .. Len(base)

-----------------------------------------------------------------------------
(* Induction on the length of what is left of the journal.                 *)

\* A set of natural numbers has a least member.
LEMMA Least ==
    ASSUME NEW T, T \subseteq Nat, T # {}
    PROVE  \E x \in T : \A y \in T : x <= y
<1> DEFINE U == {0..n : n \in T}
<1>1. U \subseteq FiniteSubsetsOf(Nat)
  <2>1. \A n \in Nat : IsFiniteSet(0..n) /\ 0..n \subseteq Nat
    BY FS_Interval
  <2> QED  BY <2>1 DEF FiniteSubsetsOf
<1>2. U # {}
  OBVIOUS
<1>3. \E x \in U : \A y \in U : ~ (<<y, x>> \in StrictSubsetOrdering(Nat))
  <2>1. IsWellFoundedOn(StrictSubsetOrdering(Nat), FiniteSubsetsOf(Nat))
    BY FS_StrictSubsetOrderingWellFounded
  <2> QED  BY <1>1, <1>2, <2>1, WFMin
<1>4. PICK n \in T : \A y \in U : ~ (<<y, 0..n>> \in StrictSubsetOrdering(Nat))
  BY <1>3
<1>5. ASSUME NEW m \in T, m < n PROVE FALSE
  <2>1. 0..m \subseteq 0..n /\ 0..m # 0..n /\ 0..n \subseteq Nat
    BY <1>5
  <2>2. <<0..m, 0..n>> \in StrictSubsetOrdering(Nat)
    BY <2>1 DEF StrictSubsetOrdering
  <2> QED  BY <1>4, <2>2
<1> QED  BY <1>5

\* How many records a header has.
LEMMA RecordCountType ==
    ASSUME NEW data \in Seq(Nat), NEW open, NEW hdr \in 0 .. Len(data),
           HasHeader(data, hdr, open)
    PROVE  RecordCount(data, hdr, open) \in Nat
<1>1. data[hdr + 1] \in Nat /\ Len(data) \in Nat /\ hdr + Sector <= Len(data)
  BY DEF HasHeader, Sector
<1>2. (Len(data) - hdr - Sector) \div Sector \in Nat
  BY <1>1 DEF Sector
<1> QED  BY <1>1, <1>2, BoundsAssumption DEF RecordCount, IsMagic, Magic

\* The next header is further on, and not past the end.
LEMMA NextHeaderInside ==
    ASSUME NEW data \in Seq(Nat), NEW open, NEW hdr \in 0 .. Len(data),
           HasHeader(data, hdr, open), AllTaken(data, hdr, open)
    PROVE  NextHeader(data, hdr, open) \in hdr + Sector .. Len(data)
<1> DEFINE count == RecordCount(data, hdr, open)
<1>1. count \in Nat /\ hdr + Sector <= Len(data)
  BY RecordCountType DEF HasHeader
<1>2. CASE count = 0
  BY <1>1, <1>2 DEF NextHeader, Sector
<1>3. CASE count > 0
  <2>1. IsRecord(data, hdr, hdr + Sector * count)
    <3>1. count \in Taken(data, hdr, open)
      BY <1>1, <1>3 DEF AllTaken
    <3> HIDE DEF count
    <3> QED  BY <1>1, <1>3, <3>1 DEF Taken
  <2> HIDE DEF count
  <2>2. hdr + Sector * count + Sector <= Len(data)
    BY <2>1 DEF IsRecord
  <2> QED  BY <1>1, <1>3, <2>2 DEF NextHeader, Sector, count
<1> QED  BY <1>1, <1>2, <1>3

\* One step of TakenFrom.
Body(data, open, from, hdr) ==
    IF ~HasHeader(data, hdr, open) THEN {}
    ELSE {hdr + Sector * n : n \in Taken(data, hdr, open)}
           \cup (IF AllTaken(data, hdr, open) THEN from[NextHeader(data, hdr, open)] ELSE {})

\* The recursion of TakenFrom is well founded: the function exists.
LEMMA TakenFromEquation ==
    ASSUME NEW data \in Seq(Nat), NEW open
    PROVE  TakenFrom(data, open) =
             [hdr \in 0 .. Len(data) |-> Body(data, open, TakenFrom(data, open), hdr)]
<1> DEFINE end  == Len(data)
           Tail_(n) == {hdr \in 0..end : end - hdr <= n}
           Good(f, n) == f = [hdr \in Tail_(n) |-> Body(data, open, f, hdr)]
           Without == {n \in Nat : ~ \E f : Good(f, n)}
<1>0. end \in Nat
  OBVIOUS
<1>1. Without = {}
  <2> SUFFICES ASSUME Without # {} PROVE FALSE
    OBVIOUS
  <2>1. PICK n \in Without : \A m \in Without : n <= m
    BY Least
  <2>2. CASE n = 0
    <3>1. Tail_(0) = {end}
      BY <1>0
    <3>2. \A f : Body(data, open, f, end) = {}
      BY <1>0 DEF Body, HasHeader, Sector
    <3>3. Good([hdr \in Tail_(0) |-> {}], 0)
      BY <3>1, <3>2
    <3> QED  BY <2>1, <2>2, <3>3
  <2>3. CASE n > 0
    <3>1. n - 1 \in Nat /\ n - 1 \notin Without
      <4>1. n \in Nat
        BY <2>1
      <4> HIDE DEF Without
      <4> QED  BY <2>1, <2>3, <4>1
    <3>2. PICK g : Good(g, n - 1)
      BY <3>1
    <3> DEFINE f == [hdr \in Tail_(n) |-> Body(data, open, g, hdr)]
    <3>3. ASSUME NEW hdr \in Tail_(n), HasHeader(data, hdr, open), AllTaken(data, hdr, open)
          PROVE  NextHeader(data, hdr, open) \in Tail_(n - 1)
      BY <1>0, <2>3, <3>3, NextHeaderInside DEF Sector
    <3>4. \A hdr \in Tail_(n - 1) : hdr \in Tail_(n) /\ f[hdr] = g[hdr]
      <4>1. \A hdr \in Tail_(n - 1) : hdr \in Tail_(n)
        BY <1>0, <2>3
      <4>2. \A hdr \in Tail_(n - 1) : g[hdr] = Body(data, open, g, hdr)
        BY <3>2
      <4> QED  BY <4>1, <4>2
    <3>5. \A hdr \in Tail_(n) : Body(data, open, f, hdr) = Body(data, open, g, hdr)
      <4> HIDE DEF f, Tail_
      <4> QED  BY <3>3, <3>4 DEF Body
    <3>6. Good(f, n)
      <4> HIDE DEF Tail_
      <4> QED  BY <3>5
    <3> QED  BY <2>1, <3>6
  <2> QED  BY <2>1, <2>2, <2>3
<1>2. PICK f : Good(f, end)
  BY <1>0, <1>1
<1>3. Tail_(end) = 0..end
  BY <1>0
<1>4. f = [hdr \in 0 .. Len(data) |-> Body(data, open, f, hdr)]
  BY <1>2, <1>3
<1>5. TakenFrom(data, open) =
        CHOOSE from : from = [hdr \in 0 .. Len(data) |-> Body(data, open, from, hdr)]
  BY DEF TakenFrom, Body
<1> HIDE DEF Good, Tail_
<1> QED  BY <1>4, <1>5

\* A set of places that holds the records of some headers and of the headers
\* they lead to holds all the records taken from them.
LEMMA TakenWithin ==
    ASSUME NEW data \in Seq(Nat), NEW open, NEW G, G \subseteq 0 .. Len(data), NEW Z,
           \A hdr \in G : HasHeader(data, hdr, open) =>
             /\ \A n \in Taken(data, hdr, open) : hdr + Sector * n \in Z
             /\ AllTaken(data, hdr, open) => NextHeader(data, hdr, open) \in G
    PROVE  \A hdr \in G : TakenFrom(data, open)[hdr] \subseteq Z
<1> DEFINE F == TakenFrom(data, open)
           Bad == {hdr \in G : ~ (F[hdr] \subseteq Z)}
           T == {Len(data) - hdr : hdr \in Bad}
<1> SUFFICES ASSUME Bad # {} PROVE FALSE
  OBVIOUS
<1>1. Bad \subseteq 0 .. Len(data)
  OBVIOUS
<1>2. PICK hdr \in Bad : \A h \in Bad : Len(data) - hdr <= Len(data) - h
  <2> HIDE DEF Bad
  <2>1. \A h \in Bad : Len(data) - h \in Nat
    BY <1>1
  <2>2. T \subseteq Nat /\ T # {}
    BY <2>1
  <2>3. PICK x \in T : \A y \in T : x <= y
    <3> HIDE DEF T
    <3> QED  BY <2>2, Least
  <2> QED  BY <2>3
<1>3. hdr \in 0 .. Len(data) /\ F[hdr] = Body(data, open, F, hdr)
  BY <1>2, TakenFromEquation
<1> HIDE DEF F
<1>4. CASE HasHeader(data, hdr, open) /\ AllTaken(data, hdr, open)
  <2> DEFINE next == NextHeader(data, hdr, open)
  <2>1. next \in G /\ next > hdr /\ next <= Len(data)
    BY <1>2, <1>3, <1>4, NextHeaderInside DEF Sector
  <2>2. F[next] \subseteq Z
    BY <1>2, <1>3, <2>1
  <2> QED  BY <1>2, <1>3, <1>4, <2>2 DEF Body
<1>5. CASE ~ (HasHeader(data, hdr, open) /\ AllTaken(data, hdr, open))
  BY <1>2, <1>3, <1>5 DEF Body
<1> QED  BY <1>4, <1>5

\* The places that lie after a header are all taken, if each is a record of it
\* or lies after the next, and the same holds there.
LEMMA TakenAll ==
    ASSUME NEW data \in Seq(Nat), NEW open, NEW G, G \subseteq 0 .. Len(data), NEW Z,
           \A hdr \in G, at \in Z : at > hdr =>
             /\ HasHeader(data, hdr, open)
             /\ \/ \E n \in Taken(data, hdr, open) : at = hdr + Sector * n
                \/ /\ AllTaken(data, hdr, open) /\ NextHeader(data, hdr, open) \in G
                   /\ at > NextHeader(data, hdr, open)
    PROVE  \A hdr \in G, at \in Z : at > hdr => at \in TakenFrom(data, open)[hdr]
<1> DEFINE F == TakenFrom(data, open)
           Bad == {hdr \in G : \E at \in Z : at > hdr /\ at \notin F[hdr]}
           T == {Len(data) - hdr : hdr \in Bad}
<1> SUFFICES ASSUME Bad # {} PROVE FALSE
  OBVIOUS
<1>1. Bad \subseteq 0 .. Len(data)
  OBVIOUS
<1>2. PICK hdr \in Bad : \A h \in Bad : Len(data) - hdr <= Len(data) - h
  <2> HIDE DEF Bad
  <2>1. \A h \in Bad : Len(data) - h \in Nat
    BY <1>1
  <2>2. T \subseteq Nat /\ T # {}
    BY <2>1
  <2>3. PICK x \in T : \A y \in T : x <= y
    <3> HIDE DEF T
    <3> QED  BY <2>2, Least
  <2> QED  BY <2>3
<1>3. hdr \in 0 .. Len(data) /\ F[hdr] = Body(data, open, F, hdr)
  BY <1>2, TakenFromEquation
<1> HIDE DEF F
<1>4. PICK at \in Z : at > hdr /\ at \notin F[hdr]
  BY <1>2
<1>5. hdr \in G
  BY <1>2
<1>6. HasHeader(data, hdr, open)
  BY <1>4, <1>5
<1>7. CASE \E n \in Taken(data, hdr, open) : at = hdr + Sector * n
  BY <1>3, <1>4, <1>6, <1>7 DEF Body
<1>8. CASE /\ AllTaken(data, hdr, open) /\ NextHeader(data, hdr, open) \in G
           /\ at > NextHeader(data, hdr, open)
  <2> DEFINE next == NextHeader(data, hdr, open)
  <2>1. next \in G /\ next > hdr /\ next <= Len(data) /\ at > next
    BY <1>3, <1>6, <1>8, NextHeaderInside DEF Sector
  <2>2. next \notin Bad
    BY <1>2, <1>3, <2>1
  <2>3. at \in F[next]
    BY <2>1, <2>2
  <2> QED  BY <1>3, <1>4, <1>6, <1>8, <2>3 DEF Body
<1> QED  BY <1>4, <1>5, <1>7, <1>8

-----------------------------------------------------------------------------
(* Soundness: what is played is an original.                               *)

\* A place is a multiple of a sector, with a whole sector after it.
LEMMA PlaceFacts ==
    ASSUME NEW data \in Seq(Nat), NEW x
    PROVE  x \in Places(data) <=> x \in Nat /\ x % 3 = 0 /\ x + 3 <= Len(data)
BY DEF Places, Sector

\* PlaceFacts, in the direction the provers do not find by themselves.
LEMMA IsPlace ==
    ASSUME NEW data \in Seq(Nat), NEW x \in Nat, x % 3 = 0, x + 3 <= Len(data)
    PROVE  x \in Places(data)
BY DEF Places, Sector

\* load_into: as many cells of a page file, and zeros.
Padded(data, n) == [i \in 1..n |-> IF i <= Len(data) THEN data[i] ELSE 0]

\* The cells of a padded file.
LEMMA PaddedFacts ==
    ASSUME NEW data \in Seq(Nat), NEW n \in Nat
    PROVE  /\ Padded(data, n) \in Seq(Nat) /\ Len(Padded(data, n)) = n
           /\ \A i \in 1..n : Padded(data, n)[i] = IF i <= Len(data) THEN data[i] ELSE 0
BY DEF Padded

\* A journal cut short or read with another size is as sound.
LEMMA SoundPadded ==
    ASSUME NEW data \in Seq(Nat), NEW base \in Seq(Nat), NEW n \in Nat, Sound(data, base)
    PROVE  Sound(Padded(data, n), base)
<1> DEFINE cut == Padded(data, n)
<1>1. /\ cut \in Seq(Nat) /\ Len(cut) = n /\ Len(data) \in Nat
      /\ \A i \in 1..n : cut[i] = IF i <= Len(data) THEN data[i] ELSE 0
  <2> HIDE DEF cut
  <2>1. Len(data) \in Nat
    OBVIOUS
  <2> QED  BY <2>1, PaddedFacts DEF cut
<1> HIDE DEF cut
<1> SUFFICES ASSUME NEW at \in Places(cut)
             PROVE  /\ cut[at + 1] \in 1 .. Len(base) /\ cut[at + 3] # 0
                         => cut[at + 2] = base[cut[at + 1]]
                    /\ at > 0 /\ cut[at + 3] = 0 => \A i \in at + 4 .. Len(cut) : cut[i] = 0
  BY DEF Sound, cut
<1>2. at \in Nat /\ at % Sector = 0 /\ at + 3 <= n
  BY <1>1 DEF Places, Sector
<1>3. CASE at + 3 <= Len(data)
  <2>1. at \in Places(data)
    BY <1>1, <1>2, <1>3 DEF Places, Sector
  <2>2. cut[at + 1] = data[at + 1] /\ cut[at + 2] = data[at + 2] /\ cut[at + 3] = data[at + 3]
    BY <1>1, <1>2, <1>3
  <2>3. /\ data[at + 1] \in 1 .. Len(base) /\ data[at + 3] # 0 => data[at + 2] = base[data[at + 1]]
        /\ at > 0 /\ data[at + 3] = 0 => \A i \in at + 4 .. Len(data) : data[i] = 0
    BY <2>1 DEF Sound
  <2>4. cut[at + 1] \in 1 .. Len(base) /\ cut[at + 3] # 0 => cut[at + 2] = base[cut[at + 1]]
    BY <2>2, <2>3
  <2>5. ASSUME at > 0, cut[at + 3] = 0, NEW i \in at + 4 .. Len(cut) PROVE cut[i] = 0
    <3>1. i \in 1..n /\ (i <= Len(data) => i \in at + 4 .. Len(data))
      BY <1>1, <1>2, <1>3, <2>5
    <3> QED  BY <1>1, <2>2, <2>3, <2>5, <3>1
  <2> QED  BY <2>4, <2>5
<1>4. CASE ~ (at + 3 <= Len(data))
  BY <1>1, <1>2, <1>4
<1> QED  BY <1>3, <1>4

\* A journal cut short is the journal read with another size.
LEMMA PrefixIsPadded ==
    ASSUME NEW data \in Seq(Nat), NEW n \in 0 .. Len(data)
    PROVE  SubSeq(data, 1, n) = Padded(data, n)
BY DEF Padded

\* The records that are played from a sound journal are whole, and hold
\* pages of base.
THEOREM PlayedSound ==
    ASSUME NEW data \in Seq(Nat), NEW base \in Seq(Nat), NEW open,
           Sound(data, base), data[2] = Len(base)
    PROVE  \A at \in Played(data, open) :
             /\ at \in Places(data) /\ data[at + 1] \in 1 .. Len(base)
             /\ data[at + 2] = base[data[at + 1]]
<1> DEFINE G == {hdr \in 0 .. Len(data) : hdr % Sector = 0}
           Z == {at \in Places(data) : data[at + 1] <= data[2] =>
                   data[at + 1] \in 1 .. Len(base) /\ data[at + 2] = base[data[at + 1]]}
<1>1. ASSUME NEW hdr \in G, HasHeader(data, hdr, open)
      PROVE  /\ \A n \in Taken(data, hdr, open) : hdr + Sector * n \in Z
             /\ AllTaken(data, hdr, open) => NextHeader(data, hdr, open) \in G
  <2>0. /\ hdr \in Nat /\ hdr % 3 = 0 /\ hdr + 3 <= Len(data) /\ Len(data) \in Nat
        /\ RecordCount(data, hdr, open) \in Nat
    BY <1>1, RecordCountType DEF HasHeader, Sector
  <2>1. ASSUME NEW n \in Taken(data, hdr, open) PROVE hdr + Sector * n \in Z
    <3> DEFINE at == hdr + 3 * n
    <3>1. n \in Nat /\ n > 0 /\ IsRecord(data, hdr, hdr + Sector * n)
      BY <2>0, <2>1 DEF Taken
    <3>2. /\ at \in Nat /\ at % 3 = 0 /\ at >= hdr + 3 /\ at + 3 <= Len(data) /\ data[at + 1] # 0
          /\ data[at + 1] <= data[2] => data[at + 3] = data[hdr + 3]
      BY <2>0, <3>1 DEF IsRecord, Sector
    <3>3. at \in Places(data) /\ hdr \in Places(data) /\ data[at + 1] \in Nat
      <4> HIDE DEF at
      <4>1. hdr \in Places(data)
        BY <2>0, PlaceFacts
      <4>2. at \in Places(data)
        BY <2>0, <3>2, PlaceFacts
      <4>3. data[at + 1] \in Nat
        BY <2>0, <3>2
      <4> QED  BY <4>1, <4>2, <4>3
    <3>4. data[hdr + 3] # 0
      <4>1. CASE hdr = 0
        BY <1>1, <4>1 DEF HasHeader
      <4>2. CASE hdr > 0
        <5>1. data[hdr + 3] = 0 => \A i \in hdr + 4 .. Len(data) : data[i] = 0
          BY <3>3, <4>2 DEF Sound
        <5>2. at + 1 \in hdr + 4 .. Len(data)
          <6> HIDE DEF at
          <6> QED  BY <2>0, <3>2
        <5> QED  BY <3>2, <5>1, <5>2
      <4> QED  BY <2>0, <4>1, <4>2
    <3>5. data[at + 1] <= data[2] =>
            data[at + 1] \in 1 .. Len(base) /\ data[at + 2] = base[data[at + 1]]
      <4>1. data[at + 1] \in 1 .. Len(base) /\ data[at + 3] # 0 => data[at + 2] = base[data[at + 1]]
        BY <3>3 DEF Sound
      <4> HIDE DEF at
      <4>2. SUFFICES ASSUME data[at + 1] <= data[2]
                     PROVE  data[at + 1] \in 1 .. Len(base) /\ data[at + 2] = base[data[at + 1]]
        OBVIOUS
      <4>3. data[at + 1] # 0 /\ data[at + 3] = data[hdr + 3]
        BY <3>2, <4>2
      <4>4. data[at + 1] <= Len(base) /\ Len(base) \in Nat
        BY <4>2
      <4>5. data[at + 1] \in 1 .. Len(base)
        BY <3>3, <4>3, <4>4
      <4>6. data[at + 3] # 0
        BY <3>4, <4>3
      <4> QED  BY <4>1, <4>5, <4>6
    <3> QED  BY <3>3, <3>5 DEF Sector
  <2>2. ASSUME AllTaken(data, hdr, open) PROVE NextHeader(data, hdr, open) \in G
    <3>1. NextHeader(data, hdr, open) \in 0 .. Len(data)
      BY <1>1, <2>0, <2>2, NextHeaderInside DEF Sector
    <3>2. NextHeader(data, hdr, open) % 3 = 0
      BY <2>0 DEF NextHeader, Sector
    <3> QED  BY <3>1, <3>2 DEF Sector
  <2> QED  BY <2>1, <2>2
<1>2. G \subseteq 0 .. Len(data) /\ 0 \in G
  BY DEF Sector
<1>3. TakenFrom(data, open)[0] \subseteq Z
  <2> HIDE DEF G, Z
  <2> QED  BY <1>1, <1>2, TakenWithin
<1> QED  BY <1>3 DEF Played

\* Records of pages of base, and a file that has the others, restore base.
THEOREM RestoresBase ==
    ASSUME NEW base \in Seq(Nat), NEW file, NEW data, NEW places,
           \A at \in places : data[at + 1] \in 1 .. Len(base) => data[at + 2] = base[data[at + 1]],
           \A p \in 1 .. Len(base) :
             p \in PagesAt(data, places) \/ (p <= Len(file) /\ file[p] = base[p])
    PROVE  Restored(file, Len(base), data, places) = base
<1>1. ASSUME NEW p \in 1 .. Len(base)
      PROVE  Restored(file, Len(base), data, places)[p] = base[p]
  <2>1. CASE \E at \in places : data[at + 1] = p
    <3> DEFINE at == CHOOSE at \in places : data[at + 1] = p
    <3>1. at \in places /\ data[at + 1] = p
      BY <2>1
    <3> HIDE DEF at
    <3>2. data[at + 2] = base[p]
      BY <3>1
    <3> QED  BY <2>1, <3>2 DEF Restored, at
  <2>2. CASE ~ \E at \in places : data[at + 1] = p
    BY <2>2 DEF Restored, PagesAt
  <2> QED  BY <2>1, <2>2
<1>2. Restored(file, Len(base), data, places) = [p \in 1 .. Len(base) |-> base[p]]
  BY <1>1 DEF Restored
<1> QED  BY <1>2

-----------------------------------------------------------------------------
(* Completeness: no record of a chain is missed.                           *)

\* All the records of a header of a chain are taken.
LEMMA ChainStep ==
    ASSUME NEW data \in Seq(Nat), NEW end \in Nat, Chained(data, end), data[3] # 0,
           NEW open, open \notin 0 .. end - 1,
           NEW hdr \in Places(data), hdr < end, IsMagic(data[hdr + 1])
    PROVE  LET n    == data[hdr + 1] - Magic(0)
               next == hdr + Sector * (n + 1)
           IN  /\ HasHeader(data, hdr, open) /\ AllTaken(data, hdr, open)
               /\ Taken(data, hdr, open) = 1..n /\ NextHeader(data, hdr, open) = next
               /\ n \in Nat /\ next <= end /\ (next < end => IsMagic(data[next + 1]))
<1> DEFINE n    == data[hdr + 1] - Magic(0)
           next == hdr + Sector * (n + 1)
<1>1. hdr \in Nat /\ hdr % 3 = 0 /\ hdr + 3 <= Len(data) /\ Len(data) \in Nat
  BY PlaceFacts
<1>2. data[hdr + 1] \in Nat /\ MaxPages \in Nat
  BY <1>1, BoundsAssumption
<1>3. n \in Nat
  BY <1>2 DEF IsMagic, Magic
<1>4. /\ n # AllRecs /\ next <= end /\ (next < end => IsMagic(data[next + 1]))
      /\ \A i \in 1..n : data[hdr + Sector * i + 1] \in 1 .. MaxPages
      /\ end <= Len(data)
      /\ \A at \in Places(data) : at < end => data[at + 3] = data[3]
  BY DEF Chained
<1>5. HasHeader(data, hdr, open)
  BY <1>1 DEF HasHeader, Sector
<1>6. RecordCount(data, hdr, open) = n
  <2>1. hdr # open
    BY <1>1
  <2> QED  BY <1>4, <2>1 DEF RecordCount
<1> HIDE DEF n
<1>7. ASSUME NEW i \in 1..n PROVE IsRecord(data, hdr, hdr + Sector * i)
  <2> DEFINE at == hdr + 3 * i
  <2>1. at \in Nat /\ at % 3 = 0 /\ at + 3 <= next /\ next \in Nat
    BY <1>1, <1>3, <1>7 DEF Sector
  <2>2. data[at + 1] \in 1 .. MaxPages
    BY <1>4 DEF Sector
  <2> HIDE DEF at, next
  <2>3. at + 3 <= Len(data) /\ at < end
    BY <1>1, <1>4, <2>1
  <2>4. at \in Places(data)
    BY <2>1, <2>3, PlaceFacts
  <2>5. data[at + 3] = data[hdr + 3]
    BY <1>4, <2>3, <2>4
  <2> QED  BY <2>2, <2>3, <2>5 DEF IsRecord, Sector, at
<1>8. Taken(data, hdr, open) = 1..n
  BY <1>3, <1>6, <1>7 DEF Taken
<1> QED  BY <1>3, <1>4, <1>5, <1>6, <1>8 DEF AllTaken, NextHeader, n

\* A record of a chain lies in its header, or after the next.
LEMMA ChainCovers ==
    ASSUME NEW hdr \in Nat, NEW at \in Nat, NEW n \in Nat, at > hdr,
           hdr % 3 = 0, at % 3 = 0
    PROVE  (\E i \in 1..n : at = hdr + Sector * i) \/ at >= hdr + Sector * (n + 1)
<1> DEFINE i == (at - hdr) \div 3
<1>1. i \in Nat /\ at = hdr + 3 * i /\ i >= 1
  OBVIOUS
<1> HIDE DEF i
<1>2. i <= n \/ i >= n + 1
  BY <1>1
<1> QED  BY <1>1, <1>2 DEF Sector

\* Every record of a chain that starts with the sizes of the database is
\* played.
THEOREM ChainPlayed ==
    ASSUME NEW data \in Seq(Nat), NEW end \in Nat, Chained(data, end), data[3] # 0,
           NEW open, open \notin 0 .. end - 1, NEW at \in Places(data), at < end,
           data[at + 1] \in 1 .. MaxPages, data[at + 1] <= data[2]
    PROVE  at \in Played(data, open)
<1> DEFINE G == {hdr \in Places(data) : hdr < end /\ IsMagic(data[hdr + 1])}
<1>1. at \in Nat /\ at % 3 = 0 /\ at + 3 <= Len(data) /\ Len(data) \in Nat
  BY PlaceFacts
<1>2. G \subseteq 0 .. Len(data)
  BY DEF Places
<1>3. MaxPages \in Nat
  BY BoundsAssumption
<1>4. ASSUME NEW hdr \in G, at > hdr
      PROVE  /\ HasHeader(data, hdr, open)
             /\ \/ \E n \in Taken(data, hdr, open) : at = hdr + Sector * n
                \/ /\ AllTaken(data, hdr, open) /\ NextHeader(data, hdr, open) \in G
                   /\ at > NextHeader(data, hdr, open)
  <2> DEFINE n    == data[hdr + 1] - Magic(0)
             next == hdr + Sector * (n + 1)
  <2>1. /\ HasHeader(data, hdr, open) /\ AllTaken(data, hdr, open)
        /\ Taken(data, hdr, open) = 1..n /\ NextHeader(data, hdr, open) = next
        /\ n \in Nat /\ next <= end /\ (next < end => IsMagic(data[next + 1]))
    BY ChainStep
  <2>2. hdr \in Nat /\ hdr % 3 = 0
    BY PlaceFacts
  <2> HIDE DEF n
  <2>3. CASE \E i \in 1..n : at = hdr + Sector * i
    BY <2>1, <2>3
  <2>4. CASE at >= next
    <3>1. next \in Nat /\ next % 3 = 0 /\ next < end
      BY <1>1, <2>1, <2>2, <2>4 DEF Sector
    <3>2. next \in Places(data)
      <4> HIDE DEF next
      <4>1. next + 3 <= Len(data)
        BY <1>1, <2>4, <3>1
      <4> QED  BY <3>1, <4>1, IsPlace
    <3>3. next # at
      <4> HIDE DEF next
      <4>1. data[next + 1] > MaxPages
        BY <2>1, <3>1 DEF IsMagic
      <4> QED  BY <1>3, <4>1
    <3> HIDE DEF next
    <3> QED  BY <1>1, <2>1, <2>4, <3>1, <3>2, <3>3
  <2> QED  BY <1>1, <1>4, <2>1, <2>2, <2>3, <2>4, ChainCovers
<1>5. 0 \in G /\ at > 0
  <2>1. IsMagic(data[1]) /\ 0 < end
    BY <1>1 DEF Chained
  <2>2. 0 \in Places(data)
    <3>1. 0 + 3 <= Len(data) /\ 0 % 3 = 0
      BY <1>1
    <3> QED  BY <3>1, IsPlace
  <2> QED  BY <1>1, <1>3, <2>1, <2>2 DEF IsMagic
<1>6. at \in TakenFrom(data, open)[0]
  <2> HIDE DEF G
  <2> DEFINE Z == {at}
  <2>1. \A hdr \in G, x \in Z : x > hdr =>
          /\ HasHeader(data, hdr, open)
          /\ \/ \E n \in Taken(data, hdr, open) : x = hdr + Sector * n
             \/ /\ AllTaken(data, hdr, open) /\ NextHeader(data, hdr, open) \in G
                /\ x > NextHeader(data, hdr, open)
    BY <1>4
  <2>2. \A hdr \in G, x \in Z : x > hdr => x \in TakenFrom(data, open)[hdr]
    <3> HIDE DEF Z
    <3> QED  BY <1>2, <2>1, TakenAll
  <2> QED  BY <1>5, <2>2
<1> QED  BY <1>6 DEF Played

\* Every record of the journal of a transaction is played by its rollback,
\* those after the header that is still being written included.
THEOREM UnsealedPlayed ==
    ASSUME NEW data, NEW base \in Seq(Nat), Len(base) <= MaxPages, NEW seed \in Nat \ {0},
           NEW c \in Nat, NEW n \in Nat, NEW pages, Unsealed(data, base, seed, c, n, pages)
    PROVE  pages \subseteq PlayedPages(data, c)
<1> DEFINE end == c + Sector * (n + 1)
           G == {hdr \in Places(data) : hdr < c /\ IsMagic(data[hdr + 1])} \cup {c}
           Z == {at \in Places(data) : at < end /\ at # c /\ data[at + 1] \in 1 .. MaxPages
                                       /\ data[at + 1] <= data[2]}
<1>1. /\ data \in Seq(Nat) /\ data[2] = Len(base) /\ data[3] = seed /\ Chained(data, c)
      /\ end <= Len(data) /\ data[c + 1] = 0
      /\ \A i \in 0..n : data[c + Sector * i + 3] = seed
      /\ \A i \in 1..n : data[c + Sector * i + 1] \in 1 .. Len(base)
      /\ pages = Recorded(data, c) \cup {data[c + Sector * i + 1] : i \in 1..n}
      /\ pages \subseteq 1 .. Len(base)
  BY DEF Unsealed, Begun
<1>2. c % 3 = 0 /\ MaxPages \in Nat /\ Len(data) \in Nat /\ MaxJournal \in Nat \ {0} /\ Len(base) \in Nat
  BY <1>1, BoundsAssumption DEF Chained, Sector
<1>3. c \in Places(data) /\ c + 3 <= Len(data)
  <2>1. c + 3 <= Len(data)
    BY <1>1, <1>2 DEF Sector
  <2> QED  BY <1>1, <1>2, <2>1, IsPlace
<1>4. /\ HasHeader(data, c, c) /\ 1..n \subseteq Taken(data, c, c)
  <2>1. HasHeader(data, c, c)
    BY <1>1, <1>3 DEF HasHeader, Sector
  <2>2. RecordCount(data, c, c) \in Nat /\ RecordCount(data, c, c) >= n
    BY <1>1, <1>2 DEF RecordCount, Sector, IsMagic, AllRecs
  <2>3. ASSUME NEW i \in 1..n PROVE IsRecord(data, c, c + Sector * i)
    <3>1. data[c + Sector * i + 3] = seed /\ data[c + 3] = seed
      <4>1. c + Sector * 0 + 3 = c + 3 /\ 0 \in 0..n /\ i \in 0..n
        BY DEF Sector
      <4>2. data[c + Sector * 0 + 3] = seed
        BY <1>1, <4>1
      <4> QED  BY <1>1, <4>1, <4>2
    <3>2. c + Sector * i + Sector <= Len(data)
      BY <1>1, <1>2 DEF Sector
    <3>3. data[c + Sector * i + 1] # 0
      BY <1>1, <1>2
    <3> QED  BY <3>1, <3>2, <3>3 DEF IsRecord
  <2> QED  BY <2>1, <2>2, <2>3 DEF Taken
<1>5. ASSUME NEW hdr \in G, NEW at \in Z, at > hdr
      PROVE  /\ HasHeader(data, hdr, c)
             /\ \/ \E i \in Taken(data, hdr, c) : at = hdr + Sector * i
                \/ /\ AllTaken(data, hdr, c) /\ NextHeader(data, hdr, c) \in G
                   /\ at > NextHeader(data, hdr, c)
  <2>1. at \in Nat /\ at % 3 = 0 /\ at < end
    BY <1>1, PlaceFacts
  <2>2. CASE hdr = c
    <3>1. \E i \in 1..n : at = hdr + Sector * i
      <4>1. ~ (at >= hdr + Sector * (n + 1))
        BY <1>2, <2>1, <2>2 DEF Sector
      <4> QED  BY <1>2, <1>5, <2>1, <2>2, <4>1, ChainCovers
    <3> QED  BY <1>4, <2>2, <3>1
  <2>3. CASE hdr # c
    <3> DEFINE m    == data[hdr + 1] - Magic(0)
               next == hdr + Sector * (m + 1)
    <3>0. hdr \in Places(data) /\ hdr < c /\ IsMagic(data[hdr + 1]) /\ c \notin 0 .. c - 1
      BY <2>3
    <3>1. /\ HasHeader(data, hdr, c) /\ AllTaken(data, hdr, c)
          /\ Taken(data, hdr, c) = 1..m /\ NextHeader(data, hdr, c) = next
          /\ m \in Nat /\ next <= c /\ (next < c => IsMagic(data[next + 1]))
      BY <1>1, <3>0, ChainStep
    <3>2. hdr \in Nat /\ hdr % 3 = 0
      BY <1>1, <3>0, PlaceFacts
    <3> HIDE DEF m
    <3>3. CASE \E i \in 1..m : at = hdr + Sector * i
      BY <3>1, <3>3
    <3>4. CASE at >= next
      <4>1. next \in Nat /\ next % 3 = 0
        BY <3>1, <3>2 DEF Sector
      <4> HIDE DEF next
      <4>2. next < c => next \in Places(data)
        <5> SUFFICES ASSUME next < c PROVE next \in Places(data)
          OBVIOUS
        <5>1. next + 3 <= Len(data)
          BY <1>2, <1>3, <4>1
        <5> QED  BY <1>1, <4>1, <5>1, IsPlace
      <4>3. next # at
        <5>1. next < c => data[next + 1] > MaxPages
          BY <3>1 DEF IsMagic
        <5>2. data[at + 1] \in 1 .. MaxPages /\ MaxPages \in Nat /\ at # c
          BY <1>2
        <5>3. next < c => ~ (data[next + 1] \in 1 .. MaxPages)
          BY <5>1, <5>2
        <5> QED  BY <3>1, <4>1, <5>2, <5>3
      <4> QED  BY <2>1, <3>1, <3>4, <4>1, <4>2, <4>3
    <3> QED  BY <1>5, <2>1, <3>1, <3>2, <3>3, <3>4, ChainCovers
  <2> QED  BY <2>2, <2>3
<1>6. G \subseteq 0 .. Len(data) /\ 0 \in G
  <2>1. G \subseteq 0 .. Len(data)
    BY <1>3 DEF Places
  <2>2. c > 0 => IsMagic(data[1])
    BY <1>1 DEF Chained
  <2>3. 0 + 3 <= Len(data) /\ 0 % 3 = 0
    BY <1>2, <1>3
  <2>4. 0 \in Places(data)
    BY <1>1, <2>3, IsPlace
  <2> QED  BY <2>1, <2>2, <2>4
<1>7. \A at \in Z : at > 0 => at \in Played(data, c)
  <2>1. \A hdr \in G, at \in Z : at > hdr => at \in TakenFrom(data, c)[hdr]
    <3> HIDE DEF G, Z
    <3> QED  BY <1>1, <1>5, <1>6, TakenAll
  <2> QED  BY <1>6, <2>1 DEF Played
<1>8. 0 \notin Z
  <2>1. c = 0 \/ IsMagic(data[1])
    BY <1>1 DEF Chained
  <2> QED  BY <1>2, <2>1 DEF IsMagic
<1>9. ASSUME NEW p \in pages PROVE p \in PlayedPages(data, c)
  <2>1. p \in 1 .. Len(base) /\ p \in 1 .. MaxPages
    BY <1>1, <1>2
  <2>2. \E at \in Z : data[at + 1] = p
    <3>1. CASE p \in Recorded(data, c)
      <4>1. PICK at \in Places(data) : at < c /\ data[at + 1] = p
        BY <3>1 DEF Recorded, PagesAt
      <4>2. at < end
        BY <1>1, <4>1, PlaceFacts DEF Sector
      <4>3. at # c /\ data[at + 1] \in 1 .. MaxPages /\ data[at + 1] <= data[2]
        BY <1>1, <2>1, <4>1
      <4> HIDE DEF end
      <4> QED  BY <4>1, <4>2, <4>3
    <3>2. CASE \E i \in 1..n : p = data[c + Sector * i + 1]
      <4>1. PICK i \in 1..n : p = data[c + Sector * i + 1]
        BY <3>2
      <4> DEFINE at == c + 3 * i
      <4>2. at \in Nat /\ at % 3 = 0 /\ at < end /\ at + 3 <= Len(data) /\ at # c
        BY <1>1, <1>2 DEF Sector
      <4>3. at \in Places(data) /\ data[at + 1] = p
        BY <1>1, <4>1, <4>2, PlaceFacts DEF Sector
      <4> HIDE DEF at, end
      <4>4. data[at + 1] \in 1 .. MaxPages /\ data[at + 1] <= data[2]
        BY <1>1, <2>1, <4>3
      <4> QED  BY <4>2, <4>3, <4>4
    <3> QED  BY <1>1, <3>1, <3>2
  <2>3. PICK at \in Z : data[at + 1] = p
    BY <2>2
  <2>4. at > 0
    BY <1>1, <1>8, <2>3, PlaceFacts
  <2> QED  BY <1>7, <2>3, <2>4 DEF PlayedPages, PagesAt
<1> QED  BY <1>9

-----------------------------------------------------------------------------
(* What the writes of the pager make of its journal.                       *)

OnSector(x) == x % 3 = 0

\* Two multiples of a sector are a sector apart.
LEMMA Apart ==
    ASSUME NEW x \in Nat, NEW y \in Nat, OnSector(x), OnSector(y), x # y
    PROVE  x + 3 <= y \/ x >= y + 3
<1>1. PICK n \in Nat : x = 3 * n
  BY DEF OnSector
<1>2. PICK m \in Nat : y = 3 * m
  BY DEF OnSector
<1> QED  BY <1>1, <1>2

\* Places, with nothing of their arithmetic to see.
LEMMA SectorPlace ==
    ASSUME NEW data \in Seq(Nat), NEW x
    PROVE  x \in Places(data) <=> x \in Nat /\ OnSector(x) /\ x + 3 <= Len(data)
BY PlaceFacts, IsPlace DEF OnSector

\* WriteJournal of IdbFile, for a write of n cells that begins inside the
\* journal.
Patched(old, data, n, ofs) ==
    [i \in 1..(IF ofs + n > Len(old) THEN ofs + n ELSE Len(old)) |->
       IF i \in ofs + 1 .. ofs + n THEN data[i - ofs]
       ELSE IF i <= Len(old) THEN old[i] ELSE 0]

\* new is old with the fields x, y and z from ofs on, inside it or at its end.
PutThree(new, old, x, y, z, ofs) ==
    /\ new \in Seq(Nat) /\ Len(new) >= Len(old) /\ Len(new) >= ofs + 3
    /\ Len(new) = Len(old) \/ Len(new) = ofs + 3
    /\ new[ofs + 1] = x /\ new[ofs + 2] = y /\ new[ofs + 3] = z
    /\ \A i \in 1 .. Len(old) : i \notin ofs + 1 .. ofs + 3 => new[i] = old[i]

\* new is old with the field x at ofs, which is inside it.
PutOne(new, old, x, ofs) ==
    /\ new \in Seq(Nat) /\ Len(new) = Len(old) /\ new[ofs + 1] = x
    /\ \A i \in 1 .. Len(old) : i # ofs + 1 => new[i] = old[i]

\* A patch of three cells, inside the journal or at its end.
LEMMA PatchedThree ==
    ASSUME NEW old \in Seq(Nat), NEW data, data[1] \in Nat, data[2] \in Nat, data[3] \in Nat,
           NEW ofs \in 0 .. Len(old)
    PROVE  PutThree(Patched(old, data, 3, ofs), old, data[1], data[2], data[3], ofs)
<1>0. PICK new : new = Patched(old, data, 3, ofs)
  OBVIOUS
<1>1. Len(old) \in Nat /\ data[1] \in Nat /\ data[2] \in Nat /\ data[3] \in Nat
  OBVIOUS
<1>2. PICK size \in Nat : size = IF ofs + 3 > Len(old) THEN ofs + 3 ELSE Len(old)
  BY <1>1
<1>3. new = [i \in 1..size |-> IF i \in ofs + 1 .. ofs + 3 THEN data[i - ofs]
                               ELSE IF i <= Len(old) THEN old[i] ELSE 0]
  BY <1>0, <1>1, <1>2 DEF Patched
<1>4. ASSUME NEW i \in 1..size PROVE new[i] \in Nat
  <2>1. CASE i \in ofs + 1 .. ofs + 3
    <3>1. i - ofs \in {1, 2, 3}
      BY <2>1
    <3>2. data[i - ofs] \in Nat
      BY <1>1, <3>1
    <3> QED  BY <1>3, <2>1, <3>2
  <2>2. CASE i \notin ofs + 1 .. ofs + 3
    <3>1. i <= Len(old) => old[i] \in Nat
      BY <1>1
    <3> QED  BY <1>3, <2>2, <3>1
  <2> QED  BY <2>1, <2>2
<1>5. new \in Seq(Nat) /\ Len(new) = size
  <2>1. new \in [1..size -> Nat]
    BY <1>3, <1>4
  <2> QED  BY <2>1
<1>6. new[ofs + 1] = data[1] /\ new[ofs + 2] = data[2] /\ new[ofs + 3] = data[3]
  BY <1>1, <1>2, <1>3
<1>7. \A i \in 1 .. Len(old) : i \notin ofs + 1 .. ofs + 3 => new[i] = old[i]
  BY <1>1, <1>2, <1>3
<1>8. PutThree(new, old, data[1], data[2], data[3], ofs)
  BY <1>1, <1>2, <1>5, <1>6, <1>7 DEF PutThree
<1> QED  BY <1>0, <1>8

\* A patch of one cell, which is inside the journal.
LEMMA PatchedOne ==
    ASSUME NEW old \in Seq(Nat), NEW data, data[1] \in Nat, NEW ofs \in 0 .. Len(old) - 1
    PROVE  PutOne(Patched(old, data, 1, ofs), old, data[1], ofs)
<1>0. PICK new : new = Patched(old, data, 1, ofs)
  OBVIOUS
<1>1. Len(old) \in Nat /\ ofs + 1 <= Len(old) /\ ofs \in Nat /\ data[1] \in Nat
  OBVIOUS
<1>2. PICK size \in Nat : size = Len(old)
  BY <1>1
<1>3. new = [i \in 1..size |-> IF i \in ofs + 1 .. ofs + 1 THEN data[i - ofs]
                               ELSE IF i <= size THEN old[i] ELSE 0]
  BY <1>0, <1>1, <1>2 DEF Patched
<1>4. ASSUME NEW i \in 1..size PROVE new[i] = IF i = ofs + 1 THEN data[1] ELSE old[i]
  <2>1. CASE i = ofs + 1
    <3>1. i \in ofs + 1 .. ofs + 1 /\ i - ofs = 1
      BY <1>1, <2>1
    <3> QED  BY <1>3, <2>1, <3>1
  <2>2. CASE i # ofs + 1
    <3>1. i \notin ofs + 1 .. ofs + 1 /\ i <= size
      BY <1>1, <2>2
    <3> QED  BY <1>3, <2>2, <3>1
  <2> QED  BY <2>1, <2>2
<1>5. new \in Seq(Nat) /\ Len(new) = size
  <2>1. \A i \in 1..size : new[i] \in Nat
    BY <1>1, <1>2, <1>4
  <2>2. new \in [1..size -> Nat]
    BY <1>3, <2>1
  <2> QED  BY <2>2
<1>6. PutOne(new, old, data[1], ofs)
  BY <1>1, <1>2, <1>4, <1>5 DEF PutOne
<1> QED  BY <1>0, <1>6

\* The places of a journal after three fields were put: the place itself, and
\* old ones, whose three fields are what they were.
LEMMA PutThreePlaces ==
    ASSUME NEW old \in Seq(Nat), NEW ofs \in 0 .. Len(old), OnSector(ofs),
           NEW new, NEW x, NEW y, NEW z, PutThree(new, old, x, y, z, ofs)
    PROVE  /\ ofs \in Places(new)
           /\ \A at \in Places(old) : at \in Places(new)
           /\ \A at \in Places(new) : at # ofs =>
                /\ at \in Places(old) /\ (at + 3 <= ofs \/ at >= ofs + 3)
                /\ new[at + 1] = old[at + 1] /\ new[at + 2] = old[at + 2]
                /\ new[at + 3] = old[at + 3]
<1>1. Len(old) \in Nat /\ ofs \in Nat
  OBVIOUS
<1>2. /\ new \in Seq(Nat) /\ Len(new) >= Len(old) /\ Len(new) >= ofs + 3
      /\ Len(new) = Len(old) \/ Len(new) = ofs + 3
      /\ \A i \in 1 .. Len(old) : i \notin ofs + 1 .. ofs + 3 => new[i] = old[i]
  BY DEF PutThree
<1>3. Len(new) \in Nat
  BY <1>2
<1>4. ofs \in Places(new)
  BY <1>1, <1>2, SectorPlace
<1>5. ASSUME NEW at \in Places(old) PROVE at \in Places(new)
  <2>1. at \in Nat /\ OnSector(at) /\ at + 3 <= Len(old)
    BY SectorPlace
  <2>2. at + 3 <= Len(new)
    BY <1>1, <1>2, <1>3, <2>1
  <2> QED  BY <1>2, <2>1, <2>2, SectorPlace
<1>6. ASSUME NEW at \in Places(new), at # ofs
      PROVE  /\ at \in Places(old) /\ (at + 3 <= ofs \/ at >= ofs + 3)
             /\ new[at + 1] = old[at + 1] /\ new[at + 2] = old[at + 2]
             /\ new[at + 3] = old[at + 3]
  <2>1. at \in Nat /\ OnSector(at) /\ at + 3 <= Len(new)
    BY <1>2, SectorPlace
  <2>2. at + 3 <= ofs \/ at >= ofs + 3
    BY <1>1, <1>6, <2>1, Apart
  <2>3. at + 3 <= Len(old)
    BY <1>1, <1>2, <1>3, <2>1, <2>2
  <2>4. at \in Places(old)
    BY <2>1, <2>3, SectorPlace
  <2>5. \A i \in {at + 1, at + 2, at + 3} : i \in 1 .. Len(old) /\ i \notin ofs + 1 .. ofs + 3
    BY <1>1, <2>1, <2>2, <2>3
  <2> QED  BY <1>2, <2>2, <2>4, <2>5
<1> QED  BY <1>4, <1>5, <1>6

\* Places stay where one field was put, and so do the fields of the others.
LEMMA PutOnePlaces ==
    ASSUME NEW old \in Seq(Nat), NEW ofs \in 0 .. Len(old) - 1, OnSector(ofs),
           NEW new, NEW x, PutOne(new, old, x, ofs)
    PROVE  /\ Places(new) = Places(old)
           /\ \A at \in Places(new) :
                /\ at # ofs => new[at + 1] = old[at + 1]
                /\ new[at + 2] = old[at + 2] /\ new[at + 3] = old[at + 3]
<1>1. Len(old) \in Nat /\ ofs \in Nat
  OBVIOUS
<1>2. /\ new \in Seq(Nat) /\ Len(new) = Len(old)
      /\ \A i \in 1 .. Len(old) : i # ofs + 1 => new[i] = old[i]
  BY DEF PutOne
<1>3. Places(new) = Places(old)
  BY <1>2 DEF Places
<1>4. ASSUME NEW at \in Places(new)
      PROVE  /\ at # ofs => new[at + 1] = old[at + 1]
             /\ new[at + 2] = old[at + 2] /\ new[at + 3] = old[at + 3]
  <2>1. at \in Nat /\ OnSector(at) /\ at + 3 <= Len(old)
    BY <1>3, SectorPlace
  <2>2. at = ofs \/ at + 3 <= ofs \/ at >= ofs + 3
    BY <1>1, <2>1, Apart
  <2>3. /\ at + 2 # ofs + 1 /\ at + 3 # ofs + 1 /\ (at # ofs => at + 1 # ofs + 1)
        /\ at + 1 \in 1 .. Len(old) /\ at + 2 \in 1 .. Len(old) /\ at + 3 \in 1 .. Len(old)
    BY <1>1, <2>1, <2>2
  <2> QED  BY <1>2, <2>3
<1> QED  BY <1>3, <1>4

\* A whole header or record leaves a sound journal sound.
LEMMA SoundThree ==
    ASSUME NEW old \in Seq(Nat), NEW base \in Seq(Nat), Sound(old, base),
           NEW x \in Nat, NEW y \in Nat, NEW z \in Nat, NEW ofs \in 0 .. Len(old), OnSector(ofs),
           x \in 1 .. Len(base) /\ z # 0 => y = base[x], z # 0 \/ ofs = 0,
           \A at \in Places(old) : at > 0 /\ at < ofs => old[at + 3] # 0,
           NEW new, PutThree(new, old, x, y, z, ofs)
    PROVE  Sound(new, base)
<1>1. /\ new \in Seq(Nat) /\ Len(new) >= Len(old)
      /\ Len(new) = Len(old) \/ Len(new) = ofs + 3
      /\ new[ofs + 1] = x /\ new[ofs + 2] = y /\ new[ofs + 3] = z
      /\ \A i \in 1 .. Len(old) : i \notin ofs + 1 .. ofs + 3 => new[i] = old[i]
  BY DEF PutThree
<1>2. Len(old) \in Nat /\ ofs \in Nat /\ Len(new) \in Nat
  BY <1>1
<1> SUFFICES ASSUME NEW at \in Places(new)
             PROVE  /\ new[at + 1] \in 1 .. Len(base) /\ new[at + 3] # 0
                         => new[at + 2] = base[new[at + 1]]
                    /\ at > 0 /\ new[at + 3] = 0 => \A i \in at + 4 .. Len(new) : new[i] = 0
  BY DEF Sound
<1>3. CASE at = ofs
  <2>1. new[at + 1] = x /\ new[at + 2] = y /\ new[at + 3] = z
    BY <1>1, <1>3
  <2>2. x \in 1 .. Len(base) /\ z # 0 => y = base[x]
    OBVIOUS
  <2>3. ~ (at > 0 /\ z = 0)
    BY <1>3
  <2> QED  BY <2>1, <2>2, <2>3
<1>4. CASE at # ofs
  <2>1. /\ at \in Places(old) /\ (at + 3 <= ofs \/ at >= ofs + 3)
        /\ new[at + 1] = old[at + 1] /\ new[at + 2] = old[at + 2] /\ new[at + 3] = old[at + 3]
    BY <1>4, PutThreePlaces
  <2>2. at \in Nat /\ at + 3 <= Len(old)
    BY <2>1, SectorPlace
  <2>4. /\ old[at + 1] \in 1 .. Len(base) /\ old[at + 3] # 0 => old[at + 2] = base[old[at + 1]]
        /\ at > 0 /\ old[at + 3] = 0 => \A i \in at + 4 .. Len(old) : old[i] = 0
    BY <2>1 DEF Sound
  <2>5. ASSUME at > 0, new[at + 3] = 0, NEW i \in at + 4 .. Len(new) PROVE new[i] = 0
    <3>1. ~ (at < ofs)
      BY <2>1, <2>5
    <3>2. at >= ofs + 3 /\ Len(new) = Len(old)
      BY <1>1, <1>2, <2>1, <2>2, <3>1
    <3>3. i \in at + 4 .. Len(old) /\ i \in 1 .. Len(old) /\ i \notin ofs + 1 .. ofs + 3
      BY <1>2, <2>2, <2>5, <3>2
    <3> QED  BY <1>1, <2>1, <2>4, <2>5, <3>3
  <2> QED  BY <2>1, <2>4, <2>5
<1> QED  BY <1>3, <1>4

\* So does a new first field that is no page of the database.
LEMMA SoundOne ==
    ASSUME NEW old \in Seq(Nat), NEW base \in Seq(Nat), Sound(old, base),
           NEW x \in Nat, x \notin 1 .. Len(base), NEW ofs \in 0 .. Len(old) - 1, OnSector(ofs),
           \A at \in Places(old) : at > 0 /\ at < ofs => old[at + 3] # 0,
           NEW new, PutOne(new, old, x, ofs)
    PROVE  Sound(new, base)
<1>1. /\ new \in Seq(Nat) /\ Len(new) = Len(old) /\ new[ofs + 1] = x
      /\ \A i \in 1 .. Len(old) : i # ofs + 1 => new[i] = old[i]
  BY DEF PutOne
<1>2. Len(old) \in Nat /\ ofs \in Nat
  OBVIOUS
<1> SUFFICES ASSUME NEW at \in Places(new)
             PROVE  /\ new[at + 1] \in 1 .. Len(base) /\ new[at + 3] # 0
                         => new[at + 2] = base[new[at + 1]]
                    /\ at > 0 /\ new[at + 3] = 0 => \A i \in at + 4 .. Len(new) : new[i] = 0
  BY DEF Sound
<1>3. /\ at \in Places(old) /\ (at # ofs => new[at + 1] = old[at + 1])
      /\ new[at + 2] = old[at + 2] /\ new[at + 3] = old[at + 3]
  BY PutOnePlaces
<1>4. at \in Nat /\ at + 3 <= Len(old)
  BY <1>3, SectorPlace
<1>5. /\ old[at + 1] \in 1 .. Len(base) /\ old[at + 3] # 0 => old[at + 2] = base[old[at + 1]]
      /\ at > 0 /\ old[at + 3] = 0 => \A i \in at + 4 .. Len(old) : old[i] = 0
  BY <1>3 DEF Sound
<1>6. new[at + 1] \in 1 .. Len(base) /\ new[at + 3] # 0 => new[at + 2] = base[new[at + 1]]
  BY <1>1, <1>3, <1>5
<1>7. ASSUME at > 0, new[at + 3] = 0, NEW i \in at + 4 .. Len(new) PROVE new[i] = 0
  <2>1. i \in at + 4 .. Len(old) /\ i \in 1 .. Len(old) /\ old[i] = 0
    BY <1>1, <1>2, <1>3, <1>4, <1>5, <1>7
  <2>2. ~ (at < ofs)
    BY <1>3, <1>7
  <2>3. i # ofs + 1
    BY <1>2, <1>4, <2>1, <2>2
  <2> QED  BY <1>1, <2>1, <2>3
<1> QED  BY <1>6, <1>7

-----------------------------------------------------------------------------
(* What each write of the pager makes of its journal.                      *)

\* An interval that ends sooner.
LEMMA Shorter ==
    ASSUME NEW c \in Int, NEW end \in Int, c <= end
    PROVE  1..c \subseteq 1..end
OBVIOUS

\* The cell after an interval that ends sooner.
LEMMA NextWithin ==
    ASSUME NEW c \in Nat, NEW end \in Nat, c < end
    PROVE  c + 1 \in 1..end
OBVIOUS

\* The places before the end of an unsealed journal.
PlacesOf(data, seed, c, n, end) ==
    \A at \in Places(data) : at < end =>
      data[at + 3] = seed /\ (at < c \/ \E i \in 0..n : at = c + 3 * i)

LEMMA UnsealedFacts ==
    ASSUME NEW data \in Seq(Nat), NEW base \in Seq(Nat), NEW seed \in Nat,
           NEW c \in Nat, NEW n \in Nat, NEW pages,
           Unsealed(data, base, seed, c, n, pages),
           NEW end \in Nat, end = c + 3 * (n + 1)
    PROVE  /\ OnSector(c) /\ OnSector(end) /\ c < end /\ end <= Len(data)
           /\ PlacesOf(data, seed, c, n, end)
<1>1. /\ Chained(data, c) /\ data[3] = seed /\ end <= Len(data)
      /\ \A i \in 0..n : data[c + 3 * i + 3] = seed
  BY DEF Unsealed, Begun, Sector
<1>2. c % 3 = 0 /\ \A at \in Places(data) : at < c => data[at + 3] = data[3]
  BY <1>1 DEF Chained, Sector
<1>3. OnSector(c) /\ OnSector(end) /\ c < end
  BY <1>2 DEF OnSector
<1>4. ASSUME NEW at \in Places(data), at < end
      PROVE  data[at + 3] = seed /\ (at < c \/ \E i \in 0..n : at = c + 3 * i)
  <2>1. CASE at < c
    BY <1>1, <1>2, <2>1
  <2>2. CASE at >= c
    <3>1. at \in Nat /\ at % 3 = 0
      BY PlaceFacts
    <3>2. PICK i \in Int : i = (at - c) \div 3
      BY <3>1
    <3>3. at = c + 3 * i /\ i \in 0..n
      BY <1>2, <1>4, <2>2, <3>1, <3>2
    <3> QED  BY <1>1, <3>3
  <2>3. at \in Nat
    BY PlaceFacts
  <2> QED  BY <2>1, <2>2, <2>3
<1> QED  BY <1>1, <1>3, <1>4 DEF PlacesOf

\* A chain is where the cells before its end are.
LEMMA ChainedSame ==
    ASSUME NEW data \in Seq(Nat), NEW same \in Seq(Nat), NEW c \in Nat, Chained(data, c),
           c <= Len(same), \A i \in 1..c : same[i] = data[i]
    PROVE  Chained(same, c) /\ Recorded(same, c) = Recorded(data, c)
<1>0. c <= Len(data) /\ Len(data) \in Nat /\ Len(same) \in Nat
  BY DEF Chained
<1>1. /\ c % 3 = 0 /\ c <= Len(data) /\ (c > 0 => IsMagic(data[1]))
      /\ \A at \in Places(data) : at < c => data[at + 3] = data[3]
  BY DEF Chained, Sector
<1>2. OnSector(c) /\ Len(data) \in Nat /\ Len(same) \in Nat
  BY <1>1 DEF OnSector
<1>3. ASSUME NEW at \in Nat, OnSector(at), at < c PROVE at + 3 <= c
  BY <1>2, <1>3, Apart
<1>4. ASSUME NEW at \in Nat, at < c PROVE at \in Places(same) <=> at \in Places(data)
  <2>1. CASE OnSector(at)
    <3>1. at + 3 <= c
      BY <1>3, <1>4, <2>1
    <3>2. at + 3 <= Len(same) /\ at + 3 <= Len(data)
      BY <1>0, <3>1
    <3> QED  BY <2>1, <3>2, SectorPlace
  <2>2. CASE ~OnSector(at)
    BY <2>2, SectorPlace
  <2> QED  BY <2>1, <2>2
<1>5. \A at \in Places(same) : at \in Nat /\ OnSector(at)
  BY SectorPlace
<1>6. ASSUME NEW at \in Places(same), at < c
      PROVE  /\ at \in Places(data)
             /\ same[at + 1] = data[at + 1] /\ same[at + 3] = data[at + 3] /\ same[3] = data[3]
  <2>1. at \in Nat /\ at + 3 <= c
    BY <1>3, <1>5, <1>6
  <2> QED  BY <1>4, <1>6, <2>1
<1>7. ASSUME NEW at \in Places(data), at < c PROVE at \in Places(same) /\ same[at + 1] = data[at + 1]
  <2>1. at \in Nat
    BY SectorPlace
  <2>2. at \in Places(same)
    BY <1>4, <1>7, <2>1
  <2> QED  BY <1>6, <1>7, <2>2
<1>8. Recorded(same, c) = Recorded(data, c)
  <2>1. \A p : p \in Recorded(same, c) => p \in Recorded(data, c)
    BY <1>6 DEF Recorded, PagesAt
  <2>2. \A p : p \in Recorded(data, c) => p \in Recorded(same, c)
    BY <1>7 DEF Recorded, PagesAt
  <2> QED  BY <2>1, <2>2
<1>9. ASSUME NEW hdr \in Places(same), hdr < c, IsMagic(same[hdr + 1])
      PROVE  LET n    == same[hdr + 1] - Magic(0)
                 next == hdr + Sector * (n + 1)
             IN  /\ n # AllRecs /\ next <= c /\ (next < c => IsMagic(same[next + 1]))
                 /\ \A i \in 1..n : same[hdr + Sector * i + 1] \in 1 .. MaxPages
  <2>1. hdr \in Places(data) /\ same[hdr + 1] = data[hdr + 1] /\ hdr \in Nat /\ hdr + 1 <= Len(data)
    BY <1>5, <1>6, <1>9, SectorPlace
  <2>2. PICK n : n = data[hdr + 1] - Magic(0)
    OBVIOUS
  <2>3. PICK next : next = hdr + Sector * (n + 1)
    OBVIOUS
  <2>4. n \in Nat
    <3>1. data[hdr + 1] \in Nat
      BY <2>1
    <3>2. data[hdr + 1] > MaxPages /\ MaxPages \in Nat
      BY <1>9, <2>1, BoundsAssumption DEF IsMagic
    <3>3. n = data[hdr + 1] - (MaxPages + 1 + 0)
      BY <2>2 DEF Magic
    <3> HIDE DEF Magic
    <3> QED  BY <3>1, <3>2, <3>3
  <2>5. /\ n # AllRecs /\ next <= c /\ (next < c => IsMagic(data[next + 1]))
        /\ \A i \in 1..n : data[hdr + Sector * i + 1] \in 1 .. MaxPages
    BY <1>9, <2>1, <2>2, <2>3 DEF Chained
  <2>6. next \in Nat /\ next >= 3 /\ next = hdr + 3 * (n + 1)
    BY <2>1, <2>3, <2>4 DEF Sector
  <2>7. next < c => same[next + 1] = data[next + 1]
    <3>1. next < c => next + 1 \in 1..c
      BY <2>6
    <3> QED  BY <3>1
  <2>8. ASSUME NEW i \in 1..n PROVE same[hdr + Sector * i + 1] = data[hdr + Sector * i + 1]
    <3>1. hdr + 3 * i + 1 \in 1..c
      BY <2>1, <2>4, <2>5, <2>6
    <3> QED  BY <3>1 DEF Sector
  <2> QED  BY <2>1, <2>2, <2>3, <2>5, <2>7, <2>8
<1>10. c > 0 => IsMagic(same[1])
  BY <1>1
<1>11. \A at \in Places(same) : at < c => same[at + 3] = same[3]
  BY <1>1, <1>6
<1> QED  BY <1>1, <1>8, <1>9, <1>10, <1>11 DEF Chained, Sector

\* writeJournalHdr, at the start of the journal.
LEMMA BeginJournal ==
    ASSUME NEW old \in Seq(Nat), NEW base \in Seq(Nat), Sound(old, base), NEW seed \in Nat \ {0},
           NEW new, PutThree(new, old, 0, Len(base), seed, 0)
    PROVE  Unsealed(new, base, seed, 0, 0, {})
<1>1. /\ new \in Seq(Nat) /\ Len(new) >= 0 + 3
      /\ new[0 + 1] = 0 /\ new[0 + 2] = Len(base) /\ new[0 + 3] = seed
  BY DEF PutThree
<1>2. Len(base) \in Nat /\ 0 \in 0 .. Len(old) /\ OnSector(0)
  BY DEF OnSector
<1>3. Sound(new, base)
  <2>1. \A at \in Places(old) : at > 0 /\ at < 0 => old[at + 3] # 0
    BY SectorPlace
  <2> QED  BY <1>2, <2>1, SoundThree
<1>4. ~ \E at \in Places(new) : at < 0
  BY <1>1, SectorPlace
<1>5. Chained(new, 0)
  BY <1>1, <1>4 DEF Chained, Sector
<1>6. Recorded(new, 0) = {}
  BY <1>4 DEF Recorded, PagesAt
<1>7. Begun(new, base, seed)
  BY <1>1, <1>3 DEF Begun, Sector
<1> QED  BY <1>1, <1>5, <1>6, <1>7 DEF Unsealed, Sector

\* Cells before the place that is written stay.
LEMMA PutThreeBefore ==
    ASSUME NEW old \in Seq(Nat), NEW ofs \in 0 .. Len(old), NEW x, NEW y, NEW z,
           NEW new, PutThree(new, old, x, y, z, ofs)
    PROVE  ofs <= Len(new) /\ \A i \in 1..ofs : new[i] = old[i]
<1>1. /\ new \in Seq(Nat) /\ Len(new) >= ofs + 3 /\ Len(old) \in Nat /\ ofs \in Nat
      /\ \A i \in 1 .. Len(old) : i \notin ofs + 1 .. ofs + 3 => new[i] = old[i]
  BY DEF PutThree
<1>2. Len(new) \in Nat
  BY <1>1
<1> QED  BY <1>1, <1>2

\* The same for one field.
LEMMA PutOneBefore ==
    ASSUME NEW old \in Seq(Nat), NEW ofs \in 0 .. Len(old) - 1, NEW x,
           NEW new, PutOne(new, old, x, ofs)
    PROVE  ofs <= Len(new) /\ \A i \in 1..ofs : new[i] = old[i]
<1>1. /\ new \in Seq(Nat) /\ Len(new) = Len(old) /\ Len(old) \in Nat /\ ofs \in Nat
      /\ \A i \in 1 .. Len(old) : i # ofs + 1 => new[i] = old[i]
  BY DEF PutOne
<1> QED  BY <1>1

\* A journal whose first record is that far on has a header before it.
LEMMA HeaderStays ==
    ASSUME NEW data \in Seq(Nat), NEW same \in Seq(Nat), NEW base, NEW seed,
           Begun(data, base, seed), Sound(same, base), NEW ofs \in Nat, ofs >= 3, ofs <= Len(same),
           \A i \in 1..ofs : same[i] = data[i]
    PROVE  Begun(same, base, seed)
<1>1. data[2] = Len(base) /\ data[3] = seed
  BY DEF Begun
<1>2. 2 \in 1..ofs /\ 3 \in 1..ofs /\ Len(same) \in Nat
  OBVIOUS
<1>3. same[2] = Len(base) /\ same[3] = seed
  BY <1>1, <1>2
<1>4. Len(same) >= 3
  BY <1>2
<1> QED  BY <1>3, <1>4 DEF Begun, Sector

\* pagerAddPageToRollbackJournal
LEMMA AppendRecord ==
    ASSUME NEW old \in Seq(Nat), NEW base \in Seq(Nat), NEW seed \in Nat \ {0},
           NEW c \in Nat, NEW n \in Nat, NEW pages, Unsealed(old, base, seed, c, n, pages),
           NEW p \in 1 .. Len(base), NEW page \in Nat, page = base[p],
           NEW new, NEW end \in Nat, end = c + 3 * (n + 1),
           PutThree(new, old, p, page, seed, end)
    PROVE  Unsealed(new, base, seed, c, n + 1, pages \cup {p})
<1>0. /\ OnSector(c) /\ OnSector(end) /\ c < end /\ end <= Len(old)
      /\ PlacesOf(old, seed, c, n, end)
  BY UnsealedFacts
<1>1. /\ OnSector(c) /\ OnSector(end) /\ c < end /\ end <= Len(old)
      /\ \A at \in Places(old) : at < end => old[at + 3] = seed
  BY <1>0 DEF PlacesOf
<1>2. /\ Begun(old, base, seed) /\ Chained(old, c) /\ Sound(old, base) /\ old[c + 1] = 0
      /\ \A i \in 0..n : old[c + 3 * i + 3] = seed
      /\ \A i \in 1..n : old[c + 3 * i + 1] \in 1 .. Len(base)
      /\ pages = Recorded(old, c) \cup {old[c + 3 * i + 1] : i \in 1..n}
      /\ pages \subseteq 1 .. Len(base)
  BY DEF Unsealed, Begun, Sector
<1>3. end \in 0 .. Len(old) /\ Len(old) \in Nat
  BY <1>1
<1>4. /\ new \in Seq(Nat) /\ Len(new) >= end + 3
      /\ new[end + 1] = p /\ new[end + 2] = page /\ new[end + 3] = seed
  BY DEF PutThree
<1>5. end <= Len(new) /\ \A i \in 1..end : new[i] = old[i]
  <2>1. ASSUME NEW ofs \in 0 .. Len(old), PutThree(new, old, p, page, seed, ofs)
        PROVE  ofs <= Len(new) /\ \A i \in 1..ofs : new[i] = old[i]
    BY <2>1, PutThreeBefore
  <2> QED  BY <1>3, <2>1
<1>6. Sound(new, base)
  <2>1. p \in Nat /\ Len(base) \in Nat
    OBVIOUS
  <2> QED  BY <1>1, <1>2, <1>3, <2>1, SoundThree
<1>7. Begun(new, base, seed)
  <2>1. end >= 3
    OBVIOUS
  <2> QED  BY <1>2, <1>4, <1>5, <1>6, <2>1, HeaderStays
<1>8. Chained(new, c) /\ Recorded(new, c) = Recorded(old, c)
  <2>1. c <= Len(new)
    BY <1>1, <1>4
  <2>2. \A i \in 1..c : i \in 1..end
    BY <1>1
  <2>3. \A i \in 1..c : new[i] = old[i]
    BY <1>5, <2>2
  <2> QED  BY <1>2, <1>4, <2>1, <2>3, ChainedSame
<1>9. \A i \in 0..n : new[c + 3 * i + 3] = old[c + 3 * i + 3] /\ new[c + 3 * i + 1] = old[c + 3 * i + 1]
  <2>1. \A i \in 0..n : c + 3 * i + 3 \in 1..end /\ c + 3 * i + 1 \in 1..end
    OBVIOUS
  <2> QED  BY <1>5, <2>1
<1>10. new[c + 1] = 0
  <2>1. c + 1 \in 1..end
    BY <1>1
  <2> QED  BY <1>2, <1>5, <2>1
<1>11. c + 3 * (n + 1) = end /\ c + 3 * ((n + 1) + 1) = end + 3
  OBVIOUS
<1>12. \A i \in 0 .. n + 1 : new[c + 3 * i + 3] = seed
  <2>1. \A i \in 0 .. n + 1 : i \in 0..n \/ i = n + 1
    OBVIOUS
  <2> QED  BY <1>2, <1>4, <1>9, <1>11, <2>1
<1>13. \A i \in 1 .. n + 1 : new[c + 3 * i + 1] = IF i = n + 1 THEN p ELSE old[c + 3 * i + 1]
  <2>1. \A i \in 1 .. n + 1 : i \in 0..n \/ i = n + 1
    OBVIOUS
  <2> QED  BY <1>4, <1>9, <1>11, <2>1
<1>14. \A i \in 1 .. n + 1 : new[c + 3 * i + 1] \in 1 .. Len(base)
  <2>1. \A i \in 1 .. n + 1 : i # n + 1 => i \in 1..n
    OBVIOUS
  <2> QED  BY <1>2, <1>13, <2>1
<1>15. {new[c + 3 * i + 1] : i \in 1 .. n + 1} = {old[c + 3 * i + 1] : i \in 1..n} \cup {p}
  <2>1. n + 1 \in 1 .. n + 1 /\ \A i \in 1..n : i \in 1 .. n + 1 /\ i # n + 1
    OBVIOUS
  <2>2. \A i \in 1 .. n + 1 : i # n + 1 => i \in 1..n
    OBVIOUS
  <2> QED  BY <1>13, <2>1, <2>2
<1>16. pages \cup {p} = Recorded(new, c) \cup {new[c + 3 * i + 1] : i \in 1 .. n + 1}
  BY <1>2, <1>8, <1>15
<1>17. pages \cup {p} \subseteq 1 .. Len(base)
  BY <1>2
<1> QED  BY <1>4, <1>7, <1>8, <1>10, <1>11, <1>12, <1>14, <1>16, <1>17 DEF Unsealed, Sector

\* What of an unsealed journal depends on the cells before its end only.
LEMMA UnsealedSame ==
    ASSUME NEW old \in Seq(Nat), NEW base \in Seq(Nat), NEW seed \in Nat \ {0},
           NEW c \in Nat, NEW n \in Nat, NEW pages, Unsealed(old, base, seed, c, n, pages),
           NEW new \in Seq(Nat), NEW end \in Nat, end = c + 3 * (n + 1),
           end <= Len(new), \A i \in 1..end : new[i] = old[i], Sound(new, base)
    PROVE  Unsealed(new, base, seed, c, n, pages)
<1>1. c < end /\ end <= Len(old)
  BY UnsealedFacts
<1>2. /\ Begun(old, base, seed) /\ Chained(old, c) /\ old[c + 1] = 0
      /\ \A i \in 0..n : old[c + 3 * i + 3] = seed
      /\ \A i \in 1..n : old[c + 3 * i + 1] \in 1 .. Len(base)
      /\ pages = Recorded(old, c) \cup {old[c + 3 * i + 1] : i \in 1..n}
      /\ pages \subseteq 1 .. Len(base)
  BY DEF Unsealed, Begun, Sector
<1>3. Begun(new, base, seed)
  <2>1. end >= 3
    OBVIOUS
  <2> QED  BY <1>2, <2>1, HeaderStays
<1>4. Chained(new, c) /\ Recorded(new, c) = Recorded(old, c)
  <2>1. c <= Len(new)
    <3>1. Len(new) \in Nat
      OBVIOUS
    <3> QED  BY <1>1, <3>1
  <2>2. 1..c \subseteq 1..end
    BY <1>1, Shorter
  <2>3. \A i \in 1..c : new[i] = old[i]
    BY <2>2
  <2> QED  BY <1>2, <2>1, <2>3, ChainedSame
<1>5. \A i \in 0..n : new[c + 3 * i + 3] = old[c + 3 * i + 3] /\ new[c + 3 * i + 1] = old[c + 3 * i + 1]
  <2>1. \A i \in 0..n : c + 3 * i + 3 \in 1..end /\ c + 3 * i + 1 \in 1..end
    OBVIOUS
  <2> QED  BY <2>1
<1>6. new[c + 1] = 0
  <2>1. c + 1 \in 1..end
    BY <1>1, NextWithin
  <2> QED  BY <1>2, <2>1
<1>7. \A i \in 1..n : i \in 0..n
  OBVIOUS
<1>8. \A i \in 1..n : new[c + 3 * i + 1] = old[c + 3 * i + 1]
  BY <1>5, <1>7
<1>9. {new[c + 3 * i + 1] : i \in 1..n} = {old[c + 3 * i + 1] : i \in 1..n}
  BY <1>8
<1> QED  BY <1>2, <1>3, <1>4, <1>5, <1>6, <1>8, <1>9 DEF Unsealed, Sector

\* syncJournal, for a header that an older transaction left behind the records.
LEMMA ZeroNextHeader ==
    ASSUME NEW old \in Seq(Nat), NEW base \in Seq(Nat), NEW seed \in Nat \ {0},
           NEW c \in Nat, NEW n \in Nat, NEW pages, Unsealed(old, base, seed, c, n, pages),
           NEW new, NEW end \in Nat, end = c + 3 * (n + 1), end < Len(old),
           PutOne(new, old, 0, end)
    PROVE  Unsealed(new, base, seed, c, n, pages)
<1>0. OnSector(end) /\ PlacesOf(old, seed, c, n, end)
  BY UnsealedFacts
<1>1. OnSector(end) /\ \A at \in Places(old) : at < end => old[at + 3] = seed
  BY <1>0 DEF PlacesOf
<1>2. end \in 0 .. Len(old) - 1 /\ Sound(old, base) /\ new \in Seq(Nat)
  BY DEF Unsealed, Begun, PutOne
<1>3. end <= Len(new) /\ \A i \in 1..end : new[i] = old[i]
  <2>1. ASSUME NEW ofs \in 0 .. Len(old) - 1, NEW x, PutOne(new, old, x, ofs)
        PROVE  ofs <= Len(new) /\ \A i \in 1..ofs : new[i] = old[i]
    BY <1>2, <2>1, PutOneBefore
  <2> QED  BY <1>2, <2>1
<1>4. Sound(new, base)
  <2>1. 0 \in Nat /\ 0 \notin 1 .. Len(base)
    OBVIOUS
  <2> QED  BY <1>1, <1>2, <2>1, SoundOne
<1> QED  BY <1>2, <1>3, <1>4, UnsealedSame

\* syncJournal writes nRec, and with it the magic number.
LEMMA SealHeader ==
    ASSUME NEW old \in Seq(Nat), NEW base \in Seq(Nat), Len(base) <= MaxPages,
           NEW seed \in Nat \ {0}, NEW c \in Nat, NEW n \in Nat, n # AllRecs,
           NEW pages, Unsealed(old, base, seed, c, n, pages),
           NEW end \in Nat, end = c + 3 * (n + 1),
           NEW new, NEW x \in Nat, x = Magic(n), PutOne(new, old, x, c)
    PROVE  Sealed(new, base, seed, end, pages)
<1>0. end = c + 3 * (n + 1)
  OBVIOUS
<1>1. /\ OnSector(c) /\ OnSector(end) /\ c < end /\ end <= Len(old)
      /\ \A at \in Places(old) : at < end =>
                old[at + 3] = seed /\ (at < c \/ \E i \in 0..n : at = c + 3 * i)
  <2>1. /\ OnSector(c) /\ OnSector(end) /\ c < end /\ end <= Len(old)
        /\ PlacesOf(old, seed, c, n, end)
    BY UnsealedFacts
  <2> QED  BY <2>1 DEF PlacesOf
<1>2. /\ Begun(old, base, seed) /\ Sound(old, base) /\ Chained(old, c) /\ old[c + 1] = 0
      /\ old[2] = Len(base) /\ old[3] = seed
      /\ \A i \in 1..n : old[c + 3 * i + 1] \in 1 .. Len(base)
      /\ pages = Recorded(old, c) \cup {old[c + 3 * i + 1] : i \in 1..n}
      /\ pages \subseteq 1 .. Len(base)
  BY DEF Unsealed, Begun, Sector
<1>3. c \in 0 .. Len(old) - 1 /\ Len(old) \in Nat
  BY <1>1
<1>4. /\ new \in Seq(Nat) /\ Len(new) = Len(old) /\ new[c + 1] = x
      /\ \A i \in 1 .. Len(old) : i # c + 1 => new[i] = old[i]
  BY DEF PutOne
<1>5. x > MaxPages /\ x = MaxPages + 1 + n /\ MaxPages \in Nat
  BY BoundsAssumption DEF Magic
<1>6. x \notin 1 .. Len(base)
  BY <1>5
<1>7. /\ Places(new) = Places(old)
      /\ \A at \in Places(new) :
                /\ at # c => new[at + 1] = old[at + 1]
                /\ new[at + 2] = old[at + 2] /\ new[at + 3] = old[at + 3]
  BY <1>1, <1>3, PutOnePlaces
<1>8. Sound(new, base)
  <2>0. \A at \in Places(old) : at < c => at < end
    BY <1>1, <1>3, SectorPlace
  <2>1. \A at \in Places(old) : at > 0 /\ at < c => old[at + 3] # 0
    BY <1>1, <2>0
  <2> QED  BY <1>1, <1>2, <1>3, <1>6, <2>1, SoundOne
<1>9. 0 \in Places(new)
  <2>1. Len(new) >= 3
    BY <1>2, <1>4 DEF Begun, Sector
  <2>2. 0 + 3 <= Len(new) /\ OnSector(0)
    BY <1>1, <1>4, <2>1 DEF OnSector
  <2> QED  BY <1>4, <2>2, SectorPlace
<1>10. Begun(new, base, seed)
  <2>1. new[0 + 2] = old[0 + 2] /\ new[0 + 3] = old[0 + 3]
    BY <1>7, <1>9
  <2> QED  BY <1>2, <1>4, <1>8, <2>1 DEF Begun, Sector
<1>11. c <= Len(new) /\ \A i \in 1..c : new[i] = old[i]
  BY <1>1, <1>4
<1>12. Chained(new, c) /\ Recorded(new, c) = Recorded(old, c)
  BY <1>2, <1>4, <1>11, ChainedSame
<1>13. IsMagic(new[1])
  <2>1. CASE c = 0
    <3>1. new[1] > MaxPages
      BY <1>4, <1>5, <2>1
    <3> QED  BY <3>1 DEF IsMagic
  <2>2. CASE c > 0
    BY <1>12, <2>2 DEF Chained
  <2> QED  BY <2>1, <2>2
<1>14. \A i \in 0..n : c + 3 * i \in Places(new)
  <2>1. \A i \in 0..n : c + 3 * i \in Nat /\ (c + 3 * i) + 3 <= Len(new)
    BY <1>0, <1>1, <1>4
  <2>2. \A i \in 0..n : OnSector(c + 3 * i)
    BY <1>1 DEF OnSector
  <2> QED  BY <1>4, <2>1, <2>2, SectorPlace
<1>15. \A i \in 1..n : new[c + 3 * i + 1] = old[c + 3 * i + 1]
  <2>1. \A i \in 1..n : i \in 0..n /\ c + 3 * i # c
    OBVIOUS
  <2> QED  BY <1>7, <1>14, <2>1
<1>16. \A at \in Places(new) : at < end =>
         \/ at < c
         \/ at = c
         \/ \E i \in 1..n : at = c + 3 * i
  <2>1. \A i \in 0..n : i \in 1..n \/ c + 3 * i = c
    OBVIOUS
  <2> QED  BY <1>1, <1>7, <2>1
<1>17. \A i \in 1..n : new[c + 3 * i + 1] \in 1 .. MaxPages /\ ~IsMagic(new[c + 3 * i + 1])
  <2>1. \A p \in 1 .. Len(base) : p \in 1 .. MaxPages /\ ~IsMagic(p)
    BY <1>5 DEF IsMagic
  <2> QED  BY <1>2, <1>15, <2>1
<1>18. ASSUME NEW hdr \in Places(new), hdr < end, IsMagic(new[hdr + 1])
       PROVE  LET m    == new[hdr + 1] - Magic(0)
                  next == hdr + Sector * (m + 1)
              IN  /\ m # AllRecs /\ next <= end /\ (next < end => IsMagic(new[next + 1]))
                  /\ \A i \in 1..m : new[hdr + Sector * i + 1] \in 1 .. MaxPages
  <2>1. CASE hdr = c
    <3>1. new[hdr + 1] - Magic(0) = n
      BY <1>4, <1>5, <2>1 DEF Magic
    <3>2. hdr + Sector * (n + 1) = end
      BY <1>0, <2>1 DEF Sector
    <3>3. \A i \in 1..n : new[hdr + Sector * i + 1] \in 1 .. MaxPages
      BY <1>17, <2>1 DEF Sector
    <3> QED  BY <1>0, <3>1, <3>2, <3>3
  <2>2. CASE hdr < c
    <3>1. PICK m : m = new[hdr + 1] - Magic(0)
      OBVIOUS
    <3>2. PICK next : next = hdr + Sector * (m + 1)
      OBVIOUS
    <3>3. /\ m # AllRecs /\ next <= c /\ (next < c => IsMagic(new[next + 1]))
          /\ \A i \in 1..m : new[hdr + Sector * i + 1] \in 1 .. MaxPages
      BY <1>12, <1>18, <2>2, <3>1, <3>2 DEF Chained
    <3>4. next \in Int
      <4>1. hdr \in Nat /\ hdr + 3 <= Len(new) /\ Len(new) \in Nat
        BY <1>4, SectorPlace
      <4>2. hdr + 1 \in 1 .. Len(new)
        BY <4>1
      <4>3. new[hdr + 1] \in Nat
        BY <1>4, <4>2
      <4> QED  BY <1>5, <3>1, <3>2, <4>1, <4>3 DEF Magic, Sector
    <3>5. next <= end /\ (next = c \/ next < c)
      BY <1>1, <3>3, <3>4
    <3>6. next = c => IsMagic(new[next + 1])
      BY <1>4, <1>5 DEF IsMagic
    <3> QED  BY <3>1, <3>2, <3>3, <3>5, <3>6
  <2>3. CASE \E i \in 1..n : hdr = c + 3 * i
    BY <1>17, <1>18, <2>3
  <2> QED  BY <1>16, <1>18, <2>1, <2>2, <2>3
<1>19. \A at \in Places(new) : at < end => new[at + 3] = new[3]
  <2>1. new[3] = seed
    BY <1>10 DEF Begun
  <2> QED  BY <1>1, <1>7, <2>1
<1>20. Chained(new, end)
  <2>1. end % Sector = 0 /\ end <= Len(new)
    BY <1>1, <1>4 DEF OnSector, Sector
  <2> QED  BY <1>13, <1>18, <1>19, <2>1 DEF Chained
<1>21. Recorded(new, end) = pages
  <2>1. ASSUME NEW p \in Recorded(new, end) PROVE p \in pages
    <3>1. PICK at \in Places(new) : at < end /\ new[at + 1] \in 1 .. MaxPages /\ p = new[at + 1]
      BY DEF Recorded, PagesAt
    <3>2. CASE at < c
      <4>1. p \in Recorded(new, c)
        BY <3>1, <3>2 DEF Recorded, PagesAt
      <4> QED  BY <1>2, <1>12, <4>1
    <3>3. CASE at = c
      BY <1>4, <1>5, <3>1, <3>3
    <3>4. CASE \E i \in 1..n : at = c + 3 * i
      BY <1>2, <1>15, <3>1, <3>4
    <3> QED  BY <1>16, <3>1, <3>2, <3>3, <3>4
  <2>2. ASSUME NEW p \in Recorded(old, c) PROVE p \in Recorded(new, end)
    <3>1. PICK at \in Places(new) : at < c /\ new[at + 1] \in 1 .. MaxPages /\ p = new[at + 1]
      BY <1>12, <2>2 DEF Recorded, PagesAt
    <3>2. at < end
      <4>1. at \in Nat
        BY <1>4, SectorPlace
      <4> QED  BY <1>1, <3>1, <4>1
    <3> QED  BY <3>1, <3>2 DEF Recorded, PagesAt
  <2>3. ASSUME NEW i \in 1..n PROVE old[c + 3 * i + 1] \in Recorded(new, end)
    <3>1. c + 3 * i \in Places(new) /\ c + 3 * i < end /\ new[c + 3 * i + 1] \in 1 .. MaxPages
      BY <1>0, <1>14, <1>17
    <3> QED  BY <1>15, <3>1 DEF Recorded, PagesAt
  <2> QED  BY <1>2, <2>1, <2>2, <2>3
<1> QED  BY <1>2, <1>10, <1>20, <1>21 DEF Sealed

\* syncJournal, when the pages are to be spilled: the next header.
LEMMA AppendHeader ==
    ASSUME NEW old \in Seq(Nat), NEW base \in Seq(Nat), NEW seed \in Nat \ {0},
           NEW end \in Nat, end >= 3, NEW pages, Sealed(old, base, seed, end, pages),
           NEW new, PutThree(new, old, 0, Len(base), seed, end)
    PROVE  Unsealed(new, base, seed, end, 0, pages)
<1>1. /\ Begun(old, base, seed) /\ Chained(old, end) /\ Sound(old, base)
      /\ pages = Recorded(old, end) /\ pages \subseteq 1 .. Len(base) /\ old[3] = seed
  BY DEF Sealed, Begun
<1>2. /\ end % 3 = 0 /\ end <= Len(old)
      /\ \A at \in Places(old) : at < end => old[at + 3] = seed
  BY <1>1 DEF Chained, Sector
<1>3. OnSector(end) /\ end \in 0 .. Len(old) /\ Len(base) \in Nat
  BY <1>2 DEF OnSector
<1>4. /\ new \in Seq(Nat) /\ Len(new) >= end + 3
      /\ new[end + 1] = 0 /\ new[end + 2] = Len(base) /\ new[end + 3] = seed
  BY DEF PutThree
<1>5. end <= Len(new) /\ \A i \in 1..end : new[i] = old[i]
  BY <1>3, PutThreeBefore
<1>6. Sound(new, base)
  <2>1. \A at \in Places(old) : at > 0 /\ at < end => old[at + 3] # 0
    BY <1>2
  <2>2. 0 \in Nat /\ seed \in Nat /\ seed # 0 /\ ~ (0 \in 1 .. Len(base))
    OBVIOUS
  <2> QED  BY <1>1, <1>3, <2>1, <2>2, SoundThree
<1>7. Begun(new, base, seed)
  BY <1>1, <1>4, <1>5, <1>6, HeaderStays
<1>8. Chained(new, end) /\ Recorded(new, end) = Recorded(old, end)
  BY <1>1, <1>4, <1>5, ChainedSame
<1> QED  BY <1>1, <1>4, <1>7, <1>8 DEF Unsealed, Sector

\* zeroJournalHdr
LEMMA ZeroFirstHeader ==
    ASSUME NEW old \in Seq(Nat), NEW base \in Seq(Nat), Sound(old, base),
           NEW new, PutThree(new, old, 0, 0, 0, 0)
    PROVE  Sound(new, base) /\ new \in Seq(Nat) /\ Len(new) >= 3 /\ new[1] = 0
<1>1. new \in Seq(Nat) /\ Len(new) >= 0 + 3 /\ new[0 + 1] = 0
  BY DEF PutThree
<1>2. 0 \in 0 .. Len(old) /\ OnSector(0)
  BY DEF OnSector
<1>3. \A at \in Places(old) : at > 0 /\ at < 0 => old[at + 3] # 0
  BY SectorPlace
<1>4. Sound(new, base)
  BY <1>2, <1>3, SoundThree
<1> QED  BY <1>1, <1>4
=============================================================================
