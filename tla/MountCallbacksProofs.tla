------------------------ MODULE MountCallbacksProofs ------------------------
(***************************************************************************)
(* An application that uses SQLite only from callbacks of                  *)
(* async_call_after_mounted is a patient one, for every set of files and   *)
(* of callbacks; so the theorems about patient applications hold of it.    *)
(***************************************************************************)
EXTENDS MountCallbacks, SyncQueueProofs

\* Once a callback has been called, the databases are mounted.
CalledWhenMounted == called # << >> => mounted

\* Nothing is called at the start.
LEMMA CalledInit == InitAll => CalledWhenMounted
BY DEF InitAll, CalledWhenMounted

\* A callback is called when mounted, and only a page load unmounts.
LEMMA CalledStep == CalledWhenMounted /\ [NextAll]_all_vars => CalledWhenMounted'
<1> SUFFICES ASSUME CalledWhenMounted, [NextAll]_all_vars PROVE CalledWhenMounted'
  OBVIOUS
<1>1. ASSUME NEW c, NEW waiting, Invoke(c, waiting), mounted' = mounted
      PROVE  CalledWhenMounted'
  BY <1>1 DEF Invoke, CalledWhenMounted
<1>2. CASE Timer \/ \E c \in Callbacks : Give(c)
  BY <1>1, <1>2 DEF Timer, Give, vars, browser
<1>3. CASE Load \/ UseSQLite \/ RunSyncfs \/ RunPopulate
  BY <1>3 DEF Load, Register, UseSQLite, IdbvfsSyncfs, Write, Remove, RunSyncfs, SaveReads,
     SaveDone, SaveError, SyncCallback, RunPopulate, PopulateDone, PopulateError, async,
     CalledWhenMounted
<1>4. CASE Leave
  BY <1>4 DEF Leave, CalledWhenMounted
<1>5. CASE UNCHANGED all_vars
  BY <1>5 DEF all_vars, vars, browser, async, CalledWhenMounted
<1> QED  BY <1>2, <1>3, <1>4, <1>5 DEF NextAll

\* Every step is one of the patient application, or leaves its variables.
LEMMA StepIsPatient == CalledWhenMounted /\ [NextAll]_all_vars => [Patient!Next]_vars
<1> SUFFICES ASSUME CalledWhenMounted, [NextAll]_all_vars PROVE [Patient!Next]_vars
  OBVIOUS
<1>1. CASE UseSQLite
  <2>1. mounted
    BY <1>1 DEF UseSQLite, CalledWhenMounted
  <2>2. ASSUME IdbvfsSyncfs PROVE Patient!IdbvfsSyncfs
    BY <2>1, <2>2 DEF IdbvfsSyncfs, CanUse, DoSync, Save, Patient!IdbvfsSyncfs, Patient!CanUse,
       Patient!DoSync, Patient!Save
  <2>3. ASSUME NEW f \in Files, Write(f) PROVE Patient!Write(f)
    BY <2>1, <2>3 DEF Write, CanUse, Patient!Write, Patient!CanUse
  <2>4. ASSUME NEW f \in Files, Remove(f) PROVE Patient!Remove(f)
    BY <2>1, <2>4 DEF Remove, CanUse, Patient!Remove, Patient!CanUse
  <2> QED  BY <1>1, <2>2, <2>3, <2>4 DEF UseSQLite, Patient!Next
<1>2. CASE RunSyncfs \/ RunPopulate \/ Load \/ Leave
  BY <1>2
  DEF RunSyncfs, RunPopulate, Load, Leave, Patient!Next, history, Patient!history,
      SaveReads, Patient!SaveReads, SaveDone, Patient!SaveDone, SaveError, Patient!SaveError,
      SyncCallback, Patient!SyncCallback, DoSync, Patient!DoSync, Save, Patient!Save,
      Storing, Patient!Storing, Reconciled, Patient!Reconciled, AllReadable,
      Patient!AllReadable, PopulateDone, Patient!PopulateDone, PopulateError,
      Patient!PopulateError, NoListing, Patient!NoListing, Register, Patient!Register,
      Populate, Patient!Populate, Reload, Patient!Reload, Empty, Patient!Empty
<1>3. CASE Timer \/ (\E c \in Callbacks : Give(c)) \/ UNCHANGED all_vars
  BY <1>3 DEF Timer, Give, all_vars
<1> QED  BY <1>1, <1>2, <1>3 DEF NextAll

\* An application that uses SQLite only after a callback of its own was called
\* implements the patient application.
THEOREM CallbackAppIsPatient == SpecAll => ImplementsPatient
<1>1. InitAll => Patient!Init
  BY DEF InitAll, Init, Patient!Init, Empty, Patient!Empty, NoListing, Patient!NoListing
<1> QED  BY <1>1, CalledInit, CalledStep, StepIsPatient, PTL DEF SpecAll, ImplementsPatient

-----------------------------------------------------------------------------
(* What holds of patient applications.                                     *)

\* Every step is one of SyncQueue, and makes no call before the mount.
LEMMA StepMakesNoEarlyCall ==
    CalledWhenMounted /\ [NextAll]_all_vars => PatientStep
<1> SUFFICES ASSUME CalledWhenMounted, [NextAll]_all_vars PROVE PatientStep
  OBVIOUS
<1>1. CASE UseSQLite
  BY <1>1 DEF UseSQLite, CalledWhenMounted, PatientStep
<1>2. CASE RunSyncfs \/ RunPopulate \/ Load \/ Leave
  BY <1>2 DEF RunSyncfs, RunPopulate, Load, Leave, PatientStep
<1>3. CASE Timer \/ (\E c \in Callbacks : Give(c)) \/ UNCHANGED all_vars
  BY <1>3 DEF Timer, Give, all_vars, PatientStep
<1> QED  BY <1>1, <1>2, <1>3 DEF NextAll

\* The inductive invariants of SyncQueue hold of the composition.
LEMMA AllInvariants ==
    SpecAll => [](CalledWhenMounted /\ PatientInv /\ DrainInv)
<1> DEFINE AllInv == CalledWhenMounted /\ PatientInv /\ DrainInv
<1>1. InitAll => AllInv
  BY CalledInit, QueueInit, MountInit, FilesInit, DrainInit DEF InitAll, PatientInv, QueueTyped
<1>2. AllInv /\ [NextAll]_all_vars => AllInv'
  BY CalledStep, StepMakesNoEarlyCall, QueueStep, MountStep, FilesStep, DrainStep,
     PatientIsNext DEF PatientInv, QueueTyped
<1> QED  BY <1>1, <1>2, PTL DEF SpecAll

\* With such an application a drained queue has saved everything.
THEOREM CallbackAppIsSaved == SpecAll => []DrainedMeansSaved
BY AllInvariants, PTL DEF DrainInv

\* Nothing that such an application has saved is lost.
THEOREM CallbackAppLosesNothing == SpecAll => PersistedSurvives
<1>1. CalledWhenMounted /\ PatientInv /\ [NextAll]_all_vars => [Survives]_vars
  BY StepMakesNoEarlyCall, PatientIsNext, SurvivesStep
<1> QED  BY <1>1, AllInvariants, PTL DEF SpecAll, PersistedSurvives, Survives

-----------------------------------------------------------------------------
(* The callbacks.                                                          *)

\* A callback that a queue does not hold can be appended.
LEMMA AppendFacts ==
    ASSUME NEW queue \in Seq(Callbacks), Distinct(queue), NEW c \in Callbacks,
           ~Holds(queue, c)
    PROVE  /\ Append(queue, c) \in Seq(Callbacks) /\ Distinct(Append(queue, c))
           /\ \A d \in Callbacks : Holds(Append(queue, c), d) <=> d = c \/ Holds(queue, d)
<1>1. /\ Append(queue, c) \in Seq(Callbacks) /\ Len(queue) \in Nat
      /\ DOMAIN queue = 1..Len(queue) /\ DOMAIN Append(queue, c) = 1..Len(queue) + 1
      /\ Append(queue, c)[Len(queue) + 1] = c
      /\ \A i \in 1..Len(queue) : Append(queue, c)[i] = queue[i]
  OBVIOUS
<1>2. \A i \in 1..Len(queue) + 1 : i = Len(queue) + 1 \/ i \in 1..Len(queue)
  BY <1>1
<1> QED  BY <1>1, <1>2 DEF Distinct, Holds

\* A queue holds its head once, and what its tail holds.
LEMMA TailFacts ==
    ASSUME NEW queue \in Seq(Callbacks), Distinct(queue), queue # << >>
    PROVE  /\ Head(queue) \in Callbacks /\ Tail(queue) \in Seq(Callbacks)
           /\ Distinct(Tail(queue)) /\ ~Holds(Tail(queue), Head(queue))
           /\ \A d \in Callbacks : Holds(queue, d) <=> d = Head(queue) \/ Holds(Tail(queue), d)
<1>1. /\ Len(queue) \in Nat \ {0} /\ Head(queue) = queue[1]
      /\ Head(queue) \in Callbacks /\ Tail(queue) \in Seq(Callbacks)
      /\ DOMAIN queue = 1..Len(queue) /\ DOMAIN Tail(queue) = 1..Len(queue) - 1
      /\ \A i \in 1..Len(queue) - 1 : Tail(queue)[i] = queue[i + 1]
  BY EmptySeq, HeadTailProperties
<1>2. \A i \in 1..Len(queue) : i = 1 \/ (i - 1 \in 1..Len(queue) - 1 /\ Tail(queue)[i - 1] = queue[i])
  BY <1>1
<1>3. \A i \in 1..Len(queue) - 1 : i + 1 \in 1..Len(queue) /\ i + 1 # 1
  BY <1>1
<1>4. Distinct(Tail(queue)) /\ ~Holds(Tail(queue), Head(queue))
  BY <1>1, <1>3 DEF Distinct, Holds
<1>5. ASSUME NEW d \in Callbacks PROVE Holds(queue, d) <=> d = Head(queue) \/ Holds(Tail(queue), d)
  <2>1. ASSUME Holds(queue, d) PROVE d = Head(queue) \/ Holds(Tail(queue), d)
    <3>1. PICK i \in 1..Len(queue) : queue[i] = d
      BY <1>1, <2>1 DEF Holds
    <3> QED  BY <1>1, <1>2, <3>1 DEF Holds
  <2>2. ASSUME Holds(Tail(queue), d) PROVE Holds(queue, d)
    <3>1. PICK i \in 1..Len(queue) - 1 : Tail(queue)[i] = d
      BY <1>1, <2>2 DEF Holds
    <3> QED  BY <1>1, <1>3, <3>1 DEF Holds
  <2>3. ASSUME d = Head(queue) PROVE Holds(queue, d)
    BY <1>1, <2>3 DEF Holds
  <2> QED  BY <2>1, <2>2, <2>3
<1> QED  BY <1>1, <1>4, <1>5

\* Every step keeps the callbacks in place.
LEMMA CallbackStep == CallbackInv /\ [NextAll]_all_vars => CallbackInv'
<1> SUFFICES ASSUME CallbackInv, [NextAll]_all_vars PROVE CallbackInv'
  OBVIOUS
<1>0. CalledWhenMounted'
  BY CalledStep DEF CallbackInv, CalledWhenMounted
<1>1. ASSUME NEW c \in Callbacks, Give(c) PROVE CallbackInv'
  <2>1. ~Holds(timers, c) /\ ~Holds(called, c) /\ given' = given \cup {c}
    BY <1>1 DEF Give, CallbackInv
  <2>2. CASE called' = Append(called, c) /\ timers' = timers
    BY <1>0, <2>1, <2>2, AppendFacts DEF CallbackInv, CalledOnce, CalledWhenMounted
  <2>3. CASE called' = called /\ timers' = Append(timers, c)
    BY <1>0, <2>1, <2>3, AppendFacts DEF CallbackInv, CalledOnce, CalledWhenMounted
  <2> QED  BY <1>1, <2>2, <2>3 DEF Give, Invoke
<1>2. CASE Timer
  <2> DEFINE c == Head(timers)
             rest == Tail(timers)
  <2>1. /\ c \in Callbacks /\ rest \in Seq(Callbacks) /\ Distinct(rest) /\ ~Holds(rest, c)
        /\ ~Holds(called, c) /\ given' = given
        /\ \A d \in Callbacks : Holds(timers, d) <=> d = c \/ Holds(rest, d)
    BY <1>2, TailFacts DEF Timer, CallbackInv, CalledOnce
  <2>2. \/ called' = Append(called, c) /\ timers' = rest
        \/ called' = called /\ timers' = Append(rest, c)
    BY <1>2 DEF Timer, Invoke
  <2> HIDE DEF c, rest
  <2>3. CASE called' = Append(called, c) /\ timers' = rest
    BY <1>0, <2>1, <2>3, AppendFacts DEF CallbackInv, CalledOnce, CalledWhenMounted
  <2>4. CASE called' = called /\ timers' = Append(rest, c)
    BY <1>0, <2>1, <2>4, AppendFacts DEF CallbackInv, CalledOnce, CalledWhenMounted
  <2> QED  BY <2>2, <2>3, <2>4
<1>3. CASE Leave
  BY <1>3 DEF Leave, CallbackInv, CalledOnce, Distinct, Holds
<1>4. CASE UNCHANGED async
  BY <1>0, <1>4 DEF async, CallbackInv, CalledOnce, CalledWhenMounted
<1> QED
  BY <1>1, <1>2, <1>3, <1>4
  DEF NextAll, Load, UseSQLite, RunSyncfs, RunPopulate, all_vars

\* A callback is called at most once, after the mount, and no timer still
\* holds it when its call has freed it: for any number of callbacks, given
\* before and after the mount.
THEOREM CallbacksCorrect == SpecAll => []CallbackInv
<1>1. InitAll => CallbackInv
  BY DEF InitAll, CallbackInv, CalledOnce, Distinct, Holds
<1> QED  BY <1>1, CallbackStep, PTL DEF SpecAll
=============================================================================
