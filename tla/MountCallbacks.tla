--------------------------- MODULE MountCallbacks ---------------------------
(***************************************************************************)
(* async_call_after_mounted: how an application learns that the databases  *)
(* are there.  A callback is called at once when idbvfs_is_mounted, and    *)
(* otherwise a timer of 0 ms tries again, for as long as it takes.         *)
(*                                                                         *)
(* SyncQueue assumes an application that waits for the mount.  The one     *)
(* here does not know of it (WaitsForMount is FALSE): it uses SQLite once  *)
(* a callback of its own has been called, and implements the patient one.  *)
(*                                                                         *)
(* Callbacks may be given before idbvfs_register, and from a callback.     *)
(* Timers of one delay run in the order they were set.                     *)
(***************************************************************************)
EXTENDS SyncQueue

CONSTANT Callbacks

ASSUME ImpatientAssumption == ~WaitsForMount

VARIABLES
    timers,  \* the callbacks that wait in a timer, next one first
    called,  \* the callbacks called, which frees them, in order
    given    \* history: the callbacks given by the application

async    == <<timers, called, given>>
all_vars == <<vars, async>>

Holds(queue, c) == \E i \in DOMAIN queue : queue[i] = c

Distinct(queue) == \A i, j \in DOMAIN queue : queue[i] = queue[j] => i = j

-----------------------------------------------------------------------------

\* Mutants: the mount is not looked at; the callback stays in its timer.
InvokeAtOnce(c, waiting) ==
    /\ called' = Append(called, c) /\ timers' = waiting

InvokeAndRetry(c, waiting) ==
    /\ called' = IF mounted THEN Append(called, c) ELSE called
    /\ timers' = Append(waiting, c)

\* Mutant: the mount is tried once.
InvokeOnlyOnce(c, waiting) ==
    /\ called' = IF mounted THEN Append(called, c) ELSE called
    /\ timers' = waiting

\* invoke_bound_callback_after_idbvfs_mounted
Invoke(c, waiting) ==
    \/ mounted /\ called' = Append(called, c) /\ timers' = waiting
    \/ ~mounted /\ called' = called /\ timers' = Append(waiting, c)

\* async_call_after_mounted
Give(c) == /\ c \notin given
           /\ given' = given \cup {c}
           /\ Invoke(c, timers)
           /\ UNCHANGED vars

\* emscripten_async_call runs the callback of the next timer.
Timer == /\ timers # << >>
         /\ Invoke(Head(timers), Tail(timers))
         /\ UNCHANGED <<vars, given>>

UseSQLite == /\ called # << >>
             /\ IdbvfsSyncfs \/ \E f \in Files : Write(f) \/ Remove(f)
             /\ UNCHANGED async

RunSyncfs == /\ SaveReads \/ SaveDone \/ SaveError
             /\ UNCHANGED async

RunPopulate == /\ PopulateDone \/ PopulateError
               /\ UNCHANGED async

Load == Register /\ UNCHANGED async

Leave == /\ Reload
         /\ timers' = << >> /\ called' = << >> /\ given' = {}

InitAll == Init /\ timers = << >> /\ called = << >> /\ given = {}

NextAll == \/ Load \/ Leave \/ UseSQLite \/ RunSyncfs \/ RunPopulate \/ Timer
           \/ \E c \in Callbacks : Give(c)

\* The browser runs every timer and every callback that is due.
SpecAll == /\ InitAll /\ [][NextAll]_all_vars
           /\ WF_all_vars(Timer) /\ WF_all_vars(RunSyncfs) /\ WF_all_vars(RunPopulate)

-----------------------------------------------------------------------------

\* A callback is called at most once, and no timer holds a callback that its
\* call has freed, nor one callback twice.
CalledOnce ==
    /\ Distinct(called) /\ Distinct(timers)
    /\ \A c \in Callbacks : ~(Holds(called, c) /\ Holds(timers, c))

\* The callbacks are where a callback can be.
CallbackInv ==
    /\ timers \in Seq(Callbacks) /\ called \in Seq(Callbacks) /\ given \subseteq Callbacks
    /\ \A c \in Callbacks : c \in given <=> Holds(timers, c) \/ Holds(called, c)
    /\ CalledOnce
    /\ called # << >> => mounted

Patient == INSTANCE SyncQueue WITH WaitsForMount <- TRUE

\* An application that uses SQLite only after one of its callbacks was called
\* is a patient one: it makes no call before the mount, on any page load.
ImplementsPatient == Patient!Init /\ [][Patient!Next]_vars

\* A callback is called in the end once idbvfs is registered, unless the page
\* goes or populating has failed: nothing sets isIdbvfsMounted then, and the
\* timers try forever.
GivenIsCalled ==
    \A c \in Callbacks :
        (registered /\ c \in given)
          ~> (Holds(called, c) \/ ~registered \/ (~mounted /\ populating = NoListing))

\* "In Emscripten, this will be invoked using `emscripten_async_call`": a
\* callback is called from a timer, never by the call that gives it.
CalledFromTimer ==
    [][\A c \in Callbacks : Holds(called', c) => Holds(called, c) \/ Holds(timers, c)]_all_vars
=============================================================================
