----------------------------- MODULE PthreadRwlock -----------------------------
(***************************************************************************)
(* The guest read/write lock of src/src/kernel/pthread.cpp.                *)
(*                                                                         *)
(* The lock is cooperative: no host lock is held while a guest thread owns *)
(* it.  Every pass of the loop of RwlockLockCooperative runs under         *)
(* rwlock->m, so a pass is one action.  A pass that finds nothing to do    *)
(* sleeps on the condition variable for at most SIGNAL_APC_POLL_MICROS and *)
(* tries again, so between two passes a caller is simply still in its      *)
(* call: the notify_all of an unlock only shortens the sleep.              *)
(***************************************************************************)
EXTENDS Integers, FiniteSets

CONSTANTS Threads,   \* the guest threads
          NoThread,  \* the nullptr of the field "writer"
          MaxCalls   \* bound: lock calls a thread makes in a behaviour

ASSUME RwlockAssumption ==
    /\ IsFiniteSet(Threads)
    /\ NoThread \notin Threads
    /\ MaxCalls \in Nat

VARIABLES writer,           \* the thread that holds the lock for writing
          writer_count,     \* 1 while there is a writer
          readers,          \* readers[t]: read holds of thread t
          reader_count,     \* the lock's own total of the read holds
          waiting_writers,  \* writers that registered their wait
          call,             \* call[t]: the lock call thread t is inside
          timed,            \* timed[t]: that call has a deadline
          registered,       \* registered[t]: its writer_wait_registered
          calls             \* calls[t]: lock calls made so far (bound only)

lockVars == <<writer, writer_count, readers, reader_count, waiting_writers>>
vars == <<writer, writer_count, readers, reader_count, waiting_writers,
          call, timed, registered, calls>>

Calls == {"none", "rdlock", "wrlock"}

Init ==
    /\ writer = NoThread
    /\ writer_count = 0
    /\ readers = [t \in Threads |-> 0]
    /\ reader_count = 0
    /\ waiting_writers = 0
    /\ call = [t \in Threads |-> "none"]
    /\ timed = [t \in Threads |-> FALSE]
    /\ registered = [t \in Threads |-> FALSE]
    /\ calls = [t \in Threads |-> 0]
-----------------------------------------------------------------------------
(* The conditions the code tests and the helpers it calls. *)

\* Mutant: the upgrade check forgets the caller's read holds.
HoldsAlready_WriterOnly(t) == writer = t

\* writer == self || RwlockFindReader(self) != nullptr: upgrading would wait
\* for the caller itself.
HoldsAlready(t) == writer = t \/ readers[t] > 0

WriterMayEnter(t) == writer = NoThread /\ reader_count = 0

\* New readers give way to registered writers, a thread that already reads
\* does not, and the writer may take read holds too.
ReaderMayEnter(t) ==
    \/ writer = NoThread /\ (waiting_writers = 0 \/ readers[t] > 0)
    \/ writer = t

RwlockAddReader(t) ==
    /\ readers' = [readers EXCEPT ![t] = @ + 1]
    /\ reader_count' = reader_count + 1

RwlockRemoveReader(t) ==
    /\ readers' = [readers EXCEPT ![t] = @ - 1]
    /\ reader_count' = reader_count - 1

BecomeWriter(t) == writer' = t /\ writer_count' = 1

\* Mutant: the exit forgets the registration.
UnregisterWriterWait_Leak(t) ==
    /\ UNCHANGED waiting_writers
    /\ registered' = [registered EXCEPT ![t] = FALSE]

\* The lambda every exit of a write call goes through.
UnregisterWriterWait(t) ==
    /\ waiting_writers' = IF registered[t] THEN waiting_writers - 1
                                           ELSE waiting_writers
    /\ registered' = [registered EXCEPT ![t] = FALSE]

Return(t) == call' = [call EXCEPT ![t] = "none"] /\ UNCHANGED <<timed, calls>>
-----------------------------------------------------------------------------
(* PthreadRwlockRdlock, Wrlock, Timedrdlock, Timedwrlock. *)

\* A thread enters RwlockLockCooperative, with or without a deadline.
BeginLock(t) ==
    /\ call[t] = "none"
    /\ calls[t] < MaxCalls
    /\ \E op \in {"rdlock", "wrlock"}, d \in BOOLEAN :
          /\ call' = [call EXCEPT ![t] = op]
          /\ timed' = [timed EXCEPT ![t] = d]
    /\ calls' = [calls EXCEPT ![t] = @ + 1]
    /\ UNCHANGED <<lockVars, registered>>

\* A write request by a thread that holds the lock fails with EDEADLK.
WriteDeadlock(t) ==
    /\ call[t] = "wrlock"
    /\ HoldsAlready(t)
    /\ UnregisterWriterWait(t)
    /\ Return(t)
    /\ UNCHANGED <<writer, writer_count, readers, reader_count>>

WriteAcquire(t) ==
    /\ call[t] = "wrlock"
    /\ ~HoldsAlready(t)
    /\ WriterMayEnter(t)
    /\ UnregisterWriterWait(t)
    /\ BecomeWriter(t)
    /\ Return(t)
    /\ UNCHANGED <<readers, reader_count>>

\* The first pass that cannot enter registers the wait; later ones only sleep.
WriteWait(t) ==
    /\ call[t] = "wrlock"
    /\ ~HoldsAlready(t) /\ ~WriterMayEnter(t)
    /\ ~registered[t]
    /\ waiting_writers' = waiting_writers + 1
    /\ registered' = [registered EXCEPT ![t] = TRUE]
    /\ UNCHANGED <<writer, writer_count, readers, reader_count,
                   call, timed, calls>>

\* A pass after the deadline (a zero timeout: the first pass) gives up.
WriteTimeout(t) ==
    /\ call[t] = "wrlock" /\ timed[t]
    /\ ~HoldsAlready(t) /\ ~WriterMayEnter(t)
    /\ UnregisterWriterWait(t)
    /\ Return(t)
    /\ UNCHANGED <<writer, writer_count, readers, reader_count>>

ReadAcquire(t) ==
    /\ call[t] = "rdlock"
    /\ ReaderMayEnter(t)
    /\ RwlockAddReader(t)
    /\ Return(t)
    /\ UNCHANGED <<writer, writer_count, waiting_writers, registered>>

ReadTimeout(t) ==
    /\ call[t] = "rdlock" /\ timed[t]
    /\ ~ReaderMayEnter(t)
    /\ Return(t)
    /\ UNCHANGED <<lockVars, registered>>

LoopPass(t) ==
    \/ WriteDeadlock(t) \/ WriteAcquire(t) \/ WriteWait(t) \/ WriteTimeout(t)
    \/ ReadAcquire(t) \/ ReadTimeout(t)
-----------------------------------------------------------------------------
(* The calls that never wait. *)

\* PthreadRwlockTryrdlock; its EBUSY changes nothing.
Tryrdlock(t) ==
    /\ call[t] = "none"
    /\ calls[t] < MaxCalls
    /\ ReaderMayEnter(t)
    /\ RwlockAddReader(t)
    /\ calls' = [calls EXCEPT ![t] = @ + 1]
    /\ UNCHANGED <<writer, writer_count, waiting_writers, call, timed, registered>>

\* PthreadRwlockTrywrlock; its EDEADLK and EBUSY change nothing.
Trywrlock(t) ==
    /\ call[t] = "none"
    /\ calls[t] < MaxCalls
    /\ ~HoldsAlready(t)
    /\ WriterMayEnter(t)
    /\ BecomeWriter(t)
    /\ calls' = [calls EXCEPT ![t] = @ + 1]
    /\ UNCHANGED <<readers, reader_count, waiting_writers, call, timed, registered>>

\* PthreadRwlockUnlock gives back a read hold first, then the write hold; its
\* EPERM changes nothing.
UnlockRead(t) ==
    /\ readers[t] > 0
    /\ RwlockRemoveReader(t)
    /\ UNCHANGED <<writer, writer_count>>

UnlockWrite(t) ==
    /\ readers[t] = 0
    /\ writer = t
    /\ writer_count' = writer_count - 1
    /\ writer' = IF writer_count = 1 THEN NoThread ELSE writer
    /\ UNCHANGED <<readers, reader_count>>

Unlock(t) ==
    /\ call[t] = "none"
    /\ UnlockRead(t) \/ UnlockWrite(t)
    /\ UNCHANGED <<waiting_writers, call, timed, registered, calls>>

Next == \E t \in Threads : \/ BeginLock(t) \/ LoopPass(t)
                           \/ Tryrdlock(t) \/ Trywrlock(t) \/ Unlock(t)

Spec == Init /\ [][Next]_vars

\* The 10 ms poll retries every pending call, and a guest that took the lock
\* gives it back.
Fairness == \A t \in Threads : WF_vars(LoopPass(t)) /\ WF_vars(Unlock(t))

FairSpec == Spec /\ Fairness
-----------------------------------------------------------------------------
(* Properties. *)

TypeOK ==
    /\ writer \in Threads \cup {NoThread}
    /\ writer_count \in Nat
    /\ readers \in [Threads -> Nat]
    /\ reader_count \in Nat
    /\ waiting_writers \in Nat
    /\ call \in [Threads -> Calls]
    /\ timed \in [Threads -> BOOLEAN]
    /\ registered \in [Threads -> BOOLEAN]
    /\ calls \in [Threads -> 0 .. MaxCalls]

\* Exclusion: while a thread holds the lock for writing no other thread
\* holds it for reading (the writer itself may).
WriterExcludesReaders ==
    writer # NoThread => \A t \in Threads : t # writer => readers[t] = 0

\* The counter the writers test agrees with the per-thread holds the unlock
\* path works on, whatever mix of recursive, timed and try calls made them.
Holds == UNION {{t} \X (1 .. readers[t]) : t \in Threads}
ReaderCountExact == reader_count = Cardinality(Holds)

\* The counter that keeps new readers out is exactly the number of write
\* calls still waiting: a leaked registration would shut the lock for readers
\* for good, a lost one would starve the writer.
Registered == {t \in Threads : registered[t]}
WaitingWritersExact ==
    /\ waiting_writers = Cardinality(Registered)
    /\ \A t \in Registered : call[t] = "wrlock"

\* Both totals are exact at once.
TotalsExact == ReaderCountExact /\ WaitingWritersExact

\* Exclusion and the counters it rests on, of PthreadRwlockRdlock, Wrlock,
\* their timed and try forms and PthreadRwlockUnlock together.
RwlockSound == TypeOK /\ WriterExcludesReaders /\ TotalsExact

\* No request is stuck: when holders give the lock back and the guest makes
\* finitely many calls, every lock call returns.
EveryCallReturns ==
    \A t \in Threads : call[t] # "none" ~> call[t] = "none"
=============================================================================
