--------------------------- MODULE MCGuestLocks_proofs ---------------------------
(***************************************************************************)
(* Proofs about the guest's read/write lock, its event flag and its waits  *)
(* on addresses, for any sets of threads, bits and addresses.              *)
(***************************************************************************)
EXTENDS MCGuestLocks, ListLemmas, FiniteSetTheorems, TLAPS

-----------------------------------------------------------------------------
(* The read/write lock.                                                      *)


\* What a step needs to know to keep WriterExcludesReaders: the types, both
\* counters exact, and who may be registered.
RwlockInv ==
    /\ TypeOK
    /\ WriterExcludesReaders
    /\ IsFiniteSet(Holds)
    /\ ReaderCountExact
    /\ WaitingWritersExact
    /\ writer_count = IF writer = NoThread THEN 0 ELSE 1

LEMMA HoldsMembership ==
    ASSUME TypeOK
    PROVE  \A t \in Threads, i \in Nat : <<t, i>> \in Holds <=> i \in 1 .. readers[t]
BY DEF Holds

\* A total of zero read holds means that no thread reads.
LEMMA NoHolds ==
    ASSUME TypeOK, IsFiniteSet(Holds), Cardinality(Holds) = 0
    PROVE  \A t \in Threads : readers[t] = 0
<1>1. Holds = {}
  BY FS_EmptySet
<1>2. ASSUME NEW t \in Threads, readers[t] # 0
      PROVE  FALSE
  <2>1. readers[t] \in Nat /\ 1 \in 1 .. readers[t]
    BY <1>2 DEF TypeOK
  <2>2. <<t, 1>> \in Holds
    BY <2>1, HoldsMembership
  <2> QED BY <2>2, <1>1
<1> QED BY <1>2

\* One more read hold is one more element of Holds.
LEMMA AddHold ==
    ASSUME TypeOK, IsFiniteSet(Holds), NEW t \in Threads,
           readers' = [readers EXCEPT ![t] = @ + 1]
    PROVE  IsFiniteSet(Holds') /\ Cardinality(Holds') = Cardinality(Holds) + 1
<1> DEFINE new == <<t, readers[t] + 1>>
<1>1. readers \in [Threads -> Nat] /\ readers' \in [Threads -> Nat]
  BY DEF TypeOK
<1>2. Holds' = Holds \cup {new}
  <2>1. \A u \in Threads : readers'[u] = IF u = t THEN readers[t] + 1 ELSE readers[u]
    BY <1>1
  <2>2. \A u \in Threads :
           {u} \X (1 .. readers'[u]) =
              IF u = t THEN ({u} \X (1 .. readers[u])) \cup {new}
                       ELSE {u} \X (1 .. readers[u])
    BY <1>1, <2>1
  <2> QED BY <2>2 DEF Holds
<1>3. new \notin Holds
  BY <1>1 DEF Holds
<1> QED BY <1>2, <1>3, FS_AddElement

\* One read hold less is one element of Holds less.
LEMMA RemoveHold ==
    ASSUME TypeOK, IsFiniteSet(Holds), NEW t \in Threads, readers[t] > 0,
           readers' = [readers EXCEPT ![t] = @ - 1]
    PROVE  /\ IsFiniteSet(Holds') /\ Cardinality(Holds') = Cardinality(Holds) - 1
           /\ Cardinality(Holds) > 0
<1> DEFINE old == <<t, readers[t]>>
<1>1. readers \in [Threads -> Nat] /\ readers' \in [Threads -> Nat]
  BY DEF TypeOK
<1>2. Holds' = Holds \ {old}
  <2>1. \A u \in Threads : readers'[u] = IF u = t THEN readers[t] - 1 ELSE readers[u]
    BY <1>1
  <2>2. \A u \in Threads :
           {u} \X (1 .. readers'[u]) = ({u} \X (1 .. readers[u])) \ {old}
    BY <1>1, <2>1
  <2> QED BY <2>2 DEF Holds
<1>3. old \in Holds
  BY <1>1 DEF Holds
<1>4. Cardinality(Holds) # 0 /\ Cardinality(Holds) \in Nat
  BY <1>3, FS_EmptySet, FS_CardinalityType
<1>5. Cardinality(Holds) > 0
  BY <1>4
<1>6. IsFiniteSet(Holds') /\ Cardinality(Holds') = Cardinality(Holds) - 1
  BY <1>2, <1>3, FS_RemoveElement
<1> QED BY <1>5, <1>6

LEMMA InitRwlockInv == Init => RwlockInv
<1> SUFFICES ASSUME Init PROVE RwlockInv
  OBVIOUS
<1> USE RwlockAssumption
<1>1. TypeOK
  BY DEF Init, TypeOK, Calls
<1>2. Holds = {} /\ Registered = {}
  BY DEF Init, Holds, Registered
<1> QED
  BY <1>1, <1>2, FS_EmptySet
     DEF Init, RwlockInv, WriterExcludesReaders, ReaderCountExact, WaitingWritersExact

\* UnregisterWriterWait keeps the registration count exact.
LEMMA UnregisterKeepsCount ==
    ASSUME TypeOK, WaitingWritersExact, NEW t \in Threads, UnregisterWriterWait(t)
    PROVE  /\ waiting_writers' \in Nat
           /\ registered' \in [Threads -> BOOLEAN]
           /\ waiting_writers' = Cardinality(Registered')
           /\ Registered' = Registered \ {t}
<1>1. Registered' = Registered \ {t}
  BY DEF UnregisterWriterWait, Registered, TypeOK
<1>2. IsFiniteSet(Registered)
  BY RwlockAssumption, FS_Subset DEF Registered
<1>3. registered[t] <=> t \in Registered
  BY DEF Registered
<1>4. Cardinality(Registered') = IF registered[t] THEN waiting_writers - 1 ELSE waiting_writers
  BY <1>1, <1>2, <1>3, FS_RemoveElement DEF WaitingWritersExact
<1>5. Cardinality(Registered') \in Nat
  BY <1>1, <1>2, FS_RemoveElement, FS_CardinalityType
<1> QED BY <1>1, <1>4, <1>5 DEF UnregisterWriterWait, TypeOK


\* Every step keeps the inductive invariant.  The steps that touch the read
\* holds use the two lemmas on Holds, those that end a write call use
\* UnregisterKeepsCount.
LEMMA StepRwlockInv == RwlockInv /\ [Next]_vars => RwlockInv'
<1> SUFFICES ASSUME RwlockInv, [Next]_vars PROVE RwlockInv'
  OBVIOUS
<1> USE RwlockAssumption
<1> USE DEF RwlockInv
<1>free. reader_count = 0 => \A t \in Threads : readers[t] = 0
  BY NoHolds DEF ReaderCountExact
<1>reg. IsFiniteSet(Registered)
  BY FS_Subset DEF Registered
<1>1. ASSUME NEW t \in Threads, BeginLock(t) PROVE RwlockInv'
  <2>1. TypeOK'
    BY <1>1 DEF BeginLock, TypeOK, Calls, lockVars
  <2>2. Holds' = Holds /\ Registered' = Registered
    BY <1>1 DEF BeginLock, lockVars, Holds, Registered
  <2>3. t \notin Registered
    BY <1>1 DEF BeginLock, WaitingWritersExact
  <2> QED
    BY <1>1, <2>1, <2>2, <2>3
       DEF BeginLock, lockVars, WriterExcludesReaders, ReaderCountExact,
           WaitingWritersExact, Registered, TypeOK
<1>2. ASSUME NEW t \in Threads, WriteDeadlock(t) \/ WriteTimeout(t) PROVE RwlockInv'
  <2>1. UnregisterWriterWait(t) /\ Return(t)
        /\ UNCHANGED <<writer, writer_count, readers, reader_count>>
    BY <1>2 DEF WriteDeadlock, WriteTimeout
  <2>2. /\ waiting_writers' \in Nat /\ registered' \in [Threads -> BOOLEAN]
        /\ waiting_writers' = Cardinality(Registered') /\ Registered' = Registered \ {t}
    BY <2>1, UnregisterKeepsCount
  <2>3. TypeOK'
    BY <2>1, <2>2 DEF Return, TypeOK, Calls
  <2>4. Holds' = Holds
    BY <2>1 DEF Holds
  <2>5. WaitingWritersExact'
    BY <2>1, <2>2 DEF Return, WaitingWritersExact, TypeOK, Registered
  <2> QED
    BY <2>1, <2>3, <2>4, <2>5 DEF WriterExcludesReaders, ReaderCountExact
<1>3. ASSUME NEW t \in Threads, WriteAcquire(t) PROVE RwlockInv'
  <2>1. /\ UnregisterWriterWait(t) /\ Return(t) /\ BecomeWriter(t) /\ WriterMayEnter(t)
        /\ UNCHANGED <<readers, reader_count>>
    BY <1>3 DEF WriteAcquire
  <2>2. /\ waiting_writers' \in Nat /\ registered' \in [Threads -> BOOLEAN]
        /\ waiting_writers' = Cardinality(Registered') /\ Registered' = Registered \ {t}
    BY <2>1, UnregisterKeepsCount
  <2>3. TypeOK'
    BY <2>1, <2>2 DEF Return, BecomeWriter, TypeOK, Calls
  <2>4. Holds' = Holds
    BY <2>1 DEF Holds
  <2>5. WaitingWritersExact'
    BY <2>1, <2>2 DEF Return, WaitingWritersExact, TypeOK, Registered
  <2>6. WriterExcludesReaders'
    BY <2>1, <1>free DEF WriterMayEnter, WriterExcludesReaders
  <2>7. writer_count' = IF writer' = NoThread THEN 0 ELSE 1
    BY <2>1 DEF BecomeWriter
  <2> QED
    BY <2>1, <2>3, <2>4, <2>5, <2>6, <2>7 DEF ReaderCountExact
<1>4. ASSUME NEW t \in Threads, WriteWait(t) PROVE RwlockInv'
  <2>1. TypeOK'
    BY <1>4 DEF WriteWait, TypeOK, Calls
  <2>2. Holds' = Holds
    BY <1>4 DEF WriteWait, Holds
  <2>3. Registered' = Registered \cup {t} /\ t \notin Registered
    BY <1>4 DEF WriteWait, Registered, TypeOK
  <2>4. Cardinality(Registered') = Cardinality(Registered) + 1
    BY <2>3, <1>reg, FS_AddElement
  <2>5. WaitingWritersExact'
    BY <1>4, <2>3, <2>4 DEF WriteWait, WaitingWritersExact
  <2> QED
    BY <1>4, <2>1, <2>2, <2>5 DEF WriteWait, WriterExcludesReaders, ReaderCountExact
<1>5. ASSUME NEW t \in Threads, ReaderMayEnter(t), RwlockAddReader(t),
             Return(t) \/ (call' = call /\ timed' = timed
                           /\ calls' \in [Threads -> 0 .. MaxCalls]),
             UNCHANGED <<writer, writer_count, waiting_writers, registered>>,
             t \notin Registered
      PROVE RwlockInv'
  <2>1. IsFiniteSet(Holds') /\ Cardinality(Holds') = Cardinality(Holds) + 1
    BY <1>5, AddHold DEF RwlockAddReader
  <2>2. TypeOK'
    BY <1>5 DEF RwlockAddReader, Return, TypeOK, Calls
  <2>3. Registered' = Registered /\ Registered \subseteq Threads
    BY <1>5 DEF Registered
  <2>4. WaitingWritersExact'
    BY <1>5, <2>3 DEF WaitingWritersExact, Return, TypeOK
  <2>5. WriterExcludesReaders'
    BY <1>5 DEF WriterExcludesReaders, RwlockAddReader, ReaderMayEnter, TypeOK
  <2>6. ReaderCountExact'
    BY <1>5, <2>1 DEF ReaderCountExact, RwlockAddReader
  <2> QED BY <1>5, <2>1, <2>2, <2>4, <2>5, <2>6
<1>6. ASSUME NEW t \in Threads, ReadTimeout(t) PROVE RwlockInv'
  <2>1. TypeOK'
    BY <1>6 DEF ReadTimeout, Return, lockVars, TypeOK, Calls
  <2>2. Holds' = Holds /\ Registered' = Registered
    BY <1>6 DEF ReadTimeout, lockVars, Holds, Registered
  <2>3. t \notin Registered
    BY <1>6 DEF ReadTimeout, WaitingWritersExact
  <2> QED
    BY <1>6, <2>1, <2>2, <2>3
       DEF ReadTimeout, Return, lockVars, WriterExcludesReaders, ReaderCountExact,
           WaitingWritersExact, Registered, TypeOK
<1>7. ASSUME NEW t \in Threads, Trywrlock(t) PROVE RwlockInv'
  <2>1. TypeOK'
    BY <1>7 DEF Trywrlock, BecomeWriter, TypeOK, Calls
  <2>2. Holds' = Holds /\ Registered' = Registered
    BY <1>7 DEF Trywrlock, Holds, Registered
  <2>3. WriterExcludesReaders'
    BY <1>7, <1>free DEF Trywrlock, WriterMayEnter, WriterExcludesReaders
  <2> QED
    BY <1>7, <2>1, <2>2, <2>3
       DEF Trywrlock, BecomeWriter, ReaderCountExact, WaitingWritersExact
<1>8. ASSUME NEW t \in Threads, Unlock(t), UnlockRead(t) PROVE RwlockInv'
  <2>1. /\ IsFiniteSet(Holds') /\ Cardinality(Holds') = Cardinality(Holds) - 1
        /\ Cardinality(Holds) > 0
    BY <1>8, RemoveHold DEF UnlockRead, RwlockRemoveReader
  <2>2. TypeOK'
    BY <1>8, <2>1
       DEF Unlock, UnlockRead, RwlockRemoveReader, TypeOK, Calls, ReaderCountExact
  <2>3. Registered' = Registered
    BY <1>8 DEF Unlock, Registered
  <2>4. WriterExcludesReaders'
    BY <1>8 DEF UnlockRead, RwlockRemoveReader, WriterExcludesReaders, TypeOK
  <2>5. ReaderCountExact'
    BY <1>8, <2>1 DEF UnlockRead, RwlockRemoveReader, ReaderCountExact
  <2> QED
    BY <1>8, <2>1, <2>2, <2>3, <2>4, <2>5 DEF Unlock, UnlockRead, WaitingWritersExact
<1>9. ASSUME NEW t \in Threads, Unlock(t), UnlockWrite(t) PROVE RwlockInv'
  <2>1. writer_count = 1
    BY <1>9 DEF UnlockWrite
  <2>2. writer' = NoThread /\ writer_count' = 0
    BY <1>9, <2>1 DEF UnlockWrite
  <2>3. TypeOK'
    BY <1>9, <2>2 DEF Unlock, UnlockWrite, TypeOK, Calls
  <2>4. Holds' = Holds /\ Registered' = Registered
    BY <1>9 DEF Unlock, UnlockWrite, Holds, Registered
  <2> QED
    BY <1>9, <2>2, <2>3, <2>4
       DEF Unlock, UnlockWrite, WriterExcludesReaders, ReaderCountExact, WaitingWritersExact
<1>10. ASSUME NEW t \in Threads, ReadAcquire(t) PROVE RwlockInv'
  <2>1. t \notin Registered
    BY <1>10 DEF ReadAcquire, WaitingWritersExact
  <2> QED BY <1>5, <1>10, <2>1 DEF ReadAcquire
<1>11. ASSUME NEW t \in Threads, Tryrdlock(t) PROVE RwlockInv'
  <2>1. t \notin Registered
    BY <1>11 DEF Tryrdlock, WaitingWritersExact
  <2>2. calls' \in [Threads -> 0 .. MaxCalls]
    BY <1>11 DEF Tryrdlock, TypeOK
  <2> QED BY <1>5, <1>11, <2>1, <2>2 DEF Tryrdlock
<1>12. CASE UNCHANGED vars
  <2>1. Holds' = Holds /\ Registered' = Registered
    BY <1>12 DEF vars, Holds, Registered
  <2> QED
    BY <1>12, <2>1
       DEF vars, TypeOK, Calls, WriterExcludesReaders, ReaderCountExact, WaitingWritersExact
<1> QED
  BY <1>1, <1>2, <1>3, <1>4, <1>6, <1>7, <1>8, <1>9, <1>10, <1>11, <1>12
     DEF Next, LoopPass, Unlock

LEMMA RwlockInvariant == Spec => []RwlockInv
BY InitRwlockInv, StepRwlockInv, PTL DEF Spec

\* The counters and the holds of the lock always have their types, for every
\* number of threads and of calls.
THEOREM TypeCorrectness == Spec => []TypeOK
<1>1. RwlockInv => TypeOK
  BY DEF RwlockInv
<1> QED BY <1>1, RwlockInvariant, PTL

\* A writer of PthreadRwlockWrlock never shares the lock with another reader.
THEOREM Exclusion == Spec => []WriterExcludesReaders
<1>1. RwlockInv => WriterExcludesReaders
  BY DEF RwlockInv
<1> QED BY <1>1, RwlockInvariant, PTL

\* reader_count and waiting_writers never drift from the holds and the waits
\* they count.
THEOREM CountersExact == Spec => []TotalsExact
<1>1. RwlockInv => TotalsExact
  BY DEF RwlockInv, TotalsExact
<1> QED BY <1>1, RwlockInvariant, PTL

\* All of it at once: types, exclusion and exact counters.
THEOREM RwlockCorrect == Spec => []RwlockSound
<1>1. RwlockInv => RwlockSound
  BY DEF RwlockInv, RwlockSound, TotalsExact
<1> QED BY <1>1, RwlockInvariant, PTL
-----------------------------------------------------------------------------
(* The event flag: no waiter is overlooked and a Cancel releases whom it     *)
(* found.  A waiter that is not signalled has looked at the bits since they  *)
(* last grew, so bits that only shrink leave it right to sleep.              *)

FlagCalls == [pc : {"idle"}, result : {"none", "Ok", "TimedOut", "AlreadyWaiting", "Set",
                                       "Canceled", "Deleted", "Freed"}]
                \cup Flag!Waits \cup Flag!Spins \cup Flag!Drains

FlagTypes ==
    /\ single \in BOOLEAN /\ bits \in SUBSET Bits
    /\ status \in {"Set", "Canceled", "Deleted", "Freed"}
    /\ flagThread \in [Threads -> FlagCalls]

FlagInv == FlagTypes /\ FlagSound

LEMMA FlagFields ==
    ASSUME FlagTypes, NEW t \in Threads
    PROVE  /\ flagThread[t].pc \in {"idle", "sleep", "spin", "drain"}
           /\ flagThread[t].pc = "sleep" => flagThread[t] \in Flag!Waits
           /\ flagThread[t].pc = "spin" => flagThread[t] \in Flag!Spins
           /\ flagThread[t].pc = "drain" => flagThread[t] \in Flag!Drains
  <1>1. flagThread[t] \in FlagCalls
    BY DEF FlagTypes
  <1> QED
    BY <1>1 DEF FlagCalls, Flag!Waits, Flag!Spins, Flag!Drains

LEMMA FlagStarts == Flag!Init => FlagInv
  <1> SUFFICES ASSUME Flag!Init PROVE FlagInv
    OBVIOUS
  <1>1. Flag!Idle \in FlagCalls /\ Flag!Idle.pc = "idle"
    BY DEF Flag!Idle, FlagCalls
  <1>2. FlagTypes
    BY <1>1 DEF Flag!Init, FlagTypes
  <1>3. Flag!Sleeping = {}
    BY <1>1 DEF Flag!Sleeping, Flag!Init
  <1> QED
    BY <1>2, <1>3 DEF FlagInv, FlagSound, Flag!FlagSound, Flag!NoneOverlooked,
       Flag!CancelReleases, Flag!Init

\* One thread's call changes; the others sleep as they did.
LEMMA FlagSleepers ==
    ASSUME FlagTypes, NEW t \in Threads, NEW c \in FlagCalls,
           flagThread' = [flagThread EXCEPT ![t] = c]
    PROVE  /\ flagThread' \in [Threads -> FlagCalls] /\ flagThread'[t] = c
           /\ \A u \in Threads : u # t => flagThread'[u] = flagThread[u]
           /\ \A u \in Threads : u # t => (u \in Flag!Sleeping' <=> u \in Flag!Sleeping)
           /\ t \in Flag!Sleeping' <=> c.pc = "sleep"
           /\ Flag!Sleeping \subseteq Threads /\ Flag!Sleeping' \subseteq Threads
  <1>1. /\ flagThread' \in [Threads -> FlagCalls] /\ flagThread'[t] = c
        /\ \A u \in Threads : u # t => flagThread'[u] = flagThread[u]
    BY DEF FlagTypes
  <1> QED
    BY <1>1 DEF Flag!Sleeping

\* A pass of the loop of Wait leaves fewer bits, and the caller asleep only if
\* what it wants is not there.
LEMMA FlagLooks ==
    ASSUME FlagTypes, NEW t \in Threads, NEW w \in Flag!Waits, Flag!Looks(t, w)
    PROVE  /\ bits' \subseteq bits
           /\ \E c \in FlagCalls : /\ flagThread' = [flagThread EXCEPT ![t] = c]
                                   /\ c.pc = "sleep" => c = w /\ ~Flag!Met(w) /\ bits' = bits
  <1>1. Flag!Returned("Ok") \in FlagCalls /\ Flag!Returned("Ok").pc = "idle"
    BY DEF Flag!Returned, Flag!Idle, FlagCalls
  <1>2. Flag!Returned("TimedOut") \in FlagCalls /\ Flag!Returned("TimedOut").pc = "idle"
    BY DEF Flag!Returned, Flag!Idle, FlagCalls
  <1>3. w \in FlagCalls
    BY DEF FlagCalls
  <1>4. Flag!Left(w) \subseteq bits
    BY DEF Flag!Left, FlagTypes
  <1>5. CASE Flag!Met(w)
    BY <1>1, <1>4, <1>5 DEF Flag!Looks
  <1>6. CASE ~Flag!Met(w) /\ w.late
    BY <1>2, <1>6 DEF Flag!Looks
  <1>7. CASE ~Flag!Met(w) /\ ~w.late
    BY <1>3, <1>7 DEF Flag!Looks
  <1> QED
    BY <1>5, <1>6, <1>7

LEMMA FlagWaits ==
    ASSUME FlagInv, NEW t \in Threads, NEW w \in Flag!Waits, Flag!Wait(t, w), UNCHANGED single
    PROVE  FlagInv'
  <1>1. FlagTypes /\ Flag!NoneOverlooked /\ Flag!CancelReleases
    BY DEF FlagInv, FlagSound, Flag!FlagSound
  <1>2. /\ flagThread[t].pc = "idle" /\ status \in {"Set", "Canceled"}
        /\ UNCHANGED <<status, signalled, owed>>
    BY DEF Flag!Wait, Flag!MayBegin
  <1>3. PICK c \in FlagCalls : /\ flagThread' = [flagThread EXCEPT ![t] = c]
                               /\ c.pc = "sleep" => c = w /\ ~Flag!Met(w) /\ bits' = bits
                               /\ bits' \subseteq bits
    <2>1. CASE single /\ Flag!Sleeping # {}
      <3>1. /\ Flag!Returned("AlreadyWaiting") \in FlagCalls
            /\ Flag!Returned("AlreadyWaiting").pc = "idle"
        BY DEF Flag!Returned, Flag!Idle, FlagCalls
      <3> QED
        BY <2>1, <3>1 DEF Flag!Wait
    <2>2. CASE ~(single /\ Flag!Sleeping # {})
      <3>1. Flag!Looks(t, w)
        BY <2>2 DEF Flag!Wait
      <3> QED
        BY <1>1, <3>1, FlagLooks
    <2> QED
      BY <2>1, <2>2
  <1>4. FlagTypes'
    BY <1>1, <1>2, <1>3, FlagSleepers DEF FlagTypes
  <1>5. Flag!NoneOverlooked'
    <2>1. ASSUME NEW u \in Flag!Sleeping', status' = "Set", Flag!Met(flagThread[u])'
          PROVE  u \in signalled'
      <3>1. u # t
        BY <1>1, <1>2, <1>3, <2>1, FlagSleepers DEF Flag!Met
      <3>2. u \in Flag!Sleeping /\ flagThread'[u] = flagThread[u]
        BY <1>1, <1>3, <2>1, <3>1, FlagSleepers
      <3>3. Flag!Met(flagThread[u])
        BY <1>3, <2>1, <3>2 DEF Flag!Met
      <3> QED
        BY <1>1, <1>2, <2>1, <3>2, <3>3 DEF Flag!NoneOverlooked
    <2> QED
      BY <2>1 DEF Flag!NoneOverlooked
  <1>6. Flag!CancelReleases'
    <2>1. owed \subseteq Threads /\ t \notin owed
      BY <1>1, <1>2 DEF Flag!CancelReleases, Flag!Sleeping
    <2> QED
      BY <1>1, <1>2, <1>3, <2>1, FlagSleepers DEF Flag!CancelReleases
  <1> QED
    BY <1>4, <1>5, <1>6 DEF FlagInv, FlagSound, Flag!FlagSound

LEMMA FlagWakes ==
    ASSUME FlagInv, NEW t \in Threads, NEW late \in BOOLEAN, Flag!Wakes(t, late), UNCHANGED single
    PROVE  FlagInv'
  <1>1. FlagTypes /\ Flag!NoneOverlooked /\ Flag!CancelReleases
    BY DEF FlagInv, FlagSound, Flag!FlagSound
  <1>2. /\ flagThread[t].pc = "sleep" /\ flagThread[t] \in Flag!Waits
        /\ signalled' = signalled \ {t} /\ status' = status
    BY <1>1, FlagFields DEF Flag!Wakes
  <1>3. PICK w \in Flag!Waits : w = [flagThread[t] EXCEPT !.late = late]
    BY <1>2 DEF Flag!Waits
  <1>4. PICK c \in FlagCalls : /\ flagThread' = [flagThread EXCEPT ![t] = c]
                               /\ c.pc = "sleep" => c = w /\ ~Flag!Met(w) /\ bits' = bits
                               /\ bits' \subseteq bits
                               /\ status # "Set" => c.pc = "idle" /\ owed' = owed \ {t}
                               /\ status = "Set" => owed' = owed
    <2>1. CASE status = "Set"
      <3>1. Flag!Looks(t, w) /\ owed' = owed
        BY <1>3, <2>1 DEF Flag!Wakes
      <3>2. PICK c \in FlagCalls : /\ flagThread' = [flagThread EXCEPT ![t] = c]
                                   /\ c.pc = "sleep" => c = w /\ ~Flag!Met(w) /\ bits' = bits
                                   /\ bits' \subseteq bits
        BY <1>1, <3>1, FlagLooks
      <3> QED
        BY <2>1, <3>1, <3>2
    <2>2. CASE status # "Set"
      <3>1. Flag!Returned(status) \in FlagCalls /\ Flag!Returned(status).pc = "idle"
        BY <1>1 DEF Flag!Returned, Flag!Idle, FlagCalls, FlagTypes
      <3>2. /\ flagThread' = [flagThread EXCEPT ![t] = Flag!Returned(status)]
            /\ owed' = owed \ {t} /\ bits' = bits
        BY <2>2 DEF Flag!Wakes
      <3> QED
        BY <2>2, <3>1, <3>2
    <2> QED
      BY <2>1, <2>2
  <1>5. FlagTypes'
    BY <1>1, <1>2, <1>4, FlagSleepers DEF FlagTypes
  <1>6. Flag!NoneOverlooked'
    <2>1. ASSUME NEW u \in Flag!Sleeping', status' = "Set", Flag!Met(flagThread[u])'
          PROVE  u \in signalled'
      <3>1. u # t
        BY <1>1, <1>2, <1>4, <2>1, FlagSleepers DEF Flag!Met
      <3>2. u \in Flag!Sleeping /\ flagThread'[u] = flagThread[u]
        BY <1>1, <1>4, <2>1, <3>1, FlagSleepers
      <3>3. Flag!Met(flagThread[u])
        BY <1>4, <2>1, <3>2 DEF Flag!Met
      <3> QED
        BY <1>1, <1>2, <2>1, <3>1, <3>2, <3>3 DEF Flag!NoneOverlooked
    <2> QED
      BY <2>1 DEF Flag!NoneOverlooked
  <1>7. Flag!CancelReleases'
    <2>1. owed' \subseteq owed \ {t} /\ owed \subseteq Flag!Sleeping
      BY <1>1, <1>4, <1>2 DEF Flag!CancelReleases, FlagTypes
    <2>2. \A u \in Flag!Sleeping : u # t => u \in Flag!Sleeping'
      BY <1>1, <1>4, FlagSleepers
    <2>3. status # "Freed"
      BY <1>1, <1>2 DEF Flag!CancelReleases, Flag!Sleeping
    <2> QED
      BY <1>1, <1>2, <2>1, <2>2, <2>3 DEF Flag!CancelReleases
  <1> QED
    BY <1>5, <1>6, <1>7 DEF FlagInv, FlagSound, Flag!FlagSound

\* Whoever else begins, goes on or ends a call does not sleep before or after.
LEMMA FlagOthers ==
    ASSUME FlagInv, NEW t \in Threads, flagThread[t].pc # "sleep",
           NEW c \in FlagCalls, c.pc # "sleep", flagThread' = [flagThread EXCEPT ![t] = c],
           bits' \in SUBSET Bits, status' \in {"Set", "Canceled", "Deleted", "Freed"},
           \/ bits' \subseteq bits /\ signalled' = signalled
           \/ Flag!Sleeping \subseteq signalled'
           \/ status' # "Set",
           status' = "Set" => status = "Set" \/ Flag!Sleeping = {},
           status' = "Freed" => status = "Freed" \/ Flag!Sleeping = {},
           \/ owed' = owed
           \/ owed' = Flag!Sleeping /\ status' \notin {"Set", "Freed"},
           UNCHANGED single
    PROVE  FlagInv'
  <1>1. FlagTypes /\ Flag!NoneOverlooked /\ Flag!CancelReleases
    BY DEF FlagInv, FlagSound, Flag!FlagSound
  <1>2. FlagTypes'
    BY <1>1, FlagSleepers DEF FlagTypes
  <1>3. Flag!Sleeping' = Flag!Sleeping /\ \A u \in Flag!Sleeping : flagThread'[u] = flagThread[u]
    BY <1>1, FlagSleepers DEF Flag!Sleeping
  <1>4. Flag!NoneOverlooked'
    <2>1. ASSUME NEW u \in Flag!Sleeping, status' = "Set", Flag!Met(flagThread[u])'
          PROVE  u \in signalled'
      <3>1. bits' \subseteq bits => Flag!Met(flagThread[u])
        BY <1>3, <2>1 DEF Flag!Met
      <3> QED
        BY <1>1, <2>1, <3>1 DEF Flag!NoneOverlooked
    <2> QED
      BY <1>3, <2>1 DEF Flag!NoneOverlooked
  <1>5. Flag!CancelReleases'
    BY <1>1, <1>3 DEF Flag!CancelReleases
  <1> QED
    BY <1>2, <1>4, <1>5 DEF FlagInv, FlagSound, Flag!FlagSound

LEMMA FlagKeeps ==
    ASSUME Flag!EventFlagAssumption, FlagInv, [Flag!Next]_Flag!flagVars
    PROVE  FlagInv'
  <1>1. FlagTypes
    BY DEF FlagInv
  <1>2. Flag!Idle \in FlagCalls /\ Flag!Idle.pc = "idle"
    BY DEF Flag!Idle, FlagCalls
  <1>3. CASE UNCHANGED Flag!flagVars
    BY <1>3 DEF FlagInv, FlagTypes, FlagSound, Flag!FlagSound, Flag!NoneOverlooked,
       Flag!CancelReleases,
       Flag!Sleeping, Flag!Met, Flag!flagVars
  <1>4. ASSUME NEW t \in Threads, NEW made \in Flag!Spins, Flag!Begin(t, made), UNCHANGED single
        PROVE  FlagInv'
    <2>1. made \in FlagCalls /\ made.pc # "sleep"
      BY DEF FlagCalls, Flag!Spins
    <2>2. /\ flagThread[t].pc # "sleep" /\ flagThread' = [flagThread EXCEPT ![t] = made]
          /\ UNCHANGED <<bits, status, signalled, owed>>
      BY <1>4 DEF Flag!Begin, Flag!MayBegin
    <2> QED
      BY <1>1, <1>4, <2>1, <2>2, FlagOthers DEF FlagTypes
  <1>5. ASSUME NEW t \in Threads, Flag!Proceeds(t), UNCHANGED single PROVE FlagInv'
    <2>1. /\ flagThread[t].pc = "spin" /\ status = "Set" /\ flagThread[t].pattern \subseteq Bits
      <3>1. flagThread[t].pattern \in Patterns
        BY <1>1, <1>5, FlagFields DEF Flag!Proceeds, Flag!Spins
      <3> QED
        BY <1>5, <3>1 DEF Flag!Proceeds, Flag!EventFlagAssumption
    <2>2. \A to \in {"Set", "Freed"} : /\ [pc |-> "drain", to |-> to] \in FlagCalls
                                       /\ [pc |-> "drain", to |-> to].pc # "sleep"
      BY DEF FlagCalls, Flag!Drains
    <2>3. CASE flagThread[t].op = "Set"
      <3>1. /\ bits' = bits \cup flagThread[t].pattern /\ signalled' = signalled \cup Flag!Sleeping
            /\ flagThread' = [flagThread EXCEPT ![t] = Flag!Idle] /\ UNCHANGED <<status, owed>>
        BY <1>5, <2>3 DEF Flag!Proceeds, Flag!Signals
      <3> QED
        BY <1>1, <1>2, <1>5, <2>1, <3>1, FlagOthers DEF FlagTypes
    <2>4. CASE flagThread[t].op = "Clear"
      <3>1. /\ bits' = bits \cap flagThread[t].pattern /\ UNCHANGED <<status, signalled, owed>>
            /\ flagThread' = [flagThread EXCEPT ![t] = Flag!Idle]
        BY <1>5, <2>4 DEF Flag!Proceeds
      <3> QED
        BY <1>1, <1>2, <1>5, <2>1, <3>1, FlagOthers DEF FlagTypes
    <2>5. CASE flagThread[t].op = "Cancel"
      <3>1. /\ bits' = flagThread[t].pattern /\ status' = "Canceled" /\ owed' = Flag!Sleeping
            /\ flagThread' = [flagThread EXCEPT ![t] = [pc |-> "drain", to |-> "Set"]]
        BY <1>5, <2>5 DEF Flag!Proceeds
      <3> QED
        BY <1>1, <1>5, <2>1, <2>2, <3>1, FlagOthers
    <2>6. CASE flagThread[t].op = "Delete"
      <3>1. /\ bits' = bits /\ status' = "Deleted" /\ owed' = Flag!Sleeping
            /\ flagThread' = [flagThread EXCEPT ![t] = [pc |-> "drain", to |-> "Freed"]]
        BY <1>5, <2>6 DEF Flag!Proceeds
      <3> QED
        BY <1>1, <1>5, <2>1, <2>2, <3>1, FlagOthers DEF FlagTypes
    <2> QED
      BY <1>5, <2>3, <2>4, <2>5, <2>6 DEF Flag!Proceeds
  <1>6. ASSUME NEW t \in Threads, Flag!EndsDrain(t), UNCHANGED single PROVE FlagInv'
    <2>1. /\ flagThread[t].pc = "drain" /\ Flag!Sleeping = {} /\ status' = flagThread[t].to
          /\ flagThread' = [flagThread EXCEPT ![t] = Flag!Idle] /\ UNCHANGED <<bits, signalled, owed>>
      BY <1>6 DEF Flag!EndsDrain, Flag!After
    <2>2. status' \in {"Set", "Freed"}
      BY <1>1, <2>1, FlagFields DEF Flag!Drains
    <2> QED
      BY <1>1, <1>2, <1>6, <2>1, <2>2, FlagOthers DEF FlagTypes
  <1>7. CASE Flag!Next
    BY <1>4, <1>5, <1>6, <1>7, FlagWaits, FlagWakes DEF Flag!Next, Flag!InCall
  <1> QED
    BY <1>3, <1>7

\* For any set of threads, of bits and of patterns: no waiter sleeps through
\* bits it waits for, and Cancel and the destructor release everybody they
\* find asleep before the flag goes on or is freed (KernelEventFlagPrivate).
THEOREM FlagCorrect == ASSUME Flag!EventFlagAssumption PROVE Flag!Spec => []FlagSound
  <1>1. FlagInv => FlagSound
    BY DEF FlagInv
  <1> QED
    BY <1>1, FlagStarts, FlagKeeps, PTL DEF Flag!Spec
-----------------------------------------------------------------------------
(* Waiting on addresses.                                                   *)

EntryOrNone == Entries \cup {NoEntry}
InCalls == [pc : {"wait", "unregister"}, addr : Addresses, entry : Entries,
            expected : Values, timed : BOOLEAN]

AddressTypes ==
    /\ registry \in [Addresses -> EntryOrNone]
    /\ waiters \in [Entries -> Seq(Threads)]
    /\ thread \in [Threads -> {Address!Idle} \cup InCalls]

InWait(t) == thread[t].pc = "wait"

\* The list of an entry holds the threads that wait in it, each once.
Listed ==
    /\ \A e \in Entries : IsInjective(waiters[e])
    /\ \A t \in Threads, e \in Entries :
          t \in ToSet(waiters[e]) <=> InWait(t) /\ thread[t].entry = e

\* An entry is registered for one address, the one its threads came for, and as
\* long as one of them waits.
Placed ==
    /\ \A a, b \in Addresses : registry[a] = registry[b] /\ registry[a] # NoEntry => a = b
    /\ \A t \in Threads, b \in Addresses :
          thread[t] # Address!Idle /\ registry[b] = thread[t].entry => b = thread[t].addr
    /\ \A t \in Threads : InWait(t) => registry[thread[t].addr] = thread[t].entry

\* A registered entry is empty only while a thread is on its way to remove it.
Removed ==
    \A a \in Addresses : registry[a] # NoEntry /\ waiters[registry[a]] = <<>> =>
       \E t \in Threads : thread[t].pc = "unregister" /\ thread[t].entry = registry[a]

AddressInv == AddressTypes /\ Listed /\ Placed /\ Removed
-----------------------------------------------------------------------------
\* The instance has the operators of the lists, too.
LEMMA AddressLists ==
    /\ \A s, e : Address!RemoveFirst(s, e) = RemoveFirst(s, e)
    /\ \A s, e : Address!Promise!RemoveFirst(s, e) = RemoveFirst(s, e)
    /\ \A s : Address!ToSet(s) = ToSet(s) /\ Address!Promise!ToSet(s) = ToSet(s)
  <1>1. \A s, e : Address!RemoveFirst(s, e) = RemoveFirst(s, e)
    BY Zenon DEF Address!RemoveFirst, Address!RemoveAt, Address!SelectInSeq, Address!Min,
       RemoveFirst, RemoveAt, SelectInSeq, Min
  <1>2. \A s, e : Address!Promise!RemoveFirst(s, e) = RemoveFirst(s, e)
    BY Zenon DEF Address!Promise!RemoveFirst, Address!Promise!RemoveAt,
       Address!Promise!SelectInSeq, Address!Promise!Min,
       RemoveFirst, RemoveAt, SelectInSeq, Min
  <1> QED
    BY <1>1, <1>2 DEF ToSet, Address!ToSet, Address!Promise!ToSet

\* A thread in a call has a record of InCalls; the others have none.
LEMMA AddressFields ==
    ASSUME AddressTypes, NEW t \in Threads
    PROVE  /\ thread[t] = Address!Idle \/ thread[t] \in InCalls
           /\ Address!Idle \notin InCalls /\ Address!Idle.pc = "idle"
           /\ thread[t] # Address!Idle <=> thread[t].pc \in {"wait", "unregister"}
           /\ thread[t] # Address!Idle =>
                 /\ thread[t].addr \in Addresses /\ thread[t].entry \in Entries
                 /\ thread[t].expected \in Values /\ thread[t].timed \in BOOLEAN
                 /\ thread[t].pc \in {"wait", "unregister"}
  <1>1. thread[t] \in {Address!Idle} \cup InCalls
    BY DEF AddressTypes
  <1> QED
    BY <1>1 DEF Address!Idle, InCalls

LEMMA AddressStarts == ASSUME Address!SyncOnAddressAssumption PROVE Address!Init => AddressInv
  <1> SUFFICES ASSUME Address!Init PROVE AddressInv
    OBVIOUS
  <1>1. AddressTypes
    BY DEF Address!Init, AddressTypes, EntryOrNone
  <1>2. \A t \in Threads : thread[t] = Address!Idle /\ ~InWait(t)
    BY DEF Address!Init, InWait, Address!Idle
  <1>3. \A e \in Entries : waiters[e] = <<>>
    BY DEF Address!Init
  <1>4. Listed
    BY <1>2, <1>3 DEF Listed, IsInjective, ToSet
  <1>5. \A a \in Addresses : registry[a] = NoEntry
    BY DEF Address!Init
  <1> QED
    BY <1>1, <1>2, <1>4, <1>5 DEF AddressInv, Placed, Removed

\* A new waiter joins the registered entry, or a new one that nobody has
\* (RegisterPortableWaiter).
LEMMA RegisterKeeps ==
    ASSUME Address!SyncOnAddressAssumption, AddressInv,
           NEW t \in Threads, NEW a \in Addresses, NEW v \in Values, NEW brief \in BOOLEAN,
           Address!Register(t, a, v, brief)
    PROVE  AddressInv'
  <1>1. AddressTypes /\ Listed /\ Placed /\ Removed
    BY DEF AddressInv
  <1>2. PICK e \in Entries :
           /\ IF registry[a] = NoEntry THEN ~Address!Held(e) ELSE registry[a] = e
           /\ registry' = [registry EXCEPT ![a] = e]
           /\ waiters' = [waiters EXCEPT ![e] = Append(@, t)]
           /\ thread' = [thread EXCEPT ![t] = [pc |-> "wait", addr |-> a, entry |-> e,
                                               expected |-> v, timed |-> brief]]
    BY DEF Address!Register
  <1>3. thread[t] = Address!Idle /\ ~InWait(t) /\ t \notin ToSet(waiters[e])
    BY <1>1 DEF Address!Register, Listed, InWait, Address!Idle
  <1>4. /\ Append(waiters[e], t) \in Seq(Threads) /\ Append(waiters[e], t) # <<>>
        /\ IsInjective(Append(waiters[e], t))
        /\ ToSet(Append(waiters[e], t)) = ToSet(waiters[e]) \cup {t}
    BY <1>1, <1>3, Appended DEF AddressTypes, Listed
  <1>5. AddressTypes'
    BY <1>1, <1>2, <1>4 DEF AddressTypes, EntryOrNone, InCalls
  <1>6. /\ waiters'[e] = Append(waiters[e], t) /\ registry'[a] = e
        /\ \A f \in Entries : f # e => waiters'[f] = waiters[f]
        /\ \A b \in Addresses : b # a => registry'[b] = registry[b]
        /\ thread'[t].pc = "wait" /\ thread'[t].addr = a /\ thread'[t].entry = e
        /\ thread'[t] # Address!Idle
        /\ \A u \in Threads : u # t => thread'[u] = thread[u]
    BY <1>1, <1>2 DEF AddressTypes, Address!Idle
  <1>7. Listed'
    <2>1. \A f \in Entries : IsInjective(waiters'[f])
      BY <1>1, <1>4, <1>6 DEF Listed
    <2>2. ASSUME NEW u \in Threads, NEW f \in Entries
          PROVE  u \in ToSet(waiters'[f]) <=> InWait(u)' /\ thread'[u].entry = f
      <3>1. u \in ToSet(waiters[f]) <=> InWait(u) /\ thread[u].entry = f
        BY <1>1 DEF Listed
      <3>2. u \in ToSet(waiters'[f]) <=> u \in ToSet(waiters[f]) \/ (u = t /\ f = e)
        BY <1>4, <1>6
      <3>3. CASE u = t
        BY <1>3, <1>6, <3>1, <3>2, <3>3 DEF InWait
      <3>4. CASE u # t
        BY <1>6, <3>1, <3>2, <3>4 DEF InWait
      <3> QED
        BY <3>3, <3>4
    <2> QED
      BY <2>1, <2>2 DEF Listed
  \* The entry is no other address's, and nobody else came to it for another one.
  <1>8. /\ \A b \in Addresses : registry[b] = e => b = a
        /\ \A u \in Threads : thread[u] # Address!Idle /\ thread[u].entry = e => thread[u].addr = a
        /\ registry[a] \in {e, NoEntry}
    <2>1. CASE registry[a] = NoEntry
      BY <1>1, <1>2, <2>1, AddressFields DEF Address!Held, Address!Idle
    <2>2. CASE registry[a] = e
      BY <1>1, <2>2 DEF Placed, Address!SyncOnAddressAssumption
    <2> QED
      BY <1>2, <2>1, <2>2
  <1>9. Placed'
    <2>1. ASSUME NEW b \in Addresses, NEW c \in Addresses,
                 registry'[b] = registry'[c], registry'[b] # NoEntry
          PROVE  b = c
      BY <1>1, <1>6, <1>8, <2>1 DEF Placed
    <2>2. ASSUME NEW u \in Threads, NEW b \in Addresses,
                 thread'[u] # Address!Idle, registry'[b] = thread'[u].entry
          PROVE  b = thread'[u].addr
      <3>1. CASE u = t
        BY <1>6, <1>8, <2>2, <3>1
      <3>2. CASE u # t
        BY <1>1, <1>6, <1>8, <2>2, <3>2 DEF Placed
      <3> QED
        BY <3>1, <3>2
    <2>3. ASSUME NEW u \in Threads, InWait(u)'
          PROVE  registry'[thread'[u].addr] = thread'[u].entry
      <3>1. CASE u = t
        BY <1>6, <3>1
      <3>2. CASE u # t
        <4>1. /\ registry[thread[u].addr] = thread[u].entry
              /\ thread[u].addr \in Addresses /\ thread[u].entry \in Entries
          BY <1>1, <1>6, <2>3, <3>2, AddressFields DEF Placed, InWait
        <4> QED
          BY <1>6, <1>8, <3>2, <4>1 DEF Address!SyncOnAddressAssumption
      <3> QED
        BY <3>1, <3>2
    <2> QED
      BY <2>1, <2>2, <2>3 DEF Placed, Address!Idle
  <1>10. Removed'
    <2> SUFFICES ASSUME NEW b \in Addresses, registry'[b] # NoEntry, waiters'[registry'[b]] = <<>>
                 PROVE  \E u \in Threads : thread'[u].pc = "unregister" /\ thread'[u].entry = registry'[b]
      BY DEF Removed
    <2>1. b # a /\ registry'[b] = registry[b] /\ registry[b] # e
      BY <1>4, <1>6, <1>8
    <2>2. registry[b] \in Entries
      BY <1>1, <2>1 DEF AddressTypes, EntryOrNone
    <2>3. PICK u \in Threads : thread[u].pc = "unregister" /\ thread[u].entry = registry[b]
      BY <1>1, <1>6, <2>1, <2>2 DEF Removed
    <2> QED
      BY <1>3, <1>6, <2>1, <2>3 DEF Address!Idle
  <1> QED
    BY <1>5, <1>7, <1>9, <1>10 DEF AddressInv

\* A waiter leaves its list, and is on its way to remove the entry if it was the
\* last one (UnregisterPortableWaiter).
LEMMA LeavesKeeps ==
    ASSUME Address!SyncOnAddressAssumption, AddressInv, NEW t \in Threads, InWait(t), NEW r,
           Address!Leaves(t, r)
    PROVE  AddressInv'
  <1> DEFINE e == thread[t].entry
             w == RemoveFirst(waiters[e], t)
  <1>1. AddressTypes /\ Listed /\ Placed /\ Removed
    BY DEF AddressInv
  <1>2. /\ thread[t] # Address!Idle /\ e \in Entries
        /\ waiters[e] \in Seq(Threads) /\ IsInjective(waiters[e]) /\ t \in ToSet(waiters[e])
    BY <1>1, AddressFields DEF InWait, AddressTypes, Listed
  <1>3. /\ w \in Seq(Threads) /\ Len(w) = Len(waiters[e]) - 1 /\ IsInjective(w)
        /\ ToSet(w) = ToSet(waiters[e]) \ {t}
    BY <1>2, RemoveFirstProperties
  <1>4. /\ Address!Leaving(t) \in InCalls /\ Address!Leaving(t).pc = "unregister"
        /\ Address!Leaving(t).addr = thread[t].addr /\ Address!Leaving(t).entry = e
    BY <1>1, <1>2, AddressFields DEF Address!Leaving, InCalls
  <1>step. /\ registry' = registry /\ waiters' = [waiters EXCEPT ![e] = w]
           /\ thread' = [thread EXCEPT ![t] = IF Len(waiters[e]) > 1 THEN Address!Idle
                                             ELSE Address!Leaving(t)]
    BY AddressLists DEF Address!Leaves
  <1>5. AddressTypes'
    BY <1>1, <1>2, <1>3, <1>4, <1>step DEF AddressTypes
  <1>6. /\ waiters'[e] = w /\ registry' = registry
        /\ \A f \in Entries : f # e => waiters'[f] = waiters[f]
        /\ thread'[t] = IF Len(waiters[e]) > 1 THEN Address!Idle ELSE Address!Leaving(t)
        /\ \A u \in Threads : u # t => thread'[u] = thread[u]
    BY <1>1, <1>2, <1>step DEF AddressTypes
  <1>7. /\ ~InWait(t)'
        /\ thread'[t] # Address!Idle => thread'[t].entry = e /\ thread'[t].addr = thread[t].addr
    BY <1>4, <1>6 DEF InWait, Address!Idle
  <1> HIDE DEF e, w
  <1>8. Listed'
    <2>1. \A f \in Entries : IsInjective(waiters'[f])
      BY <1>1, <1>3, <1>6 DEF Listed
    <2>2. ASSUME NEW u \in Threads, NEW f \in Entries
          PROVE  u \in ToSet(waiters'[f]) <=> InWait(u)' /\ thread'[u].entry = f
      <3>1. u \in ToSet(waiters[f]) <=> InWait(u) /\ thread[u].entry = f
        BY <1>1 DEF Listed
      <3>2. u \in ToSet(waiters'[f]) <=> u \in ToSet(waiters[f]) /\ ~(u = t /\ f = e)
        BY <1>3, <1>6
      <3>3. CASE u = t
        BY <1>7, <3>1, <3>2, <3>3 DEF e
      <3>4. CASE u # t
        BY <1>6, <3>1, <3>2, <3>4 DEF InWait
      <3> QED
        BY <3>3, <3>4
    <2> QED
      BY <2>1, <2>2 DEF Listed
  <1>9. Placed'
    <2>1. \A u \in Threads, b \in Addresses :
             thread'[u] # Address!Idle /\ registry'[b] = thread'[u].entry => b = thread'[u].addr
      BY <1>1, <1>2, <1>6, <1>7 DEF Placed, e
    <2>2. \A u \in Threads : InWait(u)' => registry'[thread'[u].addr] = thread'[u].entry
      BY <1>1, <1>6, <1>7 DEF Placed, InWait
    <2> QED
      BY <1>1, <1>6, <2>1, <2>2 DEF Placed, Address!Idle
  <1>10. Removed'
    <2> SUFFICES ASSUME NEW b \in Addresses, registry'[b] # NoEntry, waiters'[registry'[b]] = <<>>
                 PROVE  \E u \in Threads : thread'[u].pc = "unregister" /\ thread'[u].entry = registry'[b]
      BY DEF Removed
    <2>1. registry'[b] = registry[b] /\ registry[b] \in Entries
      BY <1>1, <1>6 DEF AddressTypes, EntryOrNone
    <2>2. CASE registry[b] = e
      <3>1. Len(w) = 0
        BY <1>6, <2>1, <2>2
      <3>2. Len(waiters[e]) = 1
        BY <1>2, <1>3, <3>1
      <3> QED
        BY <1>4, <1>6, <2>1, <2>2, <3>2 DEF e
    <2>3. CASE registry[b] # e
      <3>1. PICK u \in Threads : thread[u].pc = "unregister" /\ thread[u].entry = registry[b]
        BY <1>1, <1>6, <2>1, <2>3 DEF Removed
      <3> QED
        BY <1>6, <2>1, <2>3, <3>1 DEF e
    <2> QED
      BY <2>2, <2>3
  <1> QED
    BY <1>5, <1>8, <1>9, <1>10 DEF AddressInv

\* The thread removes its entry, or finds that it must stay
\* (UnregisterPortableWaiter).
LEMMA UnregisterKeeps ==
    ASSUME Address!SyncOnAddressAssumption, AddressInv, NEW t \in Threads, Address!Unregister(t)
    PROVE  AddressInv'
  <1> DEFINE e == thread[t].entry
             a == thread[t].addr
  <1>1. AddressTypes /\ Listed /\ Placed /\ Removed
    BY DEF AddressInv
  <1>2. thread[t].pc = "unregister" /\ thread[t] # Address!Idle /\ e \in Entries /\ a \in Addresses
    BY <1>1, AddressFields DEF Address!Unregister
  <1>3. AddressTypes'
    BY <1>1 DEF AddressTypes, Address!Unregister, EntryOrNone
  <1>4. /\ waiters' = waiters /\ thread'[t] = Address!Idle
        /\ \A u \in Threads : u # t => thread'[u] = thread[u]
        /\ \A b \in Addresses : b # a => registry'[b] = registry[b]
        /\ registry'[a] = IF Address!MayErase(a, e) THEN NoEntry ELSE registry[a]
    BY <1>1, <1>2 DEF AddressTypes, Address!Unregister
  <1>5. ~InWait(t) /\ ~InWait(t)'
    BY <1>2, <1>4 DEF InWait, Address!Idle
  <1> HIDE DEF e, a
  <1>6. Listed'
    <2>1. ASSUME NEW u \in Threads, NEW f \in Entries
          PROVE  u \in ToSet(waiters'[f]) <=> InWait(u)' /\ thread'[u].entry = f
      <3>1. u \in ToSet(waiters[f]) <=> InWait(u) /\ thread[u].entry = f
        BY <1>1 DEF Listed
      <3> QED
        BY <1>4, <1>5, <3>1 DEF InWait
    <2> QED
      BY <1>1, <1>4, <2>1 DEF Listed
  <1>7. \A b \in Addresses : registry'[b] \in {registry[b], NoEntry}
    BY <1>4
  <1>8. Placed'
    <2>1. ASSUME NEW u \in Threads, NEW b \in Addresses,
                 thread'[u] # Address!Idle, registry'[b] = thread'[u].entry
          PROVE  b = thread'[u].addr
      <3>1. u # t /\ thread'[u] = thread[u] /\ thread[u].entry \in Entries
        BY <1>1, <1>4, <2>1, AddressFields
      <3>2. registry'[b] = registry[b]
        BY <1>7, <2>1, <3>1 DEF Address!SyncOnAddressAssumption
      <3> QED
        BY <1>1, <2>1, <3>1, <3>2 DEF Placed
    <2>2. ASSUME NEW u \in Threads, InWait(u)'
          PROVE  registry'[thread'[u].addr] = thread'[u].entry
      <3>1. u # t /\ thread'[u] = thread[u] /\ InWait(u)
        BY <1>4, <1>5, <2>2 DEF InWait
      <3>2. /\ registry[thread[u].addr] = thread[u].entry
            /\ thread[u].addr \in Addresses /\ thread[u].entry \in Entries
        BY <1>1, <3>1, AddressFields DEF Placed, InWait
      <3>3. thread[u].addr = a /\ Address!MayErase(a, e) => thread[u].entry = e /\ waiters[e] = <<>>
        BY <3>2 DEF Address!MayErase
      <3>4. u \in ToSet(waiters[thread[u].entry])
        BY <1>1, <3>1, <3>2 DEF Listed
      <3>5. ~(thread[u].addr = a /\ Address!MayErase(a, e))
        BY <3>3, <3>4 DEF ToSet
      <3> QED
        BY <1>4, <3>1, <3>2, <3>5
    <2>3. \A b, c \in Addresses : registry'[b] = registry'[c] /\ registry'[b] # NoEntry => b = c
      BY <1>1, <1>7 DEF Placed
    <2> QED
      BY <2>1, <2>2, <2>3 DEF Placed, Address!Idle
  <1>9. Removed'
    <2> SUFFICES ASSUME NEW b \in Addresses, registry'[b] # NoEntry, waiters'[registry'[b]] = <<>>
                 PROVE  \E u \in Threads : thread'[u].pc = "unregister" /\ thread'[u].entry = registry'[b]
      BY DEF Removed
    <2>1. registry'[b] = registry[b]
      BY <1>7
    <2>2. registry[b] # e
      <3>1. registry[b] = e => b = a
        BY <1>1, <1>2 DEF Placed, e, a
      <3> QED
        BY <1>4, <2>1, <3>1 DEF Address!MayErase
    <2>3. PICK u \in Threads : thread[u].pc = "unregister" /\ thread[u].entry = registry[b]
      BY <1>1, <1>4, <2>1 DEF Removed
    <2> QED
      BY <1>4, <2>1, <2>2, <2>3 DEF e
  <1> QED
    BY <1>3, <1>6, <1>8, <1>9 DEF AddressInv

\* A store and a wake leave the registry as it is.
LEMMA AddressOthers == ASSUME AddressInv, UNCHANGED <<registry, waiters, thread>> PROVE AddressInv'
  BY DEF AddressInv, AddressTypes, Listed, Placed, Removed, InWait, IsInjective

LEMMA AddressKeeps ==
    ASSUME Address!SyncOnAddressAssumption
    PROVE  AddressInv /\ [Address!Next]_(Address!addressVars) => AddressInv'
  <1> SUFFICES ASSUME AddressInv, [Address!Next]_(Address!addressVars) PROVE AddressInv'
    OBVIOUS
  <1>1. ASSUME NEW a \in Addresses, NEW v \in Values, Address!Store(a, v) PROVE AddressInv'
    BY <1>1, AddressOthers DEF Address!Store
  <1>2. ASSUME NEW a \in Addresses, NEW count \in Counts, Address!Wake(a, count) PROVE AddressInv'
    BY <1>2, AddressOthers DEF Address!Wake
  <1>3. ASSUME NEW a \in Addresses, NEW t \in Threads, NEW v \in Values, NEW brief \in BOOLEAN,
               Address!Register(t, a, v, brief)
        PROVE  AddressInv'
    BY <1>3, RegisterKeeps
  <1>4. ASSUME NEW t \in Threads, Address!Returns(t) PROVE AddressInv'
    BY <1>4, LeavesKeeps DEF Address!Returns, InWait
  <1>5. ASSUME NEW t \in Threads, Address!TimesOut(t) PROVE AddressInv'
    BY <1>5, LeavesKeeps DEF Address!TimesOut, InWait
  <1>6. ASSUME NEW t \in Threads, Address!Unregister(t) PROVE AddressInv'
    BY <1>6, UnregisterKeeps
  <1>7. CASE UNCHANGED Address!addressVars
    BY <1>7, AddressOthers DEF Address!addressVars
  <1> QED
    BY <1>1, <1>2, <1>3, <1>4, <1>5, <1>6, <1>7 DEF Address!Next, Address!InWait

LEMMA AddressInvariant == ASSUME Address!SyncOnAddressAssumption PROVE Address!Spec => []AddressInv
  BY AddressStarts, AddressKeeps, PTL DEF Address!Spec

\* A wake finds whoever waits on its address, and no entry is left behind
\* (RegisterPortableWaiter and UnregisterPortableWaiter).
THEOREM AddressCorrect == ASSUME Address!SyncOnAddressAssumption PROVE Address!Spec => []Reachable
  <1>1. AddressInv => Reachable
    <2> SUFFICES ASSUME AddressInv PROVE Reachable
      OBVIOUS
    <2>1. \A t \in Threads : thread[t].pc = "wait" => thread[t].entry \in Entries
      BY AddressFields DEF AddressInv
    <2> QED
      BY <2>1, AddressLists DEF AddressInv, Listed, Placed, Removed, Reachable, Address!Reachable,
         InWait
  <1> QED
    BY <1>1, AddressInvariant, PTL
-----------------------------------------------------------------------------
\* The list that a wake finds for an address is the list of the entry for which
\* its threads came.
LEMMA WaitingIsListed ==
    ASSUME Address!SyncOnAddressAssumption, AddressInv
    PROVE  /\ \A a \in Addresses, t \in Threads :
                 t \in ToSet(Address!WaitingOn(a)) <=> InWait(t) /\ thread[t].addr = a
           /\ \A t \in Threads : InWait(t) =>
                 Address!WaitingOn(thread[t].addr) = waiters[thread[t].entry]
  <1>1. AddressTypes /\ Listed /\ Placed
    BY DEF AddressInv
  <1>2. \A t \in Threads : InWait(t) => /\ registry[thread[t].addr] = thread[t].entry
                                       /\ thread[t].addr \in Addresses
                                       /\ thread[t].entry \in Entries /\ thread[t] # Address!Idle
    BY <1>1, AddressFields DEF Placed, InWait
  <1>3. \A t \in Threads : InWait(t) => Address!WaitingOn(thread[t].addr) = waiters[thread[t].entry]
    BY <1>2 DEF Address!WaitingOn, Address!SyncOnAddressAssumption
  <1>4. ASSUME NEW a \in Addresses, NEW t \in Threads
        PROVE  t \in ToSet(Address!WaitingOn(a)) <=> InWait(t) /\ thread[t].addr = a
    <2>1. CASE registry[a] = NoEntry
      <3>1. t \notin ToSet(Address!WaitingOn(a))
        BY <2>1 DEF Address!WaitingOn, ToSet
      <3> QED
        BY <1>2, <2>1, <3>1 DEF Address!SyncOnAddressAssumption
    <2>2. CASE registry[a] # NoEntry
      <3>1. registry[a] \in Entries /\ Address!WaitingOn(a) = waiters[registry[a]]
        BY <1>1, <2>2 DEF AddressTypes, EntryOrNone, Address!WaitingOn
      <3>2. t \in ToSet(Address!WaitingOn(a)) <=> InWait(t) /\ thread[t].entry = registry[a]
        BY <1>1, <3>1 DEF Listed
      <3> QED
        BY <1>1, <1>2, <3>2 DEF Placed
    <2> QED
      BY <2>1, <2>2
  <1> QED
    BY <1>3, <1>4

\* A thread that leaves the registry's list ends the promised wait.
LEMMA LeavesReturns ==
    ASSUME Address!SyncOnAddressAssumption, AddressInv, NEW t \in Threads, InWait(t),
           NEW r \in {"OK", "ETIMEDOUT"}, t \in woken => r = "OK", Address!Leaves(t, r),
           NEW a, a = thread[t].addr, NEW e, e = thread[t].entry
    PROVE  Address!Promise!Return(t, a, r)
  <1> DEFINE waiting == [b \in Addresses |-> Address!WaitingOn(b)]
  <1>1. AddressTypes /\ Listed /\ Placed
    BY DEF AddressInv
  <1>2. e \in Entries /\ a \in Addresses /\ registry[a] = e /\ thread[t] # Address!Idle
    BY <1>1, AddressFields DEF InWait, Placed
  <1>3. /\ waiters' = [waiters EXCEPT ![e] = RemoveFirst(@, t)]
        /\ registry' = registry /\ word' = word
        /\ woken' = woken \ {t} /\ result' = [result EXCEPT ![t] = r]
    BY AddressLists DEF Address!Leaves
  <1>4. waiting[a] = waiters[e] /\ t \in ToSet(waiting[a])
    BY <1>2, WaitingIsListed
  <1>5. Address!WaitingOn(a)' = RemoveFirst(waiting[a], t)
    BY <1>1, <1>2, <1>3, <1>4 DEF Address!WaitingOn, Address!SyncOnAddressAssumption, AddressTypes
  <1>6. ASSUME NEW b \in Addresses, b # a PROVE Address!WaitingOn(b)' = waiting[b]
    <2>1. registry[b] # e
      BY <1>1, <1>2, <1>6 DEF Placed
    <2>2. registry[b] # NoEntry => registry[b] \in Entries
      BY <1>1 DEF AddressTypes, EntryOrNone
    <2> QED
      BY <1>1, <1>3, <2>1, <2>2 DEF Address!WaitingOn, AddressTypes
  <1>7. waiting' = [waiting EXCEPT ![a] = RemoveFirst(@, t)]
    BY <1>2, <1>5, <1>6
  <1>8. RemoveFirst(waiting[a], t) = Address!Promise!RemoveFirst(waiting[a], t)
    BY AddressLists
  <1> QED
    BY <1>2, <1>3, <1>4, <1>7, <1>8 DEF Address!Promise!Return, Address!Promise!WaitsOn,
       ToSet, Address!Promise!ToSet

\* A thread that joins the registry's list begins the promised wait.
LEMMA RegisterWaits ==
    ASSUME Address!SyncOnAddressAssumption, AddressInv,
           NEW t \in Threads, NEW a \in Addresses, NEW v \in Values, NEW brief \in BOOLEAN,
           Address!Register(t, a, v, brief)
    PROVE  Address!Promise!Wait(t, a)
  <1> DEFINE waiting == [b \in Addresses |-> Address!WaitingOn(b)]
  <1>1. AddressTypes /\ Listed /\ Placed
    BY DEF AddressInv
  <1>2. PICK e \in Entries :
           /\ IF registry[a] = NoEntry THEN ~Address!Held(e) ELSE registry[a] = e
           /\ registry' = [registry EXCEPT ![a] = e]
           /\ waiters' = [waiters EXCEPT ![e] = Append(@, t)]
    BY DEF Address!Register
  <1>3. ~InWait(t)
    BY DEF Address!Register, InWait, Address!Idle
  <1>4. waiters[e] = waiting[a]
    <2>1. CASE registry[a] = NoEntry
      <3>1. \A u \in Threads : u \notin ToSet(waiters[e])
        BY <1>1, <1>2, <2>1, AddressFields DEF Address!Held, Listed, InWait
      <3>2. waiters[e] \in Seq(Threads)
        BY <1>1 DEF AddressTypes
      <3>3. waiters[e] = <<>>
        <4>1. ASSUME waiters[e] # <<>> PROVE waiters[e][1] \in ToSet(waiters[e]) \cap Threads
          BY <3>2, <4>1 DEF ToSet
        <4> QED
          BY <3>1, <4>1
      <3> QED
        BY <2>1, <3>3 DEF Address!WaitingOn
    <2>2. CASE registry[a] # NoEntry
      BY <1>2, <2>2 DEF Address!WaitingOn
    <2> QED
      BY <2>1, <2>2
  <1>5. Address!WaitingOn(a)' = Append(waiting[a], t)
    BY <1>1, <1>2, <1>4 DEF Address!WaitingOn, Address!SyncOnAddressAssumption, AddressTypes
  <1>6. ASSUME NEW b \in Addresses, b # a PROVE Address!WaitingOn(b)' = waiting[b]
    <2>1. registry[b] # e
      BY <1>1, <1>2, <1>6 DEF Placed, Address!Held, Address!SyncOnAddressAssumption
    <2>2. registry[b] # NoEntry => registry[b] \in Entries
      BY <1>1 DEF AddressTypes, EntryOrNone
    <2> QED
      BY <1>1, <1>2, <1>6, <2>1, <2>2 DEF Address!WaitingOn, AddressTypes
  <1>7. waiting' = [waiting EXCEPT ![a] = Append(@, t)]
    BY <1>5, <1>6
  <1>8. \A b \in Addresses : t \notin ToSet(waiting[b])
    BY <1>3, WaitingIsListed
  <1> QED
    BY <1>7, <1>8 DEF Address!Promise!Wait, Address!Promise!WaitsOn, ToSet,
       Address!Promise!ToSet, Address!Register

\* An entry goes only when nobody waits in it.
LEMMA UnregisterStutters ==
    ASSUME Address!SyncOnAddressAssumption, AddressInv, NEW t \in Threads, Address!Unregister(t)
    PROVE  UNCHANGED Address!Promise!waitVars
  <1>1. AddressTypes /\ thread[t].addr \in Addresses
    BY AddressFields DEF AddressInv, Address!Unregister
  <1>2. ASSUME NEW b \in Addresses PROVE Address!WaitingOn(b)' = Address!WaitingOn(b)
    BY <1>1 DEF Address!WaitingOn, Address!Unregister, Address!MayErase, AddressTypes
  <1> QED
    BY <1>2 DEF Address!Promise!waitVars, Address!Unregister

\* The registry's wake releases the threads that the promised one does.
LEMMA WakeWakes ==
    ASSUME NEW a \in Addresses, NEW count \in Counts, Address!Wake(a, count)
    PROVE  Address!Promise!Wake(a, count)
  <1>1. \A b \in Addresses : Address!WaitingOn(b)' = Address!WaitingOn(b)
    BY DEF Address!Wake, Address!WaitingOn
  <1>2. Address!WaitingOn(a) = waiters[registry[a]]
    BY DEF Address!Wake, Address!WaitingOn
  <1> QED
    BY <1>1, <1>2, AddressLists DEF Address!Wake, Address!Promise!Wake, Address!Promise!First

LEMMA StepPromised ==
    ASSUME Address!SyncOnAddressAssumption
    PROVE  AddressInv /\ [Address!Next]_(Address!addressVars)
              => [Address!Promise!Next]_(Address!Promise!waitVars)
  <1> SUFFICES ASSUME AddressInv, [Address!Next]_(Address!addressVars)
               PROVE  [Address!Promise!Next]_(Address!Promise!waitVars)
    OBVIOUS
  <1>1. ASSUME NEW a \in Addresses, NEW v \in Values, Address!Store(a, v) PROVE Address!Promise!Next
    <2>1. \A b \in Addresses : Address!WaitingOn(b)' = Address!WaitingOn(b)
      BY <1>1 DEF Address!Store, Address!WaitingOn
    <2>2. Address!Promise!Store(a, v)
      BY <1>1, <2>1 DEF Address!Store, Address!Promise!Store
    <2> QED
      BY <2>2 DEF Address!Promise!Next
  <1>2. ASSUME NEW a \in Addresses, NEW count \in Counts, Address!Wake(a, count) PROVE Address!Promise!Next
    BY <1>2, WakeWakes DEF Address!Promise!Next
  <1>3. ASSUME NEW a \in Addresses, NEW t \in Threads, NEW v \in Values, NEW brief \in BOOLEAN,
               Address!Register(t, a, v, brief)
        PROVE  Address!Promise!Next
    BY <1>3, RegisterWaits DEF Address!Promise!Next
  <1>4. ASSUME NEW t \in Threads, InWait(t), NEW r \in {"OK", "ETIMEDOUT"},
               t \in woken => r = "OK", Address!Leaves(t, r)
        PROVE  Address!Promise!Next
    <2>1. thread[t].addr \in Addresses
      BY <1>4, AddressFields DEF AddressInv, InWait
    <2> QED
      BY <1>4, <2>1, LeavesReturns DEF Address!Promise!Next
  <1>5. ASSUME NEW t \in Threads, Address!Returns(t) \/ Address!TimesOut(t) PROVE Address!Promise!Next
    BY <1>4, <1>5 DEF Address!Returns, Address!TimesOut, Address!MayTimeOut, Address!Released, InWait
  <1>6. ASSUME NEW t \in Threads, Address!Unregister(t) PROVE UNCHANGED Address!Promise!waitVars
    BY <1>6, UnregisterStutters
  <1>7. ASSUME UNCHANGED Address!addressVars PROVE UNCHANGED Address!Promise!waitVars
    <2>1. \A b \in Addresses : Address!WaitingOn(b)' = Address!WaitingOn(b)
      BY <1>7 DEF Address!addressVars, Address!WaitingOn
    <2> QED
      BY <1>7, <2>1 DEF Address!addressVars, Address!Promise!waitVars
  <1> QED
    BY <1>1, <1>2, <1>3, <1>5, <1>6, <1>7 DEF Address!Next, Address!InWait

\* The registry of entries provides what waiting on an address promises: a wake
\* releases the threads that wait, the longest waiting first, and a released
\* thread returns OK.
THEOREM PromiseCorrect == ASSUME Address!SyncOnAddressAssumption PROVE Address!Spec => KeepsPromise
  <1>1. Address!Init => Address!Promise!Init
    BY DEF Address!Init, Address!Promise!Init, Address!WaitingOn
  <1> QED
    BY <1>1, AddressInvariant, StepPromised, PTL DEF Address!Spec, KeepsPromise, Address!KeepsPromise, Address!Promise!Spec
=============================================================================
