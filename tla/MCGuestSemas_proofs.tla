--------------------------- MODULE MCGuestSemas_proofs ---------------------------
(***************************************************************************)
(* Proofs about the kernel semaphore and the POSIX one, for any finite set *)
(* of threads, any maximum, either waiter order and any priorities, and    *)
(* about the event queues, for any queues and waiting threads.             *)
(***************************************************************************)
EXTENDS MCGuestSemas, ListLemmas

-----------------------------------------------------------------------------
(* The kernel semaphore.                                                     *)


\* The order of the list is total on the waiters, empty elsewhere, and puts a
\* better priority first.
ListOK ==
    /\ \A t \in Threads : t \notin ahead[t] /\ ahead[t] \subseteq waiting
    /\ \A t, u \in waiting : ~FifoOrder /\ Priority[u] < Priority[t] => u \in ahead[t]

\* The waiters the walk has passed cannot use what is left; without a walk
\* that holds for all of them.
WalkOK ==
    /\ \A t \in visited : Asleep(t) => waiter[t].need > count
    /\ MutexFree => visited = {}
    /\ status = "freed" => MutexFree

IInv == TypeOK /\ ListOK /\ WalkOK /\ NoneOverlooked /\ FreedUnused

USE KernelSemaAssumption

\* What AllReady does to the entries.
LEMMA AllReadyEntries ==
    ASSUME TypeOK, NEW r \in Results
    PROVE  /\ AllReady(r) \in [Threads -> WaitingThread]
           /\ \A t \in Threads : t \in waiting => AllReady(r)[t].ready
           /\ \A t \in Threads : ~Asleep(t) => AllReady(r)[t] = waiter[t]
           /\ \A t \in Threads : Asleep(t) => AllReady(r)[t].result = r
  <1>1. AllReady(r) = [t \in Threads |-> IF Asleep(t) THEN Ready(t, r) ELSE waiter[t]]
    BY DEF AllReady
  <1>2. ASSUME NEW t \in Threads
        PROVE  /\ waiter[t] \in WaitingThread
               /\ Ready(t, r) \in WaitingThread
               /\ Ready(t, r).ready /\ Ready(t, r).result = r
    BY DEF TypeOK, Ready, WaitingThread
  <1> QED
    BY <1>1, <1>2 DEF Asleep

LEMMA InitInv == Init => IInv
BY DEF Init, IInv, TypeOK, ListOK, WalkOK, NoneOverlooked, FreedUnused, MutexFree,
       Asleep, NoEntry, WaitingThread, Results

LEMMA StepInv == IInv /\ [Next]_vars => IInv'
<1> SUFFICES ASSUME IInv, [Next]_vars PROVE IInv' OBVIOUS
<1> USE DEF IInv
<1>1. ASSUME NEW t \in Threads, NEW n \in 1 .. MaxCount, TakeAtOnce(t, n) PROVE IInv'
  <2>1. TypeOK'
    BY <1>1 DEF TakeAtOnce, TypeOK, listVars, walkVars
  <2>2. ListOK' /\ WalkOK' /\ NoneOverlooked' /\ FreedUnused'
    BY <1>1 DEF TakeAtOnce, TypeOK, ListOK, WalkOK, NoneOverlooked, FreedUnused,
                MutexFree, Asleep, listVars, walkVars, WaitingThread
  <2> QED BY <2>1, <2>2
<1>2. ASSUME NEW t \in Threads, NEW n \in 1 .. MaxCount, NEW timed \in BOOLEAN,
             AddWaiter(t, n, timed)
      PROVE  IInv'
  <2>1. TypeOK'
    <3>1. waiter' \in [Threads -> WaitingThread]
      BY <1>2 DEF AddWaiter, TypeOK, NoEntry, WaitingThread, Results
    <3>2. InFrontOf(t) \subseteq Threads
      BY DEF InFrontOf, TypeOK
    <3>3. ahead' \in [Threads -> SUBSET Threads]
      BY <1>2, <3>2 DEF AddWaiter, TypeOK
    <3> QED BY <1>2, <3>1, <3>3 DEF AddWaiter, TypeOK, walkVars, historyVars
  <2>2. ListOK'
    BY <1>2 DEF AddWaiter, TypeOK, ListOK, InFrontOf
  <2>3. \A u \in waiting : waiter'[u] = waiter[u]
    BY <1>2 DEF AddWaiter, TypeOK
  <2>4. waiter'[t].need = n
    BY <1>2 DEF AddWaiter, TypeOK, NoEntry
  <2>5. NoneOverlooked'
    BY <1>2, <2>3, <2>4 DEF AddWaiter, TypeOK, NoneOverlooked, MutexFree, Asleep, walkVars
  <2>6. WalkOK' /\ FreedUnused'
    BY <1>2 DEF AddWaiter, TypeOK, WalkOK, FreedUnused, MutexFree, walkVars
  <2> QED BY <2>1, <2>2, <2>5, <2>6
<1>3. ASSUME NEW t \in Threads, WaitReturns(t) \/ WaitTimesOut(t) PROVE IInv'
  <2>1. RemoveWaiter(t) /\ MutexFree /\ t \in waiting
    BY <1>3 DEF WaitReturns, WaitTimesOut
  <2>2. delivered' \in Nat
    BY <1>3 DEF WaitReturns, WaitTimesOut, TypeOK, WaitingThread
  <2>3. visited' = {} /\ visited = {} /\ MutexFree'
    BY <2>1 DEF RemoveWaiter, WalkOK, MutexFree, walkVars
  <2>4. TypeOK'
    <3>1. waiter' \in [Threads -> WaitingThread]
      BY <2>1 DEF RemoveWaiter, TypeOK, NoEntry, WaitingThread, Results
    <3> QED BY <2>1, <2>2, <2>3, <3>1 DEF RemoveWaiter, TypeOK, walkVars
  <2>5. ListOK'
    BY <2>1 DEF RemoveWaiter, TypeOK, ListOK
  <2>6. \A u \in waiting' : u \in waiting /\ waiter'[u] = waiter[u]
    BY <2>1 DEF RemoveWaiter, TypeOK
  <2>7. NoneOverlooked'
    BY <2>1, <2>3, <2>6 DEF RemoveWaiter, NoneOverlooked, Asleep
  <2>8. WalkOK' /\ FreedUnused'
    BY <2>1, <2>3 DEF RemoveWaiter, WalkOK, FreedUnused
  <2> QED BY <2>4, <2>5, <2>7, <2>8
<1>4. ASSUME NEW t \in Threads, NEW n \in 1 .. MaxCount, SignalBegin(t, n) PROVE IInv'
  <2>1. TypeOK'
    BY <1>4 DEF SignalBegin, RoomFor, TypeOK, listVars
  <2>2. ListOK' /\ WalkOK' /\ NoneOverlooked' /\ FreedUnused'
    BY <1>4 DEF SignalBegin, TypeOK, ListOK, WalkOK, NoneOverlooked, FreedUnused,
                MutexFree, listVars
  <2> QED BY <2>1, <2>2
<1>5. ASSUME NEW t \in Threads, WakeWaiter(t) PROVE IInv'
  <2>1. ~MutexFree' /\ ~MutexFree
    BY <1>5 DEF WakeWaiter, MutexFree
  <2>2. t \in waiting /\ waiting' = waiting /\ visited' = visited \cup {t}
    BY <1>5 DEF WakeWaiter, Reached, listVars
  <2>3. TypeOK'
    <3>1. CASE Servable(t)
      <4>1. waiter[t].need \in 1 .. MaxCount /\ waiter[t].need <= count
        BY <3>1 DEF Servable, TypeOK, WaitingThread
      <4>2. count' \in 0 .. MaxCount
        BY <1>5, <3>1, <4>1 DEF WakeWaiter, TypeOK
      <4>3. waiter' \in [Threads -> WaitingThread]
        <5>1. waiter[t] \in WaitingThread BY DEF TypeOK
        <5>2. Ready(t, "Ok") \in WaitingThread BY <5>1 DEF Ready, WaitingThread, Results
        <5>3. waiter' = [waiter EXCEPT ![t] = Ready(t, "Ok")] BY <1>5, <3>1 DEF WakeWaiter
        <5> QED BY <5>2, <5>3 DEF TypeOK
      <4> QED BY <1>5, <2>2, <4>2, <4>3 DEF WakeWaiter, TypeOK, listVars, historyVars
    <3>2. CASE ~Servable(t)
      BY <1>5, <2>2, <3>2 DEF WakeWaiter, TypeOK, listVars, historyVars
    <3> QED BY <3>1, <3>2
  <2>4. count' <= count
    BY <1>5 DEF WakeWaiter, TypeOK, WaitingThread
  <2>5. \A u \in visited : waiter'[u] = waiter[u]
    BY <1>5 DEF WakeWaiter, Reached, TypeOK
  <2>6. waiter'[t].ready \/ waiter'[t].need > count'
    <3>1. waiter[t] \in WaitingThread /\ count \in Nat BY DEF TypeOK
    <3>2. CASE Servable(t)
      <4>1. waiter'[t] = Ready(t, "Ok") BY <1>5, <3>2 DEF WakeWaiter, TypeOK
      <4> QED BY <3>1, <4>1 DEF Ready, WaitingThread
    <3>3. CASE ~Servable(t)
      BY <1>5, <3>1, <3>3 DEF WakeWaiter, Servable, WaitingThread
    <3> QED BY <3>2, <3>3
  <2>7. \A u \in visited : Asleep(u)' => waiter'[u].need > count'
    <3> SUFFICES ASSUME NEW u \in visited, Asleep(u)' PROVE waiter'[u].need > count'
      OBVIOUS
    <3>1. Asleep(u)
      BY <2>2, <2>5 DEF Asleep
    <3>2. waiter[u].need > count
      BY <3>1 DEF WalkOK
    <3>3. u \in Threads /\ waiter[u].need \in Nat
      BY DEF TypeOK, WaitingThread
    <3>4. count \in Nat /\ count' \in Nat
      BY <2>3 DEF TypeOK
    <3> QED BY <2>4, <2>5, <3>2, <3>3, <3>4
  <2>8. ListOK' /\ FreedUnused'
    BY <1>5 DEF WakeWaiter, ListOK, FreedUnused, listVars
  <2>9. WalkOK' /\ NoneOverlooked'
    BY <1>5, <2>1, <2>2, <2>6, <2>7 DEF WakeWaiter, WalkOK, NoneOverlooked, Asleep
  <2> QED BY <2>3, <2>8, <2>9
<1>6. ASSUME SignalEnd PROVE IInv'
  BY <1>6 DEF SignalEnd, WalkEnds, TypeOK, ListOK, WalkOK, NoneOverlooked, FreedUnused,
              MutexFree, Asleep, listVars, historyVars
<1>7. ASSUME NEW n \in -1 .. MaxCount, Cancel(n) PROVE IInv'
  <2>1. "Canceled" \in Results BY DEF Results
  <2>2. waiter' = AllReady("Canceled") BY <1>7 DEF Cancel
  <2>3. TypeOK'
    BY <1>7, <2>1, <2>2, AllReadyEntries DEF Cancel, TypeOK, listVars, walkVars
  <2>4. ListOK' /\ WalkOK' /\ NoneOverlooked' /\ FreedUnused'
    BY <1>7, <2>1, <2>2, AllReadyEntries
       DEF Cancel, TypeOK, ListOK, WalkOK, NoneOverlooked, FreedUnused, MutexFree, Asleep,
           listVars, walkVars
  <2> QED BY <2>3, <2>4
<1>8. ASSUME DeleteBegin PROVE IInv'
  <2>1. "Deleted" \in Results BY DEF Results
  <2>2. waiter' = AllReady("Deleted") BY <1>8 DEF DeleteBegin
  <2>3. TypeOK'
    BY <1>8, <2>1, <2>2, AllReadyEntries DEF DeleteBegin, TypeOK, listVars, walkVars, historyVars
  <2>4. ListOK' /\ WalkOK' /\ NoneOverlooked' /\ FreedUnused'
    BY <1>8, <2>1, <2>2, AllReadyEntries
       DEF DeleteBegin, TypeOK, ListOK, WalkOK, NoneOverlooked, FreedUnused, MutexFree, Asleep,
           listVars, walkVars
  <2> QED BY <2>3, <2>4
<1>9. ASSUME DeleteEnd PROVE IInv'
  BY <1>9 DEF DeleteEnd, Drained, TypeOK, ListOK, WalkOK, NoneOverlooked, FreedUnused,
              MutexFree, Asleep, listVars, walkVars, historyVars
<1>10. ASSUME UNCHANGED vars PROVE IInv'
  BY <1>10 DEF vars, TypeOK, ListOK, WalkOK, NoneOverlooked, FreedUnused, MutexFree, Asleep,
               listVars, walkVars, historyVars
<1> QED
  BY <1>1, <1>2, <1>3, <1>4, <1>5, <1>6, <1>7, <1>8, <1>9, <1>10 DEF Next

\* The inductive invariant holds in every reachable state.
THEOREM InvariantHolds == Spec => []IInv
BY InitInv, StepInv, PTL DEF Spec

\* The counts stay in range and every entry keeps its type.
THEOREM TypeCorrectness == Spec => []TypeOK
BY InvariantHolds, PTL DEF IInv

\* No sleeping waiter could be served by the units that are there.
THEOREM NoWaiterOverlooked == Spec => []NoneOverlooked
BY InvariantHolds, PTL DEF IInv

\* The object is freed only when no call uses it.
THEOREM FreedWhenUnused == Spec => []FreedUnused
BY InvariantHolds, PTL DEF IInv

\* Types, no overlooked waiter and no early free, for every constant.
THEOREM SemaCorrect == Spec => []SemaSound
BY InvariantHolds, PTL DEF IInv, SemaSound

\* A waiter is served before those behind it that ask for no less.
THEOREM OrderRespected == Spec => ServedInOrder
<1> DEFINE Step == \A t \in waiting :
              ~waiter[t].ready /\ waiter'[t].ready /\ waiter'[t].result = "Ok"
                => \A u \in waiting :
                      u \in ahead[t] \/ (~FifoOrder /\ Priority[u] < Priority[t])
                          => waiter[u].ready \/ waiter[u].need > waiter[t].need
<1>1. IInv /\ [Next]_vars => [Step]_vars
  <2> SUFFICES ASSUME IInv, Next,
                      NEW t \in waiting, ~waiter[t].ready, waiter'[t].ready,
                      waiter'[t].result = "Ok",
                      NEW u \in waiting,
                      u \in ahead[t] \/ (~FifoOrder /\ Priority[u] < Priority[t])
               PROVE  waiter[u].ready \/ waiter[u].need > waiter[t].need
    OBVIOUS
  <2>1. t \in Threads /\ u \in Threads /\ Asleep(t)
    BY DEF IInv, TypeOK, Asleep
  <2>2. \E v \in Threads : WakeWaiter(v)
    <3>1. \A v \in Threads, n \in 1 .. MaxCount : ~TakeAtOnce(v, n) /\ ~SignalBegin(v, n)
      BY DEF TakeAtOnce, SignalBegin
    <3>2. \A v \in Threads, n \in 1 .. MaxCount, b \in BOOLEAN : ~AddWaiter(v, n, b)
      BY <2>1 DEF AddWaiter, IInv, TypeOK
    <3>3. \A v \in Threads : ~WaitReturns(v) /\ ~WaitTimesOut(v)
      BY <2>1 DEF WaitReturns, WaitTimesOut, RemoveWaiter, NoEntry, IInv, TypeOK
    <3>4. ~SignalEnd /\ ~DeleteEnd
      BY DEF SignalEnd, DeleteEnd
    <3>5. \A n \in -1 .. MaxCount : ~Cancel(n)
      BY <2>1, AllReadyEntries DEF Cancel, IInv, Results
    <3>6. ~DeleteBegin
      BY <2>1, AllReadyEntries DEF DeleteBegin, IInv, Results
    <3> QED BY <3>1, <3>2, <3>3, <3>4, <3>5, <3>6 DEF Next
  <2>3. WakeWaiter(t) /\ Servable(t)
    BY <2>1, <2>2 DEF WakeWaiter, Ready, IInv, TypeOK
  <2>4. u \in visited
    BY <2>3 DEF WakeWaiter, Reached, IInv, ListOK
  <2>5. waiter[u].ready \/ waiter[u].need > count
    BY <2>4 DEF IInv, WalkOK, Asleep
  <2>6. waiter[t].need <= count
    BY <2>3 DEF Servable
  <2>7. waiter[u].need \in Nat /\ waiter[t].need \in Nat /\ count \in Nat
    BY <2>1 DEF IInv, TypeOK, WaitingThread
  <2> QED BY <2>5, <2>6, <2>7
<1> QED BY <1>1, InvariantHolds, PTL DEF Spec, ServedInOrder

\* Once woken, a waiter's result does not change until it returns it.
THEOREM ResultsFinal == Spec => ResultFinal
<1> DEFINE Step == \A t \in waiting :
                       waiter[t].ready => waiter'[t] = waiter[t] \/ t \notin waiting'
<1>1. IInv /\ [Next]_vars => [Step]_vars
  <2> SUFFICES ASSUME IInv, Next, NEW t \in waiting, waiter[t].ready
               PROVE  waiter'[t] = waiter[t] \/ t \notin waiting'
    OBVIOUS
  <2>1. t \in Threads /\ ~Asleep(t) /\ TypeOK
    BY DEF IInv, TypeOK, Asleep
  <2>2. AllReady("Canceled")[t] = waiter[t] /\ AllReady("Deleted")[t] = waiter[t]
    BY <2>1, AllReadyEntries DEF Results
  <2> QED
    BY <2>1, <2>2 DEF Next, TakeAtOnce, AddWaiter, WaitReturns, WaitTimesOut, RemoveWaiter,
                      SignalBegin, SignalEnd, WakeWaiter, Servable, Cancel, DeleteBegin,
                      DeleteEnd, TypeOK
<1> QED BY <1>1, InvariantHolds, PTL DEF Spec, ResultFinal

\* Waiters are woken in order, and with results that stay.
THEOREM WakesCorrect == Spec => WakesRight
BY OrderRespected, ResultsFinal DEF WakesRight
-----------------------------------------------------------------------------
(* The units of the kernel semaphore: those that woken waiters were given    *)
(* are counted as pairs of the waiter and a number up to what it asked for.  *)

LEMMA UnitsCount ==
    ASSUME NEW t, NEW n \in Nat
    PROVE  IsFiniteSet({t} \X (1 .. n)) /\ Cardinality({t} \X (1 .. n)) = n
  <1>1. IsFiniteSet({t}) /\ Cardinality({t}) = 1
    BY FS_Singleton
  <1>2. IsFiniteSet(1 .. n) /\ Cardinality(1 .. n) = n
    BY FS_Interval
  <1>3. /\ IsFiniteSet({t} \X (1 .. n))
        /\ Cardinality({t} \X (1 .. n)) = Cardinality({t}) * Cardinality(1 .. n)
    BY <1>1, <1>2, FS_Product
  <1> QED
    BY <1>1, <1>2, <1>3

LEMMA GivenFinite ==
    ASSUME TypeOK
    PROVE  IsFiniteSet(Given) /\ Cardinality(Given) \in Nat
  <1>1. IsFiniteSet(Threads) /\ IsFiniteSet(1 .. MaxCount)
    BY FS_Interval
  <1>2. IsFiniteSet(Threads \X (1 .. MaxCount))
    BY <1>1, FS_Product
  <1>3. Given \subseteq Threads \X (1 .. MaxCount)
    <2>1. \A t \in Pending : t \in Threads /\ 1 .. waiter[t].need \subseteq 1 .. MaxCount
      BY DEF TypeOK, WaitingThread, Pending
    <2> QED
      BY <2>1 DEF Given
  <1>4. IsFiniteSet(Given)
    BY <1>2, <1>3, FS_Subset
  <1> QED
    BY <1>4, FS_CardinalityType

\* The units stay when nobody is woken or returns, grow by what a waiter is
\* given, and shrink by what it returns with.
LEMMA GivenStays ==
    ASSUME Pending' = Pending, \A t \in Pending : waiter'[t].need = waiter[t].need
    PROVE  Given' = Given
  BY DEF Given

LEMMA GivenGrows ==
    ASSUME TypeOK, TypeOK', NEW t \in Threads, t \notin Pending, Pending' = Pending \cup {t},
           \A u \in Pending' : waiter'[u].need = waiter[u].need
    PROVE  Cardinality(Given') = Cardinality(Given) + waiter[t].need
  <1> DEFINE own == {t} \X (1 .. waiter[t].need)
  <1>1. waiter[t].need \in Nat
    BY DEF TypeOK, WaitingThread
  <1>2. Given' = Given \cup own /\ Given \cap own = {}
    BY DEF Given
  <1>3. IsFiniteSet(own) /\ Cardinality(own) = waiter[t].need
    BY <1>1, UnitsCount
  <1>4. IsFiniteSet(Given) /\ Cardinality(Given) \in Nat
    BY GivenFinite
  <1> HIDE DEF own
  <1>5. Cardinality(Given \cup own) = Cardinality(Given) + Cardinality(own) - Cardinality(Given \cap own)
    BY <1>3, <1>4, FS_Union
  <1>6. Cardinality(Given \cap own) = 0
    BY <1>2, FS_EmptySet
  <1> QED
    BY <1>1, <1>2, <1>3, <1>4, <1>5, <1>6

LEMMA GivenShrinks ==
    ASSUME TypeOK, NEW t \in Pending, Pending' = Pending \ {t},
           \A u \in Pending' : waiter'[u].need = waiter[u].need
    PROVE  Cardinality(Given') = Cardinality(Given) - waiter[t].need
  <1> DEFINE own == {t} \X (1 .. waiter[t].need)
  <1>1. waiter[t].need \in Nat
    BY DEF TypeOK, WaitingThread, Pending
  <1>2. Given' = Given \ own /\ Given \cap own = own
    BY DEF Given
  <1>3. Cardinality(own) = waiter[t].need
    BY <1>1, UnitsCount
  <1>4. IsFiniteSet(Given)
    BY GivenFinite
  <1> HIDE DEF own
  <1>5. Cardinality(Given \ own) = Cardinality(Given) - Cardinality(Given \cap own)
    BY <1>4, FS_Difference
  <1> QED
    BY <1>2, <1>3, <1>5

UnitsInv == IInv /\ UnitsConserved

LEMMA UnitsStart == Init => UnitsInv
  <1> SUFFICES ASSUME Init PROVE UnitsInv
    OBVIOUS
  <1>1. Given = {}
    BY DEF Init, Given, Pending
  <1>2. supplied = count /\ delivered = 0 /\ count \in Nat
    BY DEF Init
  <1> QED
    BY <1>1, <1>2, FS_EmptySet, InitInv DEF UnitsInv, UnitsConserved

LEMMA UnitsStep ==
    ASSUME UnitsInv, [Next]_vars
    PROVE  UnitsInv'
  <1>1. /\ TypeOK /\ TypeOK' /\ supplied = count + delivered + Cardinality(Given) /\ IInv'
    BY StepInv DEF UnitsInv, IInv, UnitsConserved
  <1>2. /\ count \in Int /\ count' \in Int /\ delivered \in Int /\ delivered' \in Int
        /\ supplied \in Int /\ Cardinality(Given) \in Int
        /\ waiting \subseteq Threads /\ waiter \in [Threads -> WaitingThread]
        /\ \A t \in Threads : waiter[t].need \in Nat
    BY <1>1, GivenFinite DEF TypeOK, WaitingThread
  <1>3. SUFFICES supplied' = count' + delivered' + Cardinality(Given')
    BY <1>1 DEF UnitsInv, UnitsConserved
  <1>4. ASSUME NEW t \in Threads, NEW n \in 1 .. MaxCount, TakeAtOnce(t, n) \/ SignalBegin(t, n)
        PROVE  supplied' = count' + delivered' + Cardinality(Given')
    <2>1. Given' = Given
      BY <1>4, GivenStays DEF TakeAtOnce, SignalBegin, listVars, Pending
    <2> QED
      BY <1>1, <1>2, <1>4, <2>1 DEF TakeAtOnce, SignalBegin
  <1>5. ASSUME NEW t \in Threads, NEW n \in 1 .. MaxCount, NEW timed \in BOOLEAN, AddWaiter(t, n, timed)
        PROVE  supplied' = count' + delivered' + Cardinality(Given')
    <2>1. /\ t \notin waiting /\ waiting' = waiting \cup {t}
          /\ \A u \in waiting : waiter'[u] = waiter[u]
          /\ ~waiter'[t].ready
      BY <1>2, <1>5 DEF AddWaiter, NoEntry
    <2>2. Given' = Given
      BY <2>1, GivenStays DEF Pending
    <2> QED
      BY <1>1, <1>2, <1>5, <2>2 DEF AddWaiter, historyVars
  <1>6. ASSUME NEW t \in Threads, WaitReturns(t) \/ WaitTimesOut(t)
        PROVE  supplied' = count' + delivered' + Cardinality(Given')
    <2>1. /\ t \in waiting /\ waiting' = waiting \ {t} /\ UNCHANGED <<count, supplied>>
          /\ \A u \in waiting : u # t => waiter'[u] = waiter[u]
      BY <1>2, <1>6 DEF WaitReturns, WaitTimesOut, RemoveWaiter
    <2>2. CASE t \in Pending
      <3>1. Cardinality(Given') = Cardinality(Given) - waiter[t].need
        BY <1>1, <2>1, <2>2, GivenShrinks DEF Pending
      <3>2. delivered' = delivered + waiter[t].need
        BY <1>6, <2>2 DEF Pending, WaitReturns, WaitTimesOut, Expired
      <3> QED
        BY <1>1, <1>2, <2>1, <3>1, <3>2
    <2>3. CASE t \notin Pending
      <3>1. Given' = Given
        BY <2>1, <2>3, GivenStays DEF Pending
      <3>2. delivered' = delivered
        BY <1>2, <1>6, <2>1, <2>3 DEF Pending, WaitReturns, WaitTimesOut
      <3> QED
        BY <1>1, <1>2, <2>1, <3>1, <3>2
    <2> QED
      BY <2>2, <2>3
  <1>7. ASSUME NEW t \in Threads, WakeWaiter(t)
        PROVE  supplied' = count' + delivered' + Cardinality(Given')
    <2>1. t \in waiting /\ UNCHANGED <<waiting, supplied, delivered>>
      BY <1>7 DEF WakeWaiter, Reached, listVars, historyVars
    <2>2. CASE Servable(t)
      <3>1. /\ count' = count - waiter[t].need /\ ~waiter[t].ready
            /\ waiter' = [waiter EXCEPT ![t] = Ready(t, "Ok")]
        BY <1>7, <2>2 DEF WakeWaiter, Servable
      <3>2. /\ waiter'[t].ready /\ waiter'[t].result = "Ok" /\ waiter'[t].need = waiter[t].need
            /\ \A u \in Threads : u # t => waiter'[u] = waiter[u]
        BY <1>2, <3>1 DEF Ready, WaitingThread
      <3>3. Cardinality(Given') = Cardinality(Given) + waiter[t].need
        BY <1>1, <1>2, <2>1, <3>1, <3>2, GivenGrows DEF Pending
      <3> QED
        BY <1>1, <1>2, <2>1, <3>1, <3>3
    <2>3. CASE ~Servable(t)
      <3>1. UNCHANGED <<count, waiter>>
        BY <1>7, <2>3 DEF WakeWaiter
      <3>2. Given' = Given
        BY <2>1, <3>1, GivenStays DEF Pending
      <3> QED
        BY <1>1, <2>1, <3>1, <3>2
    <2> QED
      BY <2>2, <2>3
  <1>8. ASSUME NEW n \in -1 .. MaxCount, Cancel(n)
        PROVE  supplied' = count' + delivered' + Cardinality(Given')
    <2>1. /\ waiting' = waiting /\ waiter' = AllReady("Canceled") /\ delivered' = delivered
          /\ supplied' = supplied + count' - count
      BY <1>8 DEF Cancel, listVars
    <2>2. Given' = Given
      <3>1. \A u \in waiting : /\ waiter[u].ready => waiter'[u] = waiter[u]
                               /\ ~waiter[u].ready => waiter'[u].result = "Canceled"
        BY <1>1, <1>2, <2>1, AllReadyEntries DEF Asleep, Results
      <3> QED
        BY <2>1, <3>1, GivenStays DEF Pending
    <2> QED
      BY <1>1, <1>2, <2>1, <2>2
  <1>9. ASSUME DeleteBegin PROVE supplied' = count' + delivered' + Cardinality(Given')
    <2>1. /\ waiting' = waiting /\ waiter' = AllReady("Deleted")
          /\ UNCHANGED <<count, supplied, delivered>>
      BY <1>9 DEF DeleteBegin, listVars, historyVars
    <2>2. Given' = Given
      <3>1. \A u \in waiting : /\ waiter[u].ready => waiter'[u] = waiter[u]
                               /\ ~waiter[u].ready => waiter'[u].result = "Deleted"
        BY <1>1, <1>2, <2>1, AllReadyEntries DEF Asleep, Results
      <3> QED
        BY <2>1, <3>1, GivenStays DEF Pending
    <2> QED
      BY <1>1, <2>1, <2>2
  <1>10. ASSUME UNCHANGED vars \/ SignalEnd \/ DeleteEnd
         PROVE  supplied' = count' + delivered' + Cardinality(Given')
    <2>1. UNCHANGED <<waiting, waiter, count, supplied, delivered>>
      BY <1>10 DEF vars, SignalEnd, DeleteEnd, listVars, historyVars
    <2>2. Given' = Given
      BY <2>1, GivenStays DEF Pending
    <2> QED
      BY <1>1, <2>1, <2>2
  <1> QED
    BY <1>4, <1>5, <1>6, <1>7, <1>8, <1>9, <1>10 DEF Next
-----------------------------------------------------------------------------
(* The POSIX semaphore.                                                      *)

PosixTypes ==
    /\ posixThread \in [Threads -> [pc : {"idle", "asleep", "awake"}, timed : BOOLEAN]]
    /\ listed \in BOOLEAN

PosixInv == PosixTypes /\ Posix!PosixSemaSound

LEMMA PosixStarts == ASSUME Posix!PosixSemaAssumption PROVE Posix!Init => PosixInv
  <1> SUFFICES ASSUME Posix!Init PROVE PosixInv
    OBVIOUS
  <1>1. PosixTypes /\ \A t \in Threads : posixThread[t].pc = "idle"
    BY DEF Posix!Init, PosixTypes, Posix!Idle
  <1>2. posixCount \in 0 .. ValueMax /\ listed = FALSE
    BY DEF Posix!Init, Posix!PosixSemaAssumption
  <1>3. Posix!At("asleep") = {}
    BY <1>1 DEF Posix!At
  <1> QED
    BY <1>1, <1>2, <1>3 DEF PosixInv, Posix!PosixSemaSound, Posix!PostsWake, Posix!SemaKept

\* Threads that are awake in a wait: some number, as there are finitely many,
\* which a thread that wakes or leaves changes by one at most.
LEMMA PosixAwake ==
    ASSUME NEW S \in SUBSET Threads
    PROVE  /\ IsFiniteSet(S) /\ Cardinality(S) \in Nat
           /\ Posix!Cardinality(S) = Cardinality(S)
  <1>1. IsFiniteSet(Threads)
    BY KernelSemaAssumption
  <1>2. IsFiniteSet(S)
    BY <1>1, FS_Subset
  <1> QED
    BY <1>2, FS_CardinalityType DEF Posix!Cardinality, Cardinality

LEMMA AwakeChanges ==
    ASSUME NEW S \in SUBSET Threads, NEW T \in SUBSET Threads, NEW t \in Threads
    PROVE  /\ T = S \ {t} => Cardinality(T) >= Cardinality(S) - 1
           /\ S \subseteq T => Cardinality(T) >= Cardinality(S)
           /\ t \notin S /\ T = S \cup {t} => Cardinality(T) >= Cardinality(S) + 1
  <1>1. /\ IsFiniteSet(S) /\ Cardinality(S) \in Nat
        /\ IsFiniteSet(T) /\ Cardinality(T) \in Nat
    BY PosixAwake
  <1>2. IsFiniteSet(S \ {t}) /\ Cardinality(S \ {t}) = IF t \in S THEN Cardinality(S) - 1 ELSE Cardinality(S)
    BY <1>1, FS_RemoveElement
  <1>3. Cardinality(S \cup {t}) = IF t \in S THEN Cardinality(S) ELSE Cardinality(S) + 1
    BY <1>1, FS_AddElement
  <1>4. S \subseteq T => Cardinality(S) <= Cardinality(T)
    BY <1>1, FS_Subset
  <1> QED
    BY <1>1, <1>2, <1>3, <1>4

\* What the parts of PosixInv say, in terms of the threads of each state.
LEMMA PosixKept ==
    ASSUME PosixTypes',
           posixCount' \in 0 .. ValueMax,
           Posix!At("asleep")' # {} => Cardinality(Posix!At("awake")') >= posixCount',
           listed' => guest' = [hasWaiters |-> \E t \in Threads : posixThread'[t].pc # "idle",
                                count |-> posixCount']
    PROVE  PosixInv'
  <1>1. Posix!At("awake")' \in SUBSET Threads
    BY DEF Posix!At
  <1>2. Posix!PostsWake'
    <2>1. Posix!Cardinality(Posix!At("awake")') = Cardinality(Posix!At("awake")')
      BY <1>1, PosixAwake
    <2> QED
      BY <2>1 DEF Posix!PostsWake
  <1>3. Posix!SemaKept'
    BY DEF Posix!SemaKept, Posix!Waiting
  <1> QED
    BY <1>2, <1>3 DEF PosixInv, Posix!PosixSemaSound

LEMMA PosixHolds ==
    ASSUME PosixInv
    PROVE  /\ posixThread \in [Threads -> [pc : {"idle", "asleep", "awake"}, timed : BOOLEAN]]
           /\ listed \in BOOLEAN /\ posixCount \in 0 .. ValueMax
           /\ Posix!At("asleep") # {} => Cardinality(Posix!At("awake")) >= posixCount
           /\ listed => guest = [hasWaiters |-> \E t \in Threads : posixThread[t].pc # "idle",
                                 count |-> posixCount]
  <1>1. Posix!At("awake") \in SUBSET Threads
    BY DEF Posix!At
  <1>2. Posix!Cardinality(Posix!At("awake")) = Cardinality(Posix!At("awake"))
    BY <1>1, PosixAwake
  <1>3. Posix!PostsWake /\ Posix!SemaKept /\ PosixTypes
    BY DEF PosixInv, Posix!PosixSemaSound
  <1>4. Posix!At("asleep") # {} => Cardinality(Posix!At("awake")) >= posixCount
    BY <1>2, <1>3 DEF Posix!PostsWake
  <1>5. listed => guest = [hasWaiters |-> \E t \in Threads : posixThread[t].pc # "idle",
                           count |-> posixCount]
    BY <1>3 DEF Posix!SemaKept, Posix!Waiting
  <1> QED
    BY <1>3, <1>4, <1>5 DEF PosixTypes, Posix!SemaKept

\* A thread that looks takes a unit and leaves, or finds none: then nothing is
\* owed to the sleepers.
LEMMA LooksKeeps ==
    ASSUME PosixInv, Posix!PosixSemaAssumption, NEW t \in Threads,
           NEW w \in [pc : {"idle", "asleep", "awake"}, timed : BOOLEAN], NEW late \in BOOLEAN,
           posixThread[t].pc # "asleep", Posix!Looks(t, w, late)
    PROVE  PosixInv'
  <1>1. /\ posixThread \in [Threads -> [pc : {"idle", "asleep", "awake"}, timed : BOOLEAN]]
        /\ listed \in BOOLEAN /\ posixCount \in 0 .. ValueMax
        /\ Posix!At("asleep") # {} => Cardinality(Posix!At("awake")) >= posixCount
    BY PosixHolds
  <1>2. /\ guest' = [hasWaiters |-> \E u \in Threads : posixThread'[u].pc # "idle", count |-> posixCount']
        /\ listed' = listed
    BY DEF Posix!Looks, Posix!SyncGuest
  <1>3. /\ Posix!At("awake") \in SUBSET Threads /\ Posix!At("awake")' \in SUBSET Threads
        /\ Cardinality(Posix!At("awake")) \in Nat /\ Cardinality(Posix!At("awake")') \in Nat
    <2>1. Posix!At("awake") \in SUBSET Threads /\ Posix!At("awake")' \in SUBSET Threads
      BY DEF Posix!At
    <2> QED
      BY <2>1, PosixAwake
  <1>4. CASE posixCount > 0
    <2>1. /\ posixCount' = posixCount - 1
          /\ posixThread' = [posixThread EXCEPT ![t] = Posix!Idle]
      BY <1>4 DEF Posix!Looks
    <2>2. /\ posixThread' \in [Threads -> [pc : {"idle", "asleep", "awake"}, timed : BOOLEAN]]
          /\ posixThread'[t].pc = "idle" /\ \A u \in Threads : u # t => posixThread'[u] = posixThread[u]
      BY <1>1, <2>1 DEF Posix!Idle
    <2>3. /\ Posix!At("asleep")' = Posix!At("asleep")
          /\ Posix!At("awake")' = Posix!At("awake") \ {t}
      BY <2>2 DEF Posix!At
    <2>4. Cardinality(Posix!At("awake")') >= Cardinality(Posix!At("awake")) - 1
      BY <1>3, <2>3, AwakeChanges
    <2>5. Posix!At("asleep")' # {} => Cardinality(Posix!At("awake")') >= posixCount'
      BY <1>1, <1>3, <2>1, <2>3, <2>4
    <2>6. posixCount' \in 0 .. ValueMax
      BY <1>1, <1>4, <2>1 DEF Posix!PosixSemaAssumption
    <2>7. PosixTypes'
      BY <1>1, <1>2, <2>2 DEF PosixTypes
    <2> QED
      BY <1>2, <2>5, <2>6, <2>7, PosixKept
  <1>5. CASE ~(posixCount > 0)
    <2>1. /\ posixCount = 0 /\ posixCount' = 0
          /\ posixThread' = [posixThread EXCEPT ![t] = IF late THEN Posix!Idle ELSE [w EXCEPT !.pc = "asleep"]]
      BY <1>1, <1>5 DEF Posix!Looks
    <2>2. [w EXCEPT !.pc = "asleep"] \in [pc : {"idle", "asleep", "awake"}, timed : BOOLEAN]
      OBVIOUS
    <2>3. posixThread' \in [Threads -> [pc : {"idle", "asleep", "awake"}, timed : BOOLEAN]]
      BY <1>1, <2>1, <2>2 DEF Posix!Idle
    <2>4. PosixTypes'
      BY <1>1, <1>2, <2>3 DEF PosixTypes
    <2>5. posixCount' \in 0 .. ValueMax /\ Cardinality(Posix!At("awake")') >= posixCount'
      BY <1>1, <1>3, <2>1
    <2> QED
      BY <1>2, <2>4, <2>5, PosixKept
  <1> QED
    BY <1>4, <1>5

LEMMA PosixKeeps ==
    ASSUME PosixInv, Posix!PosixSemaAssumption, [Posix!Next]_Posix!posixVars
    PROVE  PosixInv'
  <1>1. /\ posixThread \in [Threads -> [pc : {"idle", "asleep", "awake"}, timed : BOOLEAN]]
        /\ listed \in BOOLEAN /\ posixCount \in 0 .. ValueMax
        /\ Posix!At("asleep") # {} => Cardinality(Posix!At("awake")) >= posixCount
        /\ listed => guest = [hasWaiters |-> \E t \in Threads : posixThread[t].pc # "idle",
                              count |-> posixCount]
    BY PosixHolds
  <1>2. ValueMax \in Nat
    BY DEF Posix!PosixSemaAssumption
  <1>3. \A S \in SUBSET Threads : Cardinality(S) \in Nat
    BY PosixAwake
  <1>4. Posix!At("awake") \in SUBSET Threads /\ Posix!At("awake")' \in SUBSET Threads
    BY DEF Posix!At
  <1>5. ASSUME NEW value \in 0 .. ValueMax, Posix!SemInit(value) \/ Posix!SemDestroy
        PROVE  PosixInv'
    <2>1. /\ posixThread' = posixThread /\ posixCount' \in {value, 0} /\ listed' \in BOOLEAN
          /\ \A t \in Threads : ~(posixThread[t].pc # "idle")
      BY <1>5 DEF Posix!SemInit, Posix!SemDestroy, Posix!Waiting
    <2>2. /\ Posix!At("asleep")' = {} /\ PosixTypes'
          /\ posixCount' \in 0 .. ValueMax
      BY <1>1, <1>2, <2>1 DEF Posix!At, PosixTypes
    <2>3. listed' => guest' = [hasWaiters |-> \E t \in Threads : posixThread'[t].pc # "idle",
                               count |-> posixCount']
      BY <1>5 DEF Posix!SemInit, Posix!SemDestroy, Posix!SyncGuest
    <2> QED
      BY <2>1, <2>2, <2>3, PosixKept
  <1>6. ASSUME NEW t \in Threads, NEW timed \in BOOLEAN, NEW late \in BOOLEAN, Posix!Wait(t, timed, late)
        PROVE  PosixInv'
    <2>1. /\ posixThread[t].pc # "asleep"
          /\ Posix!Looks(t, [pc |-> "asleep", timed |-> timed], late)
      BY <1>6 DEF Posix!Wait, Posix!Idle
    <2>2. [pc |-> "asleep", timed |-> timed] \in [pc : {"idle", "asleep", "awake"}, timed : BOOLEAN]
      OBVIOUS
    <2> QED
      BY <2>1, <2>2, LooksKeeps
  <1>7. ASSUME NEW t \in Threads, NEW late \in BOOLEAN, Posix!Resumes(t, late)
        PROVE  PosixInv'
    <2>1. posixThread[t].pc # "asleep" /\ Posix!Looks(t, posixThread[t], late)
      BY <1>7 DEF Posix!Resumes
    <2>2. posixThread[t] \in [pc : {"idle", "asleep", "awake"}, timed : BOOLEAN]
      BY <1>1
    <2> QED
      BY <2>1, <2>2, LooksKeeps
  <1>8. ASSUME NEW t \in Threads, Posix!TimePasses(t)
        PROVE  PosixInv'
    <2>1. /\ posixThread[t].pc = "asleep" /\ posixThread' = [posixThread EXCEPT ![t].pc = "awake"]
          /\ listed' = listed /\ posixCount' = posixCount /\ guest' = guest
      BY <1>8 DEF Posix!TimePasses
    <2>2. /\ posixThread' \in [Threads -> [pc : {"idle", "asleep", "awake"}, timed : BOOLEAN]]
          /\ posixThread'[t].pc = "awake" /\ \A u \in Threads : u # t => posixThread'[u] = posixThread[u]
      BY <1>1, <2>1
    <2>3. Posix!At("awake") \subseteq Posix!At("awake")' /\ Posix!At("asleep") # {}
      BY <2>1, <2>2 DEF Posix!At
    <2>4. Cardinality(Posix!At("awake")') >= posixCount'
      <3>1. Cardinality(Posix!At("awake")') >= Cardinality(Posix!At("awake"))
        BY <1>4, <2>3, AwakeChanges
      <3> QED
        BY <1>1, <1>3, <1>4, <2>1, <2>3, <3>1
    <2>5. (\E u \in Threads : posixThread'[u].pc # "idle") = (\E u \in Threads : posixThread[u].pc # "idle")
      BY <2>1, <2>2
    <2>6. PosixTypes'
      BY <1>1, <2>1, <2>2 DEF PosixTypes
    <2>7. listed' => guest' = [hasWaiters |-> \E u \in Threads : posixThread'[u].pc # "idle",
                               count |-> posixCount']
      BY <1>1, <2>1, <2>5
    <2> QED
      BY <1>1, <2>1, <2>4, <2>6, <2>7, PosixKept
  <1>9. ASSUME Posix!Post PROVE PosixInv'
    <2>1. CASE posixCount = ValueMax
      <3>1. UNCHANGED <<listed, posixCount, posixThread, guest>>
        BY <1>9, <2>1 DEF Posix!Post
      <3>2. Posix!At("awake")' = Posix!At("awake") /\ Posix!At("asleep")' = Posix!At("asleep")
        BY <3>1 DEF Posix!At
      <3>3. PosixTypes'
        BY <1>1, <3>1 DEF PosixTypes
      <3>4. listed' => guest' = [hasWaiters |-> \E u \in Threads : posixThread'[u].pc # "idle",
                                 count |-> posixCount']
        BY <1>1, <3>1
      <3> QED
        BY <1>1, <3>1, <3>2, <3>3, <3>4, PosixKept
    <2>2. ASSUME posixCount # ValueMax,
                 NEW t \in Threads, posixThread[t].pc = "asleep",
                 posixThread' = [posixThread EXCEPT ![t].pc = "awake"]
          PROVE  PosixInv'
      <3>1. /\ posixCount' = posixCount + 1 /\ listed' = listed
            /\ guest' = [hasWaiters |-> \E u \in Threads : posixThread'[u].pc # "idle",
                         count |-> posixCount']
        BY <1>9, <2>2 DEF Posix!Post, Posix!SyncGuest
      <3>2. /\ posixThread' \in [Threads -> [pc : {"idle", "asleep", "awake"}, timed : BOOLEAN]]
            /\ posixThread'[t].pc = "awake" /\ \A u \in Threads : u # t => posixThread'[u] = posixThread[u]
        BY <1>1, <2>2
      <3>3. /\ t \notin Posix!At("awake") /\ Posix!At("awake")' = Posix!At("awake") \cup {t}
            /\ Posix!At("asleep") # {}
        BY <2>2, <3>2 DEF Posix!At
      <3>4. Cardinality(Posix!At("awake")') >= Cardinality(Posix!At("awake")) + 1
        BY <1>4, <3>3, AwakeChanges
      <3>5. Cardinality(Posix!At("awake")') >= posixCount'
        BY <1>1, <1>3, <1>4, <3>1, <3>3, <3>4
      <3>6. posixCount' \in 0 .. ValueMax
        <4>1. posixCount \in 0 .. ValueMax /\ posixCount # ValueMax /\ posixCount' = posixCount + 1
          BY <1>1, <2>2, <3>1
        <4> QED
          BY <1>2, <4>1
      <3>7. PosixTypes'
        BY <1>1, <3>1, <3>2 DEF PosixTypes
      <3> QED
        BY <3>1, <3>5, <3>6, <3>7, PosixKept
    <2>3. ASSUME posixCount # ValueMax, ~\E t \in Threads : posixThread[t].pc = "asleep",
                 posixThread' = posixThread
          PROVE  PosixInv'
      <3>1. /\ posixCount' = posixCount + 1 /\ listed' = listed
            /\ guest' = [hasWaiters |-> \E u \in Threads : posixThread'[u].pc # "idle",
                         count |-> posixCount']
        BY <1>9, <2>3 DEF Posix!Post, Posix!SyncGuest
      <3>2. Posix!At("asleep")' = {}
        BY <2>3 DEF Posix!At
      <3>3. posixCount' \in 0 .. ValueMax
        BY <1>1, <1>2, <2>3, <3>1
      <3>4. PosixTypes'
        BY <1>1, <2>3, <3>1 DEF PosixTypes
      <3> QED
        BY <3>1, <3>2, <3>3, <3>4, PosixKept
    <2>4. \/ posixCount = ValueMax
          \/ posixCount # ValueMax /\ \E t \in Threads : /\ posixThread[t].pc = "asleep"
                                                         /\ posixThread' = [posixThread EXCEPT ![t].pc = "awake"]
          \/ /\ posixCount # ValueMax /\ ~\E t \in Threads : posixThread[t].pc = "asleep"
             /\ posixThread' = posixThread
      BY <1>9 DEF Posix!Post, Posix!Signals
    <2> QED
      BY <2>1, <2>2, <2>3, <2>4
  <1>10. ASSUME UNCHANGED Posix!posixVars PROVE PosixInv'
    <2>1. UNCHANGED <<listed, posixCount, posixThread, guest>>
      BY <1>10 DEF Posix!posixVars
    <2>2. Posix!At("awake")' = Posix!At("awake") /\ Posix!At("asleep")' = Posix!At("asleep")
      BY <2>1 DEF Posix!At
    <2>3. PosixTypes'
      BY <1>1, <2>1 DEF PosixTypes
    <2>4. listed' => guest' = [hasWaiters |-> \E u \in Threads : posixThread'[u].pc # "idle",
                               count |-> posixCount']
      BY <1>1, <2>1
    <2> QED
      BY <1>1, <2>1, <2>2, <2>3, <2>4, PosixKept
  <1>11. 0 \in 0 .. ValueMax
    BY <1>2
  <1> QED
    BY <1>5, <1>6, <1>7, <1>8, <1>9, <1>10, <1>11 DEF Posix!Next, Posix!InWait

\* No unit of a semaphore is lost or invented: not one of the kernel's, whose
\* waiters are given what they asked for (Signal, Wait, Cancel), nor of the
\* POSIX one, where as many threads as there are units are awake while one
\* sleeps (Post, Wait).
THEOREM UnitsCorrect ==
    ASSUME Posix!PosixSemaAssumption
    PROVE  Spec /\ Posix!Spec => []UnitsKept
  <1>1. Spec => []UnitsInv
    <2>1. UnitsInv /\ [Next]_vars => UnitsInv'
      BY UnitsStep
    <2> QED
      BY UnitsStart, <2>1, PTL DEF Spec
  <1>2. Posix!Spec => []PosixInv
    <2>1. Posix!Init => PosixInv
      BY PosixStarts
    <2>2. PosixInv /\ [Posix!Next]_Posix!posixVars => PosixInv'
      BY PosixKeeps
    <2> QED
      BY <2>1, <2>2, PTL DEF Posix!Spec
  <1>3. UnitsInv /\ PosixInv => UnitsKept
    BY DEF UnitsInv, PosixInv, UnitsKept
  <1> QED
    BY <1>1, <1>2, <1>3, PTL
-----------------------------------------------------------------------------
(* The event queues.                                                         *)

\* What is in a queue: timers alone have a deadline, and what is kept for later
\* is behind what is triggered.
QueuedEvent ==
    {e \in [ident : Idents, kind : Event!Kinds, triggered : BOOLEAN, data : Nat,
            pending : Seq(Nat), due : {"later", "passed", "never"}] :
        /\ e.kind \in KindsOf(e.ident)
        /\ e.kind # "timer" => e.due = "never"
        /\ ~e.triggered => e.pending = <<>>}

EventTypeOK ==
    /\ equeue \in [Queues -> [listed : BOOLEAN, open : BOOLEAN, events : Seq(QueuedEvent)]]
    /\ eventWaiter \in [Waiters -> [queue : Queues \cup {NoQueue}, room : Nat, timed : BOOLEAN]]
    /\ history \in [Queues -> [Idents -> [sent : Seq(Nat), got : Seq(Nat)]]]

EventInv == EventTypeOK /\ Event!OneOfEach /\ Event!KeptInOrder

\* The function that DataOf is defined with is what its steps say.
DataRun(out, n, i) ==
    CHOOSE f : f = [k \in 0 .. n |-> IF k = 0 THEN <<>> ELSE Event!OfEvent(f[k - 1], out[k], i)]
IsDataRun(d, out, n, i) ==
    /\ d \in [0 .. n -> Seq(Nat)] /\ d[0] = <<>>
    /\ \A k \in 1 .. n : d[k] = Event!OfEvent(d[k - 1], out[k], i)

LEMMA DataOfRun ==
    ASSUME NEW out, NEW n, n = Len(out), NEW i
    PROVE  Event!DataOf(out, i) = DataRun(out, n, i)[n]
  BY DEF Event!DataOf, DataRun

LEMMA DataSteps ==
    ASSUME NEW n \in Nat, NEW out, \A k \in 1 .. n : out[k][2] \in Nat, NEW i
    PROVE  IsDataRun(DataRun(out, n, i), out, n, i)
  <1> DEFINE d == DataRun(out, n, i)
             A == Seq(Nat)
             F == [p \in (1 .. n) \X A |-> Event!OfEvent(p[2], out[p[1]], i)]
  <1>1. <<>> \in A
    OBVIOUS
  <1>2. \A k \in 1 .. n, a \in A : F[<<k, a>>] = Event!OfEvent(a, out[k], i)
    OBVIOUS
  <1>3. \A k \in 1 .. n, a \in A : F[<<k, a>>] \in A
    <2> SUFFICES ASSUME NEW k \in 1 .. n, NEW a \in A PROVE Event!OfEvent(a, out[k], i) \in A
      BY <1>2
    <2>1. Append(a, out[k][2]) \in A
      BY AppendProperties
    <2> QED
      BY <2>1 DEF Event!OfEvent
  <1> HIDE DEF A, F
  <1>4. PICK g \in [0 .. n -> A] : StepsOf(g, n, <<>>, F)
    BY <1>1, <1>3, RecursionOnList
  <1>5. \A k \in 1 .. n : g[k] = Event!OfEvent(g[k - 1], out[k], i)
    <2> TAKE k \in 1 .. n
    <2>1. k - 1 \in 0 .. n
      OBVIOUS
    <2>2. g[k - 1] \in A
      BY <2>1
    <2> QED
      BY <1>2, <1>4, <2>2 DEF StepsOf
  <1> DEFINE Def(f) == [k \in 0 .. n |-> IF k = 0 THEN <<>> ELSE Event!OfEvent(f[k - 1], out[k], i)]
  <1>6. g = Def(g)
    BY <1>4, <1>5 DEF StepsOf
  <1>7. d = CHOOSE f : f = Def(f)
    BY DEF DataRun
  <1> HIDE DEF d
  <1>8. d = Def(d)
    <2> HIDE DEF Def
    <2> QED BY <1>6, <1>7
  <1>9. d[0] = <<>>
    <2>1. 0 \in 0 .. n
      OBVIOUS
    <2> QED
      BY ONLY <1>8, <2>1
  <1>10. \A k \in 1 .. n : d[k] = Event!OfEvent(d[k - 1], out[k], i)
    <2> TAKE k \in 1 .. n
    <2>1. k \in 0 .. n /\ k # 0
      OBVIOUS
    <2> QED
      BY ONLY <1>8, <2>1
  <1>11. DOMAIN d = 0 .. n
    BY ONLY <1>8
  <1>12. \A k \in 0 .. n : d[k] \in A
    <2> DEFINE S == {k \in 0 .. n : d[k] \in A}
    <2>1. 0 \in S
      BY <1>1, <1>9
    <2>2. ASSUME NEW k \in 1 .. n, k - 1 \in S PROVE k \in S
      <3>1. d[k - 1] \in A /\ k \in 0 .. n
        BY <2>2
      <3>2. d[k] = F[<<k, d[k - 1]>>]
        BY <1>2, <1>10, <3>1
      <3>3. d[k] \in A
        BY <1>3, <3>1, <3>2
      <3> QED
        BY <3>1, <3>3
    <2> HIDE DEF S
    <2>3. \A k \in 0 .. n : k \in S
      BY <2>1, <2>2, InductionUpTo
    <2> QED
      BY <2>3 DEF S
  <1>13. d = [k \in 0 .. n |-> d[k]]
    BY ONLY <1>8
  <1>14. d \in [0 .. n -> A]
    BY <1>12, <1>13
  <1> QED
    BY <1>9, <1>10, <1>14 DEF A, IsDataRun, d

\* What was handed out of an event, when nothing was and when more is.
LEMMA DataOfNothing == \A i : Event!DataOf(<<>>, i) = <<>>
  <1> TAKE i
  <1> DEFINE d == DataRun(<<>>, 0, i)
  <1>1. Len(<<>>) = 0
    OBVIOUS
  <1>2. Event!DataOf(<<>>, i) = d[0]
    BY <1>1, DataOfRun
  <1>3. d[0] = <<>>
    <2>1. 0 \in Nat /\ \A k \in 1 .. 0 : <<>>[k][2] \in Nat
      OBVIOUS
    <2>2. IsDataRun(DataRun(<<>>, 0, i), <<>>, 0, i)
      BY <2>1, DataSteps
    <2> QED
      BY <2>2 DEF IsDataRun
  <1> QED
    BY <1>2, <1>3

Handed(s, t, o, j, i) ==
    /\ s \o t \in Seq(Idents \X Nat) /\ Len(s \o t) = Len(s) + Len(o)
    /\ Event!DataOf(s \o t, i) = IF i = j THEN Event!DataOf(s, i) \o o ELSE Event!DataOf(s, i)
LEMMA DataOfMore ==
    ASSUME NEW s \in Seq(Idents \X Nat), NEW o \in Seq(Nat), NEW j \in Idents, NEW i, NEW t,
           t = [k \in DOMAIN o |-> <<j, o[k]>>]
    PROVE  Handed(s, t, o, j, i)
  <1> DEFINE n == Len(s)
             m == Len(o)
             c == s \o t
  <1>1. n \in Nat /\ m \in Nat /\ DOMAIN o = 1 .. m /\ \A k \in 1 .. m : o[k] \in Nat
    OBVIOUS
  <1>2. t \in Seq(Idents \X Nat) /\ Len(t) = m
    <2>1. t = [k \in 1 .. m |-> <<j, o[k]>>] /\ \A k \in 1 .. m : <<j, o[k]>> \in Idents \X Nat
      BY <1>1
    <2> HIDE DEF m
    <2> QED
      BY <1>1, <2>1
  <1>3. /\ c \in Seq(Idents \X Nat) /\ Len(c) = n + m
        /\ \A k \in 1 .. n + m : c[k] = IF k <= n THEN s[k] ELSE t[k - n]
    <2> DEFINE P == Idents \X Nat
    <2>1. s \in Seq(P) /\ t \in Seq(P)
      BY <1>2
    <2> HIDE DEF P
    <2>2. /\ c \in Seq(P) /\ Len(c) = Len(s) + Len(t)
          /\ \A k \in 1 .. Len(s) + Len(t) : c[k] = IF k <= Len(s) THEN s[k] ELSE t[k - Len(s)]
      BY <2>1, ConcatProperties
    <2> QED
      BY <1>2, <2>2 DEF P
  <1> HIDE DEF c
  <1>4. \A k \in 1 .. n : s[k][2] \in Nat
    <2> TAKE k \in 1 .. n
    <2>1. s[k] \in Idents \X Nat
      BY <1>1, ElementOfSeq
    <2> QED
      BY <2>1
  <1>5. \A k \in 1 .. n + m : c[k][2] \in Nat
    <2> TAKE k \in 1 .. n + m
    <2>1. c[k] \in Idents \X Nat
      BY <1>3, ElementOfSeq
    <2> QED
      BY <2>1
  <1> DEFINE d == DataRun(s, n, i)
             e == DataRun(c, n + m, i)
  <1>6. Event!DataOf(s, i) = d[n]
    BY DataOfRun
  <1>7. Event!DataOf(c, i) = e[n + m]
    <2> HIDE DEF c, n, m
    <2> QED
      BY <1>3, DataOfRun
  <1> HIDE DEF c, n, m
  <1>8. /\ d \in [0 .. n -> Seq(Nat)] /\ d[0] = <<>>
        /\ \A k \in 1 .. n : d[k] = Event!OfEvent(d[k - 1], s[k], i)
    <2>1. IsDataRun(DataRun(s, n, i), s, n, i)
      BY <1>1, <1>4, DataSteps
    <2> QED
      BY <2>1 DEF IsDataRun
  <1>9. /\ e \in [0 .. n + m -> Seq(Nat)] /\ e[0] = <<>>
        /\ \A k \in 1 .. n + m : e[k] = Event!OfEvent(e[k - 1], c[k], i)
    <2>1. n + m \in Nat
      BY <1>1
    <2>2. IsDataRun(DataRun(c, n + m, i), c, n + m, i)
      BY <1>5, <2>1, DataSteps
    <2> QED
      BY <2>2 DEF IsDataRun
  <1> HIDE DEF d, e
  <1> DEFINE more(k) == IF i = j THEN d[n] \o SubSeq(o, 1, k - n) ELSE d[n]
             h == [k \in 0 .. n + m |-> IF k <= n THEN d[k] ELSE more(k)]
  <1>10. d[n] \in Seq(Nat)
    BY <1>1, <1>8
  <1>17. \A k \in 0 .. n + m : h[k] = IF k <= n THEN d[k] ELSE more(k)
    OBVIOUS
  <1> HIDE DEF h
  <1>11. h[0] = e[0]
    BY <1>1, <1>8, <1>9, <1>17
  <1>12. ASSUME NEW k \in 1 .. n + m PROVE h[k] = Event!OfEvent(h[k - 1], c[k], i)
    <2>1. k \in 0 .. n + m /\ k - 1 \in 0 .. n + m
      BY <1>1
    <2>2. CASE k <= n
      <3>1. k \in 1 .. n /\ k - 1 <= n
        BY <1>1, <2>2
      <3>2. h[k] = d[k] /\ h[k - 1] = d[k - 1]
        BY <1>17, <2>1, <2>2, <3>1
      <3>3. c[k] = s[k]
        BY <1>3, <2>2
      <3> QED
        BY <1>8, <3>1, <3>2, <3>3
    <2>3. CASE k > n
      <3>0. k - n \in 1 .. m /\ ~(k <= n)
        BY <1>1, <2>3
      <3>1. h[k] = more(k) /\ c[k] = t[k - n]
        <4>1. h[k] = more(k)
          BY <1>17, <2>1, <3>0
        <4>2. c[k] = t[k - n]
          BY <1>3, <3>0
        <4> QED
          BY <4>1, <4>2
      <3>2. c[k][1] = j /\ c[k][2] = o[k - n] /\ o[k - n] \in Nat
        BY <1>1, <3>0, <3>1
      <3>3. h[k - 1] = more(k - 1)
        <4>1. CASE k - 1 > n
          <5>1. ~(k - 1 <= n)
            BY <1>1, <4>1
          <5> QED
            BY <1>17, <2>1, <5>1
        <4>2. CASE k - 1 = n
          <5>1. SubSeq(o, 1, 0) = <<>> /\ k - 1 - n = 0
            BY <1>1, <4>2, SubSeqEmpty
          <5>2. more(k - 1) = d[n]
            BY <1>10, <5>1, ConcatEmptySeq
          <5>3. h[k - 1] = d[k - 1]
            BY <1>1, <1>17, <2>1, <4>2
          <5> QED
            BY <4>2, <5>2, <5>3
        <4> QED
          BY <1>1, <2>3, <4>1, <4>2
      <3>4. CASE i # j
        BY <3>1, <3>2, <3>3, <3>4 DEF Event!OfEvent
      <3>5. CASE i = j
        <4>1. SubSeq(o, 1, k - n) = Append(SubSeq(o, 1, k - 1 - n), o[k - n])
          <5> DEFINE q == k - n
          <5>1. q \in 1 .. m /\ k - 1 - n = q - 1
            BY <1>1, <3>0
          <5> HIDE DEF q
          <5>2. SubSeq(o, 1, q) = SubSeq(o, 1, q - 1) \o <<o[q]>>
            <6>1. 1 \in 1 .. Len(o) /\ q \in 1 .. Len(o)
              BY <1>1, <5>1 DEF m
            <6> QED
              BY <6>1, SubSeqRecursiveSecond
          <5>3. SubSeq(o, 1, q - 1) \in Seq(Nat) /\ o[q] \in Nat
            <6>1. 1 \in Int /\ q - 1 \in Int /\ \A l \in 1 .. q - 1 : o[l] \in Nat
              BY <1>1, <5>1
            <6> QED
              BY <1>1, <5>1, <6>1, SubSeqProperties
          <5>4. Append(SubSeq(o, 1, q - 1), o[q]) = SubSeq(o, 1, q - 1) \o <<o[q]>>
            BY <5>3, AppendIsConcat
          <5> QED
            BY <5>1, <5>2, <5>4 DEF q
        <4>2. SubSeq(o, 1, k - 1 - n) \in Seq(Nat)
          <5>1. 1 \in Int /\ k - 1 - n \in Int /\ \A l \in 1 .. k - 1 - n : o[l] \in Nat
            BY <1>1, <3>0
          <5> QED
            BY <5>1, SubSeqProperties
        <4> DEFINE u == SubSeq(o, 1, k - 1 - n)
                   v == o[k - n]
        <4>3. u \in Seq(Nat) /\ v \in Nat /\ SubSeq(o, 1, k - n) = Append(u, v)
          BY <3>2, <4>1, <4>2
        <4>4. h[k] = d[n] \o SubSeq(o, 1, k - n) /\ h[k - 1] = d[n] \o u
          BY <3>1, <3>3, <3>5
        <4> HIDE DEF u
        <4>5. h[k] = Append(h[k - 1], v)
          <5> DEFINE w == d[n]
          <5>1. w \in Seq(Nat)
            BY <1>10
          <5> HIDE DEF w, v
          <5>2. w \o Append(u, v) = Append(w \o u, v)
            <6>1. <<v>> \in Seq(Nat) /\ w \o u \in Seq(Nat)
              BY <4>3, <5>1
            <6>2. Append(u, v) = u \o <<v>> /\ Append(w \o u, v) = (w \o u) \o <<v>>
              BY <4>3, <5>1, <6>1, AppendIsConcat
            <6>3. (w \o u) \o <<v>> = w \o (u \o <<v>>)
              BY <4>3, <5>1, <6>1, NatsAssociative
            <6> QED
              BY <6>2, <6>3
          <5> QED
            BY <4>3, <4>4, <5>2 DEF w
        <4> QED
          BY <3>2, <3>5, <4>5 DEF Event!OfEvent
      <3> QED
        BY <3>4, <3>5
    <2> QED
      BY <1>1, <2>2, <2>3
  <1>13. h[n + m] = e[n + m]
    <2>1. n + m \in Nat
      BY <1>1
    <2>2. \A k \in 1 .. n + m : h[k - 1] = e[k - 1] => h[k] = e[k]
      BY <1>9, <1>12
    <2> QED
      BY <1>11, <2>1, <2>2, RecursionUnique
  <1>14. h[n + m] = IF i = j THEN d[n] \o o ELSE d[n]
    <2>1. CASE m = 0
      <3>1. o = <<>> /\ n + m \in 0 .. n + m /\ n + m = n
        BY <1>1, <2>1, EmptySeq DEF m
      <3>2. h[n + m] = d[n]
        BY <1>1, <1>17, <3>1
      <3> QED
        BY <1>10, <3>1, <3>2, ConcatEmptySeq
    <2>2. CASE m # 0
      <3>1. n + m \in 0 .. n + m /\ n + m > n /\ n + m - n = m
        BY <1>1, <2>2
      <3>2. SubSeq(o, 1, m) = o
        BY SubSeqFull DEF m
      <3>3. h[n + m] = more(n + m)
        BY <1>1, <1>17, <3>1
      <3> DEFINE q == n + m - n
      <3>4. q = m
        BY <1>1
      <3>5. h[n + m] = IF i = j THEN d[n] \o SubSeq(o, 1, q) ELSE d[n]
        BY <1>1, <3>3
      <3> HIDE DEF q
      <3> QED
        BY <3>2, <3>4, <3>5
    <2> QED
      BY <2>1, <2>2
  <1>15. s \o t \in Seq(Idents \X Nat) /\ Len(s \o t) = Len(s) + Len(o)
    BY <1>3 DEF c, n, m
  <1>16. Event!DataOf(s \o t, i) = IF i = j THEN Event!DataOf(s, i) \o o ELSE Event!DataOf(s, i)
    BY <1>6, <1>7, <1>13, <1>14 DEF c
  <1> QED
    BY <1>15, <1>16 DEF Handed

\* What one event hands out and leaves: an event that keeps what it is triggered
\* with stays, and hands out the beginning of what it has.
LEFT(e, o, l) ==
    \/ l = <<>> /\ ~Event!Keeps(e)
    \/ \E f \in QueuedEvent : /\ l = <<f>> /\ f.ident = e.ident /\ f.kind = e.kind
                              /\ Event!Keeps(e) => Event!Contents(e) = o \o Event!Contents(f)

LEMMA TakeEvent ==
    ASSUME NEW e \in QueuedEvent, NEW room \in Nat,
           NEW got, got = Event!Take(Event!Expire(e), room)
    PROVE  got.out \in Seq(Nat) /\ Len(got.out) <= room /\ LEFT(e, got.out, got.left)
  <1> DEFINE x == Event!Expire(e)
             chain == <<x.data>> \o x.pending
             n == IF room < Len(chain) THEN room ELSE Len(chain)
  <1>1. x \in QueuedEvent /\ x.ident = e.ident /\ x.kind = e.kind
    BY DEF Event!Expire, QueuedEvent
  <1>2. Event!Keeps(e) => x = e
    BY DEF Event!Expire, QueuedEvent, Event!Keeps
  <1> HIDE DEF x
  <1>3. x.data \in Nat /\ x.pending \in Seq(Nat)
    BY <1>1 DEF QueuedEvent
  <1>4. chain \in Seq(Nat) /\ Len(chain) = 1 + Len(x.pending) /\ Len(x.pending) \in Nat
    <2>1. <<x.data>> \in Seq(Nat) /\ Len(<<x.data>>) = 1
      BY <1>3
    <2> QED
      BY <1>3, <2>1, ConcatProperties
  <1> HIDE DEF chain
  <1>5. n \in Nat /\ n <= room /\ n <= Len(chain)
    BY <1>4
  <1> HIDE DEF n
  <1>6. CASE ~x.triggered \/ room = 0
    <2>1. got = [out |-> <<>>, left |-> <<x>>]
      BY <1>6 DEF Event!Take, x
    <2>2. Event!Contents(x) = <<>> \o Event!Contents(x)
      <3>1. Event!Contents(x) \in Seq(Nat)
        BY <1>3, <1>4 DEF Event!Contents, chain
      <3> QED
        BY <3>1, ConcatEmptySeq
    <2>3. LEFT(e, <<>>, <<x>>)
      BY <1>1, <1>2, <2>2 DEF LEFT
    <2>4. <<>> \in Seq(Nat) /\ Len(<<>>) = 0 /\ got.out = <<>> /\ got.left = <<x>>
      BY <2>1
    <2> QED
      BY <2>3, <2>4
  <1>7. CASE x.triggered /\ room # 0 /\ Event!OneShot(x)
    <2>0. ~Event!Clears(x)
      BY <1>7 DEF Event!OneShot, Event!Clears
    <2>1. got = [out |-> <<x.data>>, left |-> <<>>]
      BY <1>7, <2>0 DEF Event!Take, x
    <2>2. ~Event!Keeps(e)
      BY <1>1, <1>7 DEF Event!OneShot, Event!Keeps
    <2>3. <<x.data>> \in Seq(Nat) /\ Len(<<x.data>>) = 1 /\ 1 <= room
      BY <1>3, <1>7
    <2>4. LEFT(e, <<x.data>>, <<>>)
      BY <2>2 DEF LEFT
    <2>5. got.out = <<x.data>> /\ got.left = <<>>
      BY ONLY <2>1
    <2> QED
      BY <2>3, <2>4, <2>5
  <1>8. CASE x.triggered /\ room # 0 /\ ~Event!OneShot(x) /\ Event!Clears(x)
    <2> DEFINE f == Event!Rest(x, chain, n)
    <2>1. got = [out |-> SubSeq(chain, 1, n), left |-> <<f>>]
      BY <1>8 DEF Event!Take, x, chain, n
    <2>2. SubSeq(chain, 1, n) \in Seq(Nat) /\ Len(SubSeq(chain, 1, n)) = n
      <3>1. 1 \in Int /\ n \in Int /\ \A i \in 1 .. n : chain[i] \in Nat
        BY <1>4, <1>5
      <3> QED
        BY <1>5, <3>1, SubSeqProperties
    <2>3. f \in QueuedEvent /\ f.ident = e.ident /\ f.kind = e.kind
      <3>1. CASE n < Len(chain)
        <4>1. SubSeq(chain, n + 2, Len(chain)) \in Seq(Nat)
          <5>1. n + 2 \in Int /\ Len(chain) \in Int /\ \A i \in n + 2 .. Len(chain) : chain[i] \in Nat
            BY <1>4, <1>5
          <5> QED
            BY <5>1, SubSeqProperties
        <4>2. chain[n + 1] \in Nat
          BY <1>4, <1>5, <3>1
        <4>3. f = [x EXCEPT !.data = chain[n + 1], !.pending = SubSeq(chain, n + 2, Len(chain))]
          BY <3>1 DEF Event!Rest
        <4> QED
          BY <1>1, <1>8, <4>1, <4>2, <4>3 DEF QueuedEvent
      <3>2. CASE ~(n < Len(chain))
        <4>1. f = [x EXCEPT !.triggered = FALSE, !.data = 0, !.pending = <<>>]
          BY <3>2 DEF Event!Rest
        <4>2. <<>> \in Seq(Nat)
          OBVIOUS
        <4> HIDE DEF f
        <4> QED
          BY <1>1, <4>1, <4>2 DEF QueuedEvent
      <3> QED
        BY <3>1, <3>2
    <2>4. Event!Contents(x) = SubSeq(chain, 1, n) \o Event!Contents(f)
      <3>1. Event!Contents(x) = chain
        BY <1>8 DEF Event!Contents, chain
      <3>2. CASE n < Len(chain)
        <4>1. f = [x EXCEPT !.data = chain[n + 1], !.pending = SubSeq(chain, n + 2, Len(chain))]
          BY <3>2 DEF Event!Rest
        <4>2. Event!Contents(f) = <<chain[n + 1]>> \o SubSeq(chain, n + 2, Len(chain))
          BY <1>1, <1>8, <4>1 DEF Event!Contents, QueuedEvent
        <4>3. <<chain[n + 1]>> \o SubSeq(chain, n + 2, Len(chain)) = SubSeq(chain, n + 1, Len(chain))
          <5>1. n + 1 \in 1 .. Len(chain) /\ Len(chain) \in n + 1 .. Len(chain) /\ n + 1 + 1 = n + 2
            BY <1>4, <1>5, <3>2
          <5> DEFINE k == n + 1
                     m == Len(chain)
          <5>2. SubSeq(chain, k, m) = <<chain[k]>> \o SubSeq(chain, k + 1, m)
            <6>1. k \in 1 .. Len(chain) /\ m \in k .. Len(chain)
              BY <5>1
            <6> HIDE DEF k, m
            <6> QED
              BY <1>4, <6>1, SubSeqRecursiveFirst
          <5> QED
            BY <5>1, <5>2
        <4>4. SubSeq(chain, 1, n) \o SubSeq(chain, n + 1, Len(chain)) = SubSeq(chain, 1, Len(chain))
          <5> DEFINE m == Len(chain)
          <5>1. 1 \in 1 .. Len(chain) + 1 /\ n \in 1 - 1 .. Len(chain) /\ m \in n .. Len(chain)
            BY <1>4, <1>5
          <5> HIDE DEF m
          <5>2. SubSeq(chain, 1, n) \o SubSeq(chain, n + 1, m) = SubSeq(chain, 1, m)
            BY <1>4, <5>1, ConcatAdjacentSubSeq
          <5> QED
            BY <5>2 DEF m
        <4>5. SubSeq(chain, 1, Len(chain)) = chain
          BY <1>4, SubSeqFull
        <4> QED
          BY <3>1, <4>2, <4>3, <4>4, <4>5
      <3>3. CASE ~(n < Len(chain))
        <4>1. n = Len(chain)
          BY <1>4, <1>5, <3>3
        <4>2. f = [x EXCEPT !.triggered = FALSE, !.data = 0, !.pending = <<>>]
          BY <3>3 DEF Event!Rest
        <4>3. Event!Contents(f) = <<>>
          BY <1>1, <4>2 DEF Event!Contents, QueuedEvent
        <4>4. SubSeq(chain, 1, n) = chain
          BY <1>4, <4>1, SubSeqFull
        <4>5. chain \o <<>> = chain
          BY <1>4, ConcatEmptySeq
        <4> QED
          BY <3>1, <4>3, <4>4, <4>5
      <3> QED
        BY <3>2, <3>3
    <2> HIDE DEF f
    <2>5. LEFT(e, SubSeq(chain, 1, n), <<f>>)
      BY <1>2, <2>3, <2>4 DEF LEFT
    <2>6. got.out = SubSeq(chain, 1, n) /\ got.left = <<f>>
      BY ONLY <2>1
    <2> QED
      BY <1>5, <2>2, <2>5, <2>6
  <1>9. CASE x.triggered /\ room # 0 /\ ~Event!OneShot(x) /\ ~Event!Clears(x)
    <2>1. got = [out |-> [k \in 1 .. room |-> x.data], left |-> <<x>>]
      BY <1>9 DEF Event!Take, x
    <2>2. ~Event!Keeps(e)
      BY <1>1, <1>9 DEF Event!Clears, Event!Keeps
    <2>3. [k \in 1 .. room |-> x.data] \in Seq(Nat) /\ Len([k \in 1 .. room |-> x.data]) = room
      BY <1>3
    <2>4. LEFT(e, [k \in 1 .. room |-> x.data], <<x>>)
      BY <1>1, <2>2 DEF LEFT
    <2>5. got.out = [k \in 1 .. room |-> x.data] /\ got.left = <<x>>
      BY ONLY <2>1
    <2> QED
      BY <2>3, <2>4, <2>5
  <1> QED
    BY <1>6, <1>7, <1>8, <1>9

\* The round for one event, after those before it: what it hands out goes behind
\* what they did, and so does what it leaves.
Round == [out : Seq(Idents \X Nat), left : Seq(QueuedEvent)]
Unique(s) == \A j, k \in DOMAIN s : s[j].ident = s[k].ident => j = k

\* After k rounds: the events that are left are some of the first k, those that
\* keep what they have with the rest of it; of the others nothing is handed out.
RoundsOK(acc, events, k, room) ==
    /\ acc \in Round /\ Len(acc.out) <= room /\ Unique(acc.left)
    /\ \A j \in DOMAIN acc.left : \E m \in 1 .. k :
          /\ acc.left[j].ident = events[m].ident /\ acc.left[j].kind = events[m].kind
          /\ Event!Keeps(events[m]) =>
                Event!Contents(events[m])
                  = Event!DataOf(acc.out, events[m].ident) \o Event!Contents(acc.left[j])
    /\ \A m \in 1 .. k : Event!Keeps(events[m]) =>
          \E j \in DOMAIN acc.left : acc.left[j].ident = events[m].ident
    /\ \A m \in DOMAIN events : m > k => Event!DataOf(acc.out, events[m].ident) = <<>>

LEMMA OneRound ==
    ASSUME NEW events \in Seq(QueuedEvent), Unique(events), NEW k \in 1 .. Len(events),
           NEW room \in Nat, NEW acc, RoundsOK(acc, events, k - 1, room),
           NEW new, new = Event!Collected(acc, events[k], room)
    PROVE  RoundsOK(new, events, k, room)
  <1> DEFINE e == events[k]
             got == Event!Take(Event!Expire(e), room - Len(acc.out))
             t == [i \in DOMAIN got.out |-> <<e.ident, got.out[i]>>]
  <1>1. /\ e \in QueuedEvent /\ k \in DOMAIN events /\ k \in Nat /\ k > 0
        /\ DOMAIN events = 1 .. Len(events) /\ Len(events) \in Nat
    <2>1. e \in QueuedEvent
      BY ElementOfSeq
    <2> QED
      BY <2>1
  <1>2. acc.out \in Seq(Idents \X Nat) /\ acc.left \in Seq(QueuedEvent) /\ Len(acc.out) <= room
    BY DEF RoundsOK, Round
  <1>3. room - Len(acc.out) \in Nat
    BY <1>2
  <1>4. got.out \in Seq(Nat) /\ Len(got.out) <= room - Len(acc.out) /\ LEFT(e, got.out, got.left)
    BY <1>1, <1>3, TakeEvent
  <1>5. new = [out |-> acc.out \o t, left |-> acc.left \o got.left]
    BY DEF Event!Collected
  <1> DEFINE o == got.out
             l == got.left
  <1>6. o \in Seq(Nat) /\ Len(o) <= room - Len(acc.out) /\ LEFT(e, o, l)
    BY <1>4
  <1>7. /\ acc.out \o t \in Seq(Idents \X Nat) /\ Len(acc.out \o t) = Len(acc.out) + Len(o)
        /\ \A i : Event!DataOf(acc.out \o t, i) =
                    IF i = e.ident THEN Event!DataOf(acc.out, i) \o o ELSE Event!DataOf(acc.out, i)
    <2>1. e.ident \in Idents /\ t = [i \in DOMAIN o |-> <<e.ident, o[i]>>]
      BY <1>1 DEF QueuedEvent
    <2> HIDE DEF t, o, e, got
    <2>2. acc.out \in Seq(Idents \X Nat) /\ o \in Seq(Nat)
      BY <1>2, <1>6
    <2>3. \A i : Handed(acc.out, t, o, e.ident, i)
      BY <2>1, <2>2, DataOfMore
    <2> QED
      BY <2>3 DEF Handed
  <1>18. new = [out |-> acc.out \o t, left |-> acc.left \o l]
    BY <1>5
  <1> HIDE DEF t, o, l, got, e
  <1>8. new.out = acc.out \o t /\ new.left = acc.left \o l
    BY ONLY <1>18
  <1>9. Len(new.out) <= room /\ new.out \in Seq(Idents \X Nat)
    BY <1>2, <1>6, <1>7, <1>8
  <1>10. Event!DataOf(acc.out, e.ident) = <<>>
    BY <1>1 DEF RoundsOK, e
  <1>11. ASSUME NEW m \in DOMAIN events, m # k
         PROVE  Event!DataOf(new.out, events[m].ident) = Event!DataOf(acc.out, events[m].ident)
    <2>1. events[m].ident # e.ident
      BY <1>1, <1>11 DEF Unique, e
    <2> QED
      BY <1>7, <1>8, <2>1
  <1>12. Event!DataOf(new.out, e.ident) = o
    BY <1>6, <1>7, <1>8, <1>10, ConcatEmptySeq
  <1>13. \A m \in DOMAIN events : m > k => Event!DataOf(new.out, events[m].ident) = <<>>
    BY <1>1, <1>11 DEF RoundsOK
  <1>14. ASSUME NEW j \in DOMAIN acc.left
         PROVE  \E m \in 1 .. k - 1 :
                   /\ acc.left[j].ident = events[m].ident /\ acc.left[j].kind = events[m].kind
                   /\ Event!Keeps(events[m]) =>
                        Event!Contents(events[m])
                          = Event!DataOf(new.out, events[m].ident) \o Event!Contents(acc.left[j])
    <2>1. PICK m \in 1 .. k - 1 :
            /\ acc.left[j].ident = events[m].ident /\ acc.left[j].kind = events[m].kind
            /\ Event!Keeps(events[m]) =>
                  Event!Contents(events[m])
                    = Event!DataOf(acc.out, events[m].ident) \o Event!Contents(acc.left[j])
      BY <1>14 DEF RoundsOK
    <2>2. m \in DOMAIN events /\ m # k
      BY <1>1
    <2> QED
      BY <1>11, <2>1, <2>2
  <1>15. \A j \in DOMAIN acc.left : acc.left[j].ident # e.ident
    <2> TAKE j \in DOMAIN acc.left
    <2>1. PICK m \in 1 .. k - 1 : acc.left[j].ident = events[m].ident
      BY <1>14
    <2>2. m \in DOMAIN events /\ m # k
      BY <1>1
    <2> QED
      BY <1>1, <2>1, <2>2 DEF Unique, e
  <1>16. CASE l = <<>> /\ ~Event!Keeps(e)
    <2>1. new.left = acc.left
      BY <1>2, <1>8, <1>16, ConcatEmptySeq
    <2>2. new \in Round
      BY <1>2, <1>5, <1>8, <1>9, <2>1 DEF Round
    <2>3. \A j \in DOMAIN new.left : \E m \in 1 .. k :
             /\ new.left[j].ident = events[m].ident /\ new.left[j].kind = events[m].kind
             /\ Event!Keeps(events[m]) =>
                   Event!Contents(events[m])
                     = Event!DataOf(new.out, events[m].ident) \o Event!Contents(new.left[j])
      <3> TAKE j \in DOMAIN new.left
      <3>1. PICK m \in 1 .. k - 1 :
                   /\ acc.left[j].ident = events[m].ident /\ acc.left[j].kind = events[m].kind
                   /\ Event!Keeps(events[m]) =>
                        Event!Contents(events[m])
                          = Event!DataOf(new.out, events[m].ident) \o Event!Contents(acc.left[j])
        BY <1>14, <2>1
      <3>2. m \in 1 .. k
        BY <1>1
      <3> QED
        BY <2>1, <3>1, <3>2
    <2>4. \A m \in 1 .. k : Event!Keeps(events[m]) =>
            \E j \in DOMAIN new.left : new.left[j].ident = events[m].ident
      <3> TAKE m \in 1 .. k
      <3>1. m = k \/ m \in 1 .. k - 1
        BY <1>1
      <3> QED
        BY <1>16, <2>1, <3>1 DEF RoundsOK, e
    <2> QED
      BY <1>9, <1>13, <2>1, <2>2, <2>3, <2>4 DEF RoundsOK
  <1>17. ASSUME NEW f \in QueuedEvent, l = <<f>>, f.ident = e.ident, f.kind = e.kind,
                Event!Keeps(e) => Event!Contents(e) = o \o Event!Contents(f)
         PROVE  RoundsOK(new, events, k, room)
    <2> DEFINE n == Len(acc.left)
    <2>1. <<f>> \in Seq(QueuedEvent) /\ Len(<<f>>) = 1 /\ <<f>>[1] = f
      OBVIOUS
    <2>2. n \in Nat /\ DOMAIN acc.left = 1 .. n
      BY <1>2
    <2>3. /\ new.left \in Seq(QueuedEvent) /\ Len(new.left) = n + 1
          /\ \A j \in 1 .. n + 1 : new.left[j] = IF j <= n THEN acc.left[j] ELSE <<f>>[j - n]
      BY <1>2, <1>8, <1>17, <2>1, ConcatProperties
    <2> HIDE DEF n
    <2>4. DOMAIN new.left = 1 .. n + 1 /\ new.left[n + 1] = f /\ n + 1 \in DOMAIN new.left
      <3>1. DOMAIN new.left = 1 .. n + 1
        BY <2>3
      <3>2. n + 1 \in 1 .. n + 1 /\ ~(n + 1 <= n) /\ n + 1 - n = 1
        BY <2>2
      <3> DEFINE q == n + 1
      <3>3. q \in 1 .. n + 1 /\ ~(q <= n) /\ q - n = 1
        BY <2>2
      <3> HIDE DEF q
      <3>4. new.left[q] = f
        BY <2>1, <2>3, <3>3
      <3> QED
        BY <3>1, <3>2, <3>4 DEF q
    <2>5. \A j \in DOMAIN new.left : j # n + 1 => j \in DOMAIN acc.left /\ new.left[j] = acc.left[j]
      BY <2>2, <2>3, <2>4
    <2>6. new \in Round
      BY <1>5, <1>8, <1>9, <2>3 DEF Round
    <2>7. Unique(new.left)
      <3> SUFFICES ASSUME NEW i \in DOMAIN new.left, NEW j \in DOMAIN new.left,
                          new.left[i].ident = new.left[j].ident
                   PROVE  i = j
        BY DEF Unique
      <3>1. Unique(acc.left)
        BY DEF RoundsOK
      <3> QED
        BY <1>15, <1>17, <2>4, <2>5, <3>1 DEF Unique
    <2>8. \A j \in DOMAIN new.left : \E m \in 1 .. k :
             /\ new.left[j].ident = events[m].ident /\ new.left[j].kind = events[m].kind
             /\ Event!Keeps(events[m]) =>
                   Event!Contents(events[m])
                     = Event!DataOf(new.out, events[m].ident) \o Event!Contents(new.left[j])
      <3> TAKE j \in DOMAIN new.left
      <3>1. CASE j # n + 1
        <4>1. PICK m \in 1 .. k - 1 :
                   /\ acc.left[j].ident = events[m].ident /\ acc.left[j].kind = events[m].kind
                   /\ Event!Keeps(events[m]) =>
                        Event!Contents(events[m])
                          = Event!DataOf(new.out, events[m].ident) \o Event!Contents(acc.left[j])
          BY <1>14, <2>5, <3>1
        <4>2. m \in 1 .. k
          BY <1>1
        <4> QED
          BY <2>5, <3>1, <4>1, <4>2
      <3>2. CASE j = n + 1
        <4>1. k \in 1 .. k
          BY <1>1
        <4> QED
          BY <1>12, <1>17, <2>4, <3>2, <4>1 DEF e
      <3> QED
        BY <3>1, <3>2
    <2>9. \A m \in 1 .. k : Event!Keeps(events[m]) =>
            \E j \in DOMAIN new.left : new.left[j].ident = events[m].ident
      <3> TAKE m \in 1 .. k
      <3>1. CASE m = k
        BY <1>17, <2>4, <3>1 DEF e
      <3>2. CASE m # k
        <4>1. m \in 1 .. k - 1
          BY <1>1, <3>2
        <4>2. \A j \in DOMAIN acc.left : j \in DOMAIN new.left /\ new.left[j] = acc.left[j]
          BY <2>2, <2>3, <2>4
        <4> QED
          BY <4>1, <4>2 DEF RoundsOK
      <3> QED
        BY <3>1, <3>2
    <2> QED
      BY <1>9, <1>13, <2>6, <2>7, <2>8, <2>9 DEF RoundsOK
  <1> QED
    BY <1>6, <1>16, <1>17 DEF LEFT

LEMMA CollectedIn ==
    ASSUME NEW e \in QueuedEvent, NEW room \in Nat, NEW acc \in Round, Len(acc.out) <= room,
           NEW new, new = Event!Collected(acc, e, room)
    PROVE  new \in Round /\ Len(new.out) <= room
  <1> DEFINE got == Event!Take(Event!Expire(e), room - Len(acc.out))
             t == [i \in DOMAIN got.out |-> <<e.ident, got.out[i]>>]
  <1>1. acc.out \in Seq(Idents \X Nat) /\ acc.left \in Seq(QueuedEvent) /\ e.ident \in Idents
    BY DEF Round, QueuedEvent
  <1>2. room - Len(acc.out) \in Nat
    BY <1>1
  <1>3. got.out \in Seq(Nat) /\ Len(got.out) <= room - Len(acc.out) /\ LEFT(e, got.out, got.left)
    BY <1>2, TakeEvent
  <1>4. new = [out |-> acc.out \o t, left |-> acc.left \o got.left]
    BY DEF Event!Collected
  <1> DEFINE o == got.out
             l == got.left
  <1>5. o \in Seq(Nat) /\ Len(o) <= room - Len(acc.out) /\ LEFT(e, o, l)
    BY <1>3
  <1>6. t = [i \in DOMAIN o |-> <<e.ident, o[i]>>]
    OBVIOUS
  <1>7. new = [out |-> acc.out \o t, left |-> acc.left \o l]
    BY <1>4
  <1> HIDE DEF t, o, l, got
  <1>8. new.out = acc.out \o t /\ new.left = acc.left \o l
    BY ONLY <1>7
  <1>9. Handed(acc.out, t, o, e.ident, e.ident)
    BY <1>1, <1>5, <1>6, DataOfMore
  <1>10. l \in Seq(QueuedEvent)
    <2>1. l = <<>> \/ \E f \in QueuedEvent : l = <<f>>
      BY <1>5 DEF LEFT
    <2>2. <<>> \in Seq(QueuedEvent) /\ \A f \in QueuedEvent : <<f>> \in Seq(QueuedEvent)
      OBVIOUS
    <2> QED
      BY <2>1, <2>2
  <1>11. acc.left \o l \in Seq(QueuedEvent)
    BY <1>1, <1>10, ConcatProperties
  <1>12. acc.out \o t \in Seq(Idents \X Nat) /\ Len(acc.out \o t) <= room
    BY <1>1, <1>5, <1>9 DEF Handed
  <1>13. new \in Round
    BY <1>7, <1>11, <1>12 DEF Round
  <1> QED
    BY <1>8, <1>12, <1>13

\* The rounds one after the other, and what they add up to.
CollectRun(events, n, room) ==
    CHOOSE f : f = [k \in 0 .. n |->
                      IF k = 0 THEN Event!Nothing ELSE Event!Collected(f[k - 1], events[k], room)]
IsCollectRun(d, events, n, room) ==
    /\ d[0] = Event!Nothing
    /\ \A k \in 1 .. n : d[k] = Event!Collected(d[k - 1], events[k], room)

LEMMA CollectOfRun ==
    ASSUME NEW events, NEW n, n = Len(events), NEW room
    PROVE  Event!Collect(events, room) = CollectRun(events, n, room)[n]
  BY DEF Event!Collect, CollectRun

LEMMA NothingIsRound == Event!Nothing \in Round /\ Len(Event!Nothing.out) = 0
  <1>1. <<>> \in Seq(Idents \X Nat) /\ <<>> \in Seq(QueuedEvent) /\ Len(<<>>) = 0
    OBVIOUS
  <1>2. Event!Nothing = [out |-> <<>>, left |-> <<>>]
    BY DEF Event!Nothing
  <1>3. Event!Nothing.out = <<>>
    BY ONLY <1>2
  <1> QED
    BY <1>1, <1>2, <1>3 DEF Round

LEMMA CollectSteps ==
    ASSUME NEW n \in Nat, NEW events, \A k \in 1 .. n : events[k] \in QueuedEvent, NEW room \in Nat
    PROVE  IsCollectRun(CollectRun(events, n, room), events, n, room)
  <1> DEFINE d == CollectRun(events, n, room)
             A == {acc \in Round : Len(acc.out) <= room}
             F == [p \in (1 .. n) \X A |-> Event!Collected(p[2], events[p[1]], room)]
  <1>1. Event!Nothing \in A
    BY NothingIsRound
  <1>2. \A k \in 1 .. n, a \in A : F[<<k, a>>] = Event!Collected(a, events[k], room)
    OBVIOUS
  <1>3. \A k \in 1 .. n, a \in A : F[<<k, a>>] \in A
    <2> SUFFICES ASSUME NEW k \in 1 .. n, NEW a \in A PROVE Event!Collected(a, events[k], room) \in A
      BY <1>2
    <2>1. a \in Round /\ Len(a.out) <= room /\ events[k] \in QueuedEvent
      OBVIOUS
    <2> DEFINE c == Event!Collected(a, events[k], room)
    <2> HIDE DEF c, A
    <2>2. c \in Round /\ Len(c.out) <= room
      BY <2>1, CollectedIn DEF c
    <2> QED
      BY <2>2 DEF A, c
  <1> HIDE DEF A, F
  <1>4. PICK g \in [0 .. n -> A] : StepsOf(g, n, Event!Nothing, F)
    BY <1>1, <1>3, RecursionOnList
  <1>5. \A k \in 1 .. n : g[k] = Event!Collected(g[k - 1], events[k], room)
    <2> TAKE k \in 1 .. n
    <2>1. k - 1 \in 0 .. n
      OBVIOUS
    <2>2. g[k - 1] \in A
      BY <2>1
    <2> QED
      BY <1>2, <1>4, <2>2 DEF StepsOf
  <1> DEFINE Def(f) == [k \in 0 .. n |->
                          IF k = 0 THEN Event!Nothing ELSE Event!Collected(f[k - 1], events[k], room)]
  <1>6. g = Def(g)
    BY <1>4, <1>5 DEF StepsOf
  <1>7. d = CHOOSE f : f = Def(f)
    BY DEF CollectRun
  <1> HIDE DEF d
  <1>8. d = Def(d)
    <2> HIDE DEF Def
    <2> QED BY <1>6, <1>7
  <1>9. d[0] = Event!Nothing
    <2>1. 0 \in 0 .. n
      OBVIOUS
    <2> QED
      BY ONLY <1>8, <2>1
  <1>10. \A k \in 1 .. n : d[k] = Event!Collected(d[k - 1], events[k], room)
    <2> TAKE k \in 1 .. n
    <2>1. k \in 0 .. n /\ k # 0
      OBVIOUS
    <2> QED
      BY ONLY <1>8, <2>1
  <1> QED
    BY <1>9, <1>10 DEF IsCollectRun, d

LEMMA CollectRounds ==
    ASSUME NEW events \in Seq(QueuedEvent), Unique(events), NEW room \in Nat
    PROVE  RoundsOK(Event!Collect(events, room), events, Len(events), room)
  <1> DEFINE n == Len(events)
             d == CollectRun(events, n, room)
             S == {k \in 0 .. n : RoundsOK(d[k], events, k, room)}
  <1>1. n \in Nat /\ DOMAIN events = 1 .. n /\ \A k \in 1 .. n : events[k] \in QueuedEvent
    BY ElementOfSeq
  <1>2. Event!Collect(events, room) = d[n]
    BY CollectOfRun
  <1>3. d[0] = Event!Nothing /\ \A k \in 1 .. n : d[k] = Event!Collected(d[k - 1], events[k], room)
    <2> HIDE DEF n
    <2>1. IsCollectRun(CollectRun(events, n, room), events, n, room)
      BY <1>1, CollectSteps
    <2> QED
      BY <2>1 DEF IsCollectRun
  <1> HIDE DEF d
  <1>4. 0 \in S
    <2>1. Event!Nothing = [out |-> <<>>, left |-> <<>>]
      BY DEF Event!Nothing
    <2>2. Event!Nothing.out = <<>> /\ Event!Nothing.left = <<>>
      BY ONLY <2>1
    <2>3. DOMAIN <<>> = {} /\ 1 .. 0 = {} /\ Len(<<>>) = 0
      OBVIOUS
    <2>4. RoundsOK(Event!Nothing, events, 0, room)
      BY <2>2, <2>3, NothingIsRound, DataOfNothing DEF RoundsOK, Unique
    <2> QED
      BY <1>1, <1>3, <2>4
  <1>5. ASSUME NEW k \in 1 .. n, k - 1 \in S PROVE k \in S
    <2>1. RoundsOK(d[k - 1], events, k - 1, room)
      BY <1>5
    <2>2. d[k] = Event!Collected(d[k - 1], events[k], room)
      BY <1>3
    <2>3. RoundsOK(d[k], events, k, room)
      BY <2>1, <2>2, OneRound
    <2> QED
      BY <2>3
  <1> HIDE DEF S
  <1>6. \A k \in 0 .. n : k \in S
    <2> HIDE DEF n
    <2> QED
      BY <1>1, <1>4, <1>5, InductionUpTo
  <1>7. n \in S
    BY <1>1, <1>6
  <1> QED
    BY <1>2, <1>7 DEF S

\* What is said of a queue with that history.
QueueType == [listed : BOOLEAN, open : BOOLEAN, events : Seq(QueuedEvent)]
HistoryType == [Idents -> [sent : Seq(Nat), got : Seq(Nat)]]
WaitType == [Waiters -> [queue : Queues \cup {NoQueue}, room : Nat, timed : BOOLEAN]]
QueueOK(x, h) ==
    /\ Unique(x.events)
    /\ \A k \in DOMAIN x.events : Event!Keeps(x.events[k]) =>
          h[x.events[k].ident].sent = h[x.events[k].ident].got \o Event!Contents(x.events[k])

LEMMA QueueByQueue == EventInv <=> EventTypeOK /\ \A q \in Queues : QueueOK(equeue[q], history[q])
  BY DEF EventInv, Event!OneOfEach, Event!KeptInOrder, QueueOK, Unique

LEMMA QueueAgrees ==
    ASSUME EventInv, NEW q \in Queues
    PROVE  /\ equeue[q] \in QueueType /\ history[q] \in HistoryType
           /\ equeue[q].events \in Seq(QueuedEvent) /\ QueueOK(equeue[q], history[q])
  <1>1. QueueOK(equeue[q], history[q])
    BY QueueByQueue
  <1> QED
    BY <1>1 DEF EventInv, EventTypeOK, QueueType, HistoryType

\* A step that changes one queue and its history.
LEMMA QueueChanges ==
    ASSUME EventInv, NEW q \in Queues, NEW x \in QueueType, NEW h \in HistoryType,
           QueueOK(x, h), eventWaiter' \in WaitType,
           equeue' = [equeue EXCEPT ![q] = x], history' = [history EXCEPT ![q] = h]
    PROVE  EventInv'
  <1>1. equeue \in [Queues -> QueueType] /\ history \in [Queues -> HistoryType]
    BY DEF EventInv, EventTypeOK, QueueType, HistoryType
  <1>2. equeue' \in [Queues -> QueueType] /\ history' \in [Queues -> HistoryType]
    BY <1>1
  <1>3. EventTypeOK'
    BY <1>2 DEF EventTypeOK, QueueType, HistoryType, WaitType
  <1>4. \A p \in Queues : QueueOK(equeue'[p], history'[p])
    <2> TAKE p \in Queues
    <2>1. CASE p = q
      <3>1. equeue'[p] = x /\ history'[p] = h
        BY <1>1, <2>1
      <3> QED
        BY <3>1
    <2>2. CASE p # q
      <3>1. equeue'[p] = equeue[p] /\ history'[p] = history[p]
        BY <1>1, <2>2
      <3> QED
        BY <3>1, QueueAgrees
    <2> QED
      BY <2>1, <2>2
  <1>5. (Event!OneOfEach /\ Event!KeptInOrder)'
    BY <1>4 DEF Event!OneOfEach, Event!KeptInOrder, QueueOK, Unique
  <1> QED
    BY <1>3, <1>5 DEF EventInv

\* Where an event is found in a queue.
FoundAt(s, i, k) ==
    /\ k = 0 => \A j \in DOMAIN s : s[j].ident # i
    /\ k # 0 => /\ k \in DOMAIN s /\ s[k].ident = i
                /\ \A j \in DOMAIN s : s[j].ident = i => j = k
LEMMA Finds ==
    ASSUME EventInv, NEW q \in Queues, NEW i
    PROVE  FoundAt(equeue[q].events, i, Event!Find(q, i))
  <1> DEFINE s == equeue[q].events
             I == {j \in 1 .. Len(s) : s[j].ident = i}
  <1>1. s \in Seq(QueuedEvent) /\ Unique(s)
    BY QueueAgrees DEF QueueOK
  <1>2. DOMAIN s = 1 .. Len(s)
    BY <1>1
  <1>3. Event!Find(q, i) = IF I # {} THEN Min(I) ELSE 0
    BY DEF Event!Find, Event!SelectInSeq, Event!Min, Min
  <1>4. CASE I = {}
    BY <1>2, <1>3, <1>4 DEF FoundAt
  <1>5. CASE I # {}
    <2>1. PICK j \in 1 .. Len(s) : s[j].ident = i
      BY <1>5
    <2>2. I = {j}
      BY <1>1, <1>2, <2>1 DEF Unique
    <2>3. Min(I) = j
      BY <2>2 DEF Min
    <2>4. Event!Find(q, i) = j /\ j # 0
      BY <1>3, <1>5, <2>3
    <2>5. \A k \in DOMAIN s : s[k].ident = i => k = j
      BY <1>1, <1>2, <2>1 DEF Unique
    <2> HIDE DEF s, I
    <2> QED
      BY <1>2, <2>1, <2>4, <2>5 DEF FoundAt, s
  <1> QED
    BY <1>4, <1>5

\* One event of a list is changed and keeps its name.
Changed(s, k, f) == [s EXCEPT ![k] = f]
ChangedOK(s, k, f) ==
    /\ Changed(s, k, f) \in Seq(QueuedEvent) /\ DOMAIN Changed(s, k, f) = DOMAIN s
    /\ \A j \in DOMAIN s : Changed(s, k, f)[j] = IF j = k THEN f ELSE s[j]
    /\ Unique(Changed(s, k, f))
LEMMA OneChanged ==
    ASSUME NEW s \in Seq(QueuedEvent), Unique(s), NEW k \in DOMAIN s,
           NEW f \in QueuedEvent, f.ident = s[k].ident
    PROVE  ChangedOK(s, k, f)
  <1> DEFINE c == Changed(s, k, f)
  <1>1. c \in Seq(QueuedEvent) /\ DOMAIN c = DOMAIN s
    BY ExceptSeq DEF Changed
  <1>2. \A j \in DOMAIN s : c[j] = IF j = k THEN f ELSE s[j]
    BY DEF Changed
  <1> HIDE DEF c
  <1>3. Unique(c)
    BY <1>1, <1>2 DEF Unique
  <1> QED
    BY <1>1, <1>2, <1>3 DEF ChangedOK, c

\* What has been handed out of an event are numbers.
LEMMA DataOfType ==
    ASSUME NEW out \in Seq(Idents \X Nat), NEW i
    PROVE  Event!DataOf(out, i) \in Seq(Nat)
  <1> DEFINE n == Len(out)
  <1>1. n \in Nat /\ \A k \in 1 .. n : out[k][2] \in Nat
    <2>1. \A k \in 1 .. n : out[k] \in Idents \X Nat
      BY ElementOfSeq
    <2> QED
      BY <2>1
  <1>2. Event!DataOf(out, i) = DataRun(out, n, i)[n]
    BY DataOfRun
  <1> HIDE DEF n
  <1>3. IsDataRun(DataRun(out, n, i), out, n, i)
    BY <1>1, DataSteps
  <1> DEFINE d == DataRun(out, n, i)
  <1>4. d \in [0 .. n -> Seq(Nat)]
    BY <1>3 DEF IsDataRun
  <1> HIDE DEF d
  <1>5. d[n] \in Seq(Nat)
    BY <1>1, <1>4
  <1> QED
    BY <1>2, <1>5 DEF d

LEMMA ContentsType ==
    ASSUME NEW e \in QueuedEvent
    PROVE  Event!Contents(e) \in Seq(Nat)
  <1>1. <<e.data>> \in Seq(Nat) /\ e.pending \in Seq(Nat) /\ <<>> \in Seq(Nat)
    BY DEF QueuedEvent
  <1>2. <<e.data>> \o e.pending \in Seq(Nat)
    BY <1>1, ConcatProperties
  <1> QED
    BY <1>1, <1>2 DEF Event!Contents

\* A pass that collects (WaitForEvents, KernelWaitEqueue with a timeout of zero).
LEMMA CollectKeeps ==
    ASSUME EventInv, NEW q \in Queues, NEW room \in Nat,
           NEW got, got = Event!Collect(equeue[q].events, room),
           equeue' = [equeue EXCEPT ![q].events = got.left],
           Event!Received(q, got.out), eventWaiter' \in WaitType
    PROVE  EventInv'
  <1> DEFINE s == equeue[q].events
             Kept(i) == Event!Has(q, i) /\ Event!Keeps(s[Event!Find(q, i)])
             x == [equeue[q] EXCEPT !.events = got.left]
             old == history[q]
             h == [i \in Idents |-> IF Kept(i) THEN Event!More(old[i], Event!DataOf(got.out, i))
                                    ELSE old[i]]
  <1>1. /\ equeue[q] \in QueueType /\ old \in HistoryType /\ s \in Seq(QueuedEvent)
        /\ Unique(s) /\ QueueOK(equeue[q], old)
    BY QueueAgrees DEF QueueOK
  <1>2. RoundsOK(got, s, Len(s), room)
    <2> HIDE DEF s
    <2>1. RoundsOK(Event!Collect(s, room), s, Len(s), room)
      BY <1>1, CollectRounds
    <2> QED
      BY <2>1 DEF s
  <1>3. got.out \in Seq(Idents \X Nat) /\ got.left \in Seq(QueuedEvent) /\ Unique(got.left)
    BY <1>2 DEF RoundsOK, Round
  <1>4. x \in QueueType /\ x.events = got.left
    BY <1>1, <1>3 DEF QueueType
  <1>5. \A i \in Idents : Event!DataOf(got.out, i) \in Seq(Nat)
    BY <1>3, DataOfType
  <1>6. \A i \in Idents : old[i] \in [sent : Seq(Nat), got : Seq(Nat)]
    BY <1>1 DEF HistoryType
  <1>7. \A i \in Idents : old[i].got \o Event!DataOf(got.out, i) \in Seq(Nat)
    BY <1>5, <1>6, ConcatProperties
  <1> DEFINE more(i) == old[i].got \o Event!DataOf(got.out, i)
  <1>8. equeue' = [equeue EXCEPT ![q] = x]
    OBVIOUS
  <1>9. history' = [history EXCEPT ![q] = h]
    BY DEF Event!Received
  <1>10. \A i \in Idents : h[i] = IF Kept(i) THEN [old[i] EXCEPT !.got = more(i)] ELSE old[i]
    BY DEF Event!More
  <1>11. h \in HistoryType
    <2>1. \A i \in Idents : more(i) \in Seq(Nat)
      BY <1>7
    <2>2. h = [i \in Idents |-> IF Kept(i) THEN [old[i] EXCEPT !.got = more(i)] ELSE old[i]]
      BY DEF Event!More
    <2> HIDE DEF more, Kept, h, old
    <2> QED
      BY <1>6, <2>1, <2>2 DEF HistoryType
  <1> HIDE DEF x, h, Kept, old
  <1>12. ASSUME NEW j \in DOMAIN got.left, Event!Keeps(got.left[j])
         PROVE  h[got.left[j].ident].sent = h[got.left[j].ident].got \o Event!Contents(got.left[j])
    <2> DEFINE i == got.left[j].ident
               left == Event!Contents(got.left[j])
               out == Event!DataOf(got.out, i)
    <2>1. PICK m \in 1 .. Len(s) :
             /\ i = s[m].ident /\ got.left[j].kind = s[m].kind
             /\ Event!Keeps(s[m]) => Event!Contents(s[m]) = Event!DataOf(got.out, s[m].ident) \o left
      BY <1>2, <1>12 DEF RoundsOK
    <2>2. m \in DOMAIN s /\ m # 0 /\ s[m] \in QueuedEvent /\ got.left[j] \in QueuedEvent
      <3>1. m \in DOMAIN s /\ m # 0
        BY <1>1
      <3>2. got.left[j] \in QueuedEvent
        BY <1>3
      <3>3. s[m] \in QueuedEvent
        BY <1>1, ElementOfSeq
      <3> QED
        BY <3>1, <3>2, <3>3
    <2>3. Event!Keeps(s[m])
      BY <1>12, <2>1 DEF Event!Keeps
    <2>4. i \in Idents
      BY <2>2 DEF QueuedEvent
    <2>5. Event!Find(q, i) = m
      <3>1. FoundAt(s, i, Event!Find(q, i))
        BY Finds
      <3> HIDE DEF i, s
      <3> QED
        BY <2>1, <2>2, <3>1 DEF FoundAt
    <2>6. Kept(i)
      BY <2>2, <2>3, <2>5 DEF Kept, Event!Has
    <2>7. old[i].sent = old[i].got \o Event!Contents(s[m])
      BY <1>1, <2>1, <2>2, <2>3 DEF QueueOK
    <2>8. Event!Contents(s[m]) = out \o left
      BY <2>1, <2>3
    <2>9. left \in Seq(Nat) /\ out \in Seq(Nat) /\ old[i].got \in Seq(Nat)
      BY <1>5, <1>6, <2>2, <2>4, ContentsType
    <2>10. old[i].got \o (out \o left) = (old[i].got \o out) \o left
      <3> DEFINE g == old[i].got
      <3>1. g \in Seq(Nat)
        BY <2>9
      <3> HIDE DEF g, out, left
      <3>2. \A a, b, c \in Seq(Nat) : a \o (b \o c) = (a \o b) \o c
        BY NatsAssociative
      <3>3. g \o (out \o left) = (g \o out) \o left
        BY <2>9, <3>1, <3>2
      <3> QED
        BY <3>3 DEF g
    <2> HIDE DEF i, out, left
    <2>11. h[i].sent = old[i].sent /\ h[i].got = old[i].got \o out
      <3>1. h[i] = [old[i] EXCEPT !.got = more(i)] /\ old[i] \in [sent : Seq(Nat), got : Seq(Nat)]
        BY <1>6, <1>10, <2>4, <2>6
      <3>2. more(i) = old[i].got \o out
        BY DEF out
      <3> HIDE DEF more
      <3> QED
        BY <3>1, <3>2
    <2>12. h[i].sent = h[i].got \o left
      BY <2>7, <2>8, <2>10, <2>11
    <2> QED
      BY <2>12 DEF i, left
  <1>13. QueueOK(x, h)
    BY <1>3, <1>4, <1>12 DEF QueueOK
  <1> QED
    BY <1>4, <1>8, <1>9, <1>11, <1>13, QueueChanges

\* A step that changes one event and what was sent and collected of it.
LEMMA ChangeKeeps ==
    ASSUME EventInv, NEW q \in Queues, NEW k \in DOMAIN equeue[q].events, NEW f \in QueuedEvent,
           f.ident = equeue[q].events[k].ident, NEW h \in HistoryType,
           \A i \in Idents : i # f.ident => h[i] = history[q][i],
           Event!Keeps(f) => h[f.ident].sent = h[f.ident].got \o Event!Contents(f),
           equeue' = [equeue EXCEPT ![q].events[k] = f], history' = [history EXCEPT ![q] = h],
           eventWaiter' = eventWaiter
    PROVE  EventInv'
  <1> DEFINE s == equeue[q].events
             c == Changed(s, k, f)
             x == [equeue[q] EXCEPT !.events = c]
  <1>1. /\ equeue[q] \in QueueType /\ s \in Seq(QueuedEvent) /\ Unique(s)
        /\ QueueOK(equeue[q], history[q]) /\ eventWaiter' \in WaitType
    BY QueueAgrees DEF QueueOK, EventInv, EventTypeOK, WaitType
  <1>2. equeue' = [equeue EXCEPT ![q] = x]
    BY DEF Changed
  <1>3. ChangedOK(s, k, f)
    <2> HIDE DEF s
    <2> QED
      BY <1>1, OneChanged DEF s
  <1> HIDE DEF c
  <1>4. /\ c \in Seq(QueuedEvent) /\ DOMAIN c = DOMAIN s /\ Unique(c)
        /\ \A j \in DOMAIN s : c[j] = IF j = k THEN f ELSE s[j]
    BY <1>3 DEF ChangedOK, c
  <1>5. x \in QueueType /\ x.events = c
    BY <1>1, <1>4 DEF QueueType
  <1>6. ASSUME NEW j \in DOMAIN c, Event!Keeps(c[j])
        PROVE  h[c[j].ident].sent = h[c[j].ident].got \o Event!Contents(c[j])
    <2>1. CASE j = k
      BY <1>4, <1>6, <2>1
    <2>2. CASE j # k
      <3>1. j \in DOMAIN s /\ c[j] = s[j]
        BY <1>4, <2>2
      <3>2. s[j].ident # f.ident
        BY <1>1, <2>2, <3>1 DEF Unique
      <3>3. s[j].ident \in Idents
        <4>1. c[j] \in QueuedEvent
          BY <1>4, ItemOf
        <4> QED
          BY <3>1, <4>1 DEF QueuedEvent
      <3>4. h[s[j].ident] = history[q][s[j].ident]
        BY <3>2, <3>3
      <3>5. history[q][s[j].ident].sent = history[q][s[j].ident].got \o Event!Contents(s[j])
        BY <1>1, <1>6, <3>1 DEF QueueOK
      <3> QED
        BY <3>1, <3>4, <3>5
    <2> QED
      BY <2>1, <2>2
  <1>7. QueueOK(x, h)
    BY <1>4, <1>5, <1>6 DEF QueueOK
  <1> HIDE DEF x
  <1> QED
    BY <1>1, <1>2, <1>5, <1>7, QueueChanges

\* An event is removed from a list: the others stay, in order.
ErasedOK(s, k, r) ==
    /\ r \in Seq(QueuedEvent) /\ Unique(r)
    /\ \A j \in DOMAIN r : \E m \in DOMAIN s : m # k /\ r[j] = s[m]
LEMMA Erased ==
    ASSUME NEW s \in Seq(QueuedEvent), Unique(s), NEW k \in DOMAIN s
    PROVE  ErasedOK(s, k, Event!RemoveAt(s, k))
  <1> DEFINE n == Len(s)
             p == SubSeq(s, 1, k - 1)
             q == SubSeq(s, k + 1, n)
             w == Event!RemoveAt(s, k)
  <1>1. n \in Nat /\ DOMAIN s = 1 .. n /\ k \in 1 .. n /\ \A j \in 1 .. n : s[j] \in QueuedEvent
    BY ElementOfSeq
  <1>2. w = p \o q
    BY DEF Event!RemoveAt
  <1>3. p \in Seq(QueuedEvent) /\ Len(p) = k - 1 /\ \A j \in 1 .. k - 1 : p[j] = s[j]
    BY <1>1
  <1>4. q \in Seq(QueuedEvent) /\ Len(q) = n - k /\ \A j \in 1 .. n - k : q[j] = s[k + j]
    <2>1. k + 1 \in Int /\ n \in Int /\ \A j \in k + 1 .. n : s[j] \in QueuedEvent
      BY <1>1
    <2>2. /\ q \in Seq(QueuedEvent) /\ Len(q) = IF k + 1 <= n THEN n - (k + 1) + 1 ELSE 0
          /\ \A j \in 1 .. n - (k + 1) + 1 : q[j] = s[k + 1 + j - 1]
      BY <2>1, SubSeqProperties
    <2> HIDE DEF q, n
    <2>3. Len(q) = n - k
      BY <1>1, <2>2
    <2>4. ASSUME NEW j \in 1 .. n - k PROVE q[j] = s[k + j]
      <3>1. k + 1 + j - 1 = k + j /\ j \in 1 .. n - (k + 1) + 1
        BY <1>1
      <3> QED
        BY <2>2, <3>1
    <2> QED
      BY <2>2, <2>3, <2>4
  <1> HIDE DEF p, q, w
  <1>5. /\ w \in Seq(QueuedEvent) /\ Len(w) = n - 1
        /\ \A j \in 1 .. n - 1 : w[j] = IF j < k THEN s[j] ELSE s[j + 1]
    <2>1. /\ w \in Seq(QueuedEvent) /\ Len(w) = Len(p) + Len(q)
          /\ \A j \in 1 .. Len(p) + Len(q) : w[j] = IF j <= Len(p) THEN p[j] ELSE q[j - Len(p)]
      <3>1. p \o q \in Seq(QueuedEvent) /\ Len(p \o q) = Len(p) + Len(q)
        BY <1>3, <1>4, JoinIsList
      <3>2. \A j \in 1 .. Len(p) + Len(q) : (p \o q)[j] = IF j <= Len(p) THEN p[j] ELSE q[j - Len(p)]
        BY <1>3, <1>4, JoinItem
      <3> QED
        BY <1>2, <3>1, <3>2
    <2>2. Len(w) = n - 1 /\ Len(p) + Len(q) = n - 1 /\ Len(p) = k - 1
      BY <1>1, <1>3, <1>4, <2>1
    <2>3. ASSUME NEW j \in 1 .. n - 1, j < k PROVE w[j] = s[j]
      <3>1. j \in 1 .. k - 1 /\ j <= Len(p)
        BY <1>1, <2>2, <2>3
      <3>2. w[j] = p[j]
        BY <2>1, <2>2, <3>1
      <3> QED
        BY <1>3, <3>1, <3>2
    <2>4. ASSUME NEW j \in 1 .. n - 1, ~(j < k) PROVE w[j] = s[j + 1]
      <3>1. j - (k - 1) \in 1 .. n - k /\ k + (j - (k - 1)) = j + 1 /\ ~(j <= Len(p))
        BY <1>1, <2>2, <2>4
      <3>2. w[j] = q[j - (k - 1)]
        BY <2>1, <2>2, <3>1
      <3> QED
        BY <1>4, <3>1, <3>2
    <2> QED
      BY <2>1, <2>2, <2>3, <2>4
  <1>6. DOMAIN w = 1 .. n - 1
    BY <1>1, <1>5
  <1> DEFINE at(j) == IF j < k THEN j ELSE j + 1
  <1>7. \A j \in 1 .. n - 1 : at(j) \in 1 .. n /\ at(j) # k /\ w[j] = s[at(j)]
    BY <1>1, <1>5
  <1>8. \A i, j \in 1 .. n - 1 : at(i) = at(j) => i = j
    BY <1>1
  <1> HIDE DEF at
  <1>9. Unique(w)
    BY <1>1, <1>6, <1>7, <1>8 DEF Unique
  <1> HIDE DEF n
  <1>10. \A j \in DOMAIN w : \E m \in DOMAIN s : m # k /\ w[j] = s[m]
    BY <1>1, <1>6, <1>7
  <1> QED
    BY <1>5, <1>9, <1>10 DEF ErasedOK, w

\* An event that was triggered first and then more often has all of it.
LEMMA TriggerAdds ==
    ASSUME NEW e \in QueuedEvent, NEW data \in Nat, NEW f, f = Event!Trigger(e, data)
    PROVE  /\ f \in QueuedEvent /\ f.ident = e.ident /\ f.kind = e.kind
           /\ Event!Keeps(e) => Event!Contents(f) = Append(Event!Contents(e), data)
  <1>1. /\ e.data \in Nat /\ e.pending \in Seq(Nat) /\ Append(e.pending, data) \in Seq(Nat)
        /\ <<e.data>> \in Seq(Nat)
    BY AppendProperties DEF QueuedEvent
  <1>2. CASE e.triggered /\ Event!Keeps(e)
    <2>1. f = [e EXCEPT !.pending = Append(e.pending, data)]
      BY <1>2 DEF Event!Trigger
    <2>2. f \in QueuedEvent /\ f.ident = e.ident /\ f.kind = e.kind
      BY <1>1, <1>2, <2>1 DEF QueuedEvent
    <2>3. Event!Contents(e) = <<e.data>> \o e.pending
      BY <1>2 DEF Event!Contents
    <2>4. Event!Contents(f) = <<e.data>> \o Append(e.pending, data)
      BY <1>2, <2>1 DEF Event!Contents, QueuedEvent
    <2>5. <<e.data>> \o Append(e.pending, data) = Append(<<e.data>> \o e.pending, data)
      <3> DEFINE u == <<e.data>>
                 v == e.pending
      <3>1. u \in Seq(Nat) /\ v \in Seq(Nat) /\ <<data>> \in Seq(Nat) /\ u \o v \in Seq(Nat)
        BY <1>1, ConcatProperties
      <3> HIDE DEF u, v
      <3>2. Append(v, data) = v \o <<data>> /\ Append(u \o v, data) = (u \o v) \o <<data>>
        BY <3>1, AppendIsConcat
      <3>3. u \o (v \o <<data>>) = (u \o v) \o <<data>>
        BY <3>1, NatsAssociative
      <3>4. u \o Append(v, data) = Append(u \o v, data)
        BY <3>2, <3>3
      <3> QED
        BY <3>4 DEF u, v
    <2> QED
      BY <2>2, <2>3, <2>4, <2>5
  <1>3. CASE ~(e.triggered /\ Event!Keeps(e))
    <2>1. f = [e EXCEPT !.triggered = TRUE, !.data = data]
      BY <1>3 DEF Event!Trigger
    <2>2. f \in QueuedEvent /\ f.ident = e.ident /\ f.kind = e.kind
      BY <1>1, <2>1 DEF QueuedEvent
    <2>3. ASSUME Event!Keeps(e) PROVE Event!Contents(f) = Append(Event!Contents(e), data)
      <3>1. ~e.triggered /\ e.pending = <<>>
        BY <1>3, <2>3 DEF QueuedEvent
      <3>2. Event!Contents(e) = <<>>
        BY <3>1 DEF Event!Contents
      <3>3. f.triggered /\ f.data = data /\ f.pending = <<>>
        BY <2>1, <3>1 DEF QueuedEvent
      <3>4. Event!Contents(f) = <<data>> \o <<>>
        BY <3>3 DEF Event!Contents
      <3>5. <<data>> \o <<>> = <<data>> /\ Append(<<>>, data) = <<data>>
        <4>1. <<data>> \in Seq(Nat)
          OBVIOUS
        <4>2. <<data>> \o <<>> = <<data>>
          BY <4>1, ConcatEmptySeq
        <4> QED
          BY <4>2
      <3> QED
        BY <3>2, <3>4, <3>5
    <2> QED
      BY <2>2, <2>3
  <1> QED
    BY <1>2, <1>3

LEMMA AddKeeps ==
    ASSUME EventInv, NEW q \in Queues, NEW i \in Idents, NEW kind \in KindsOf(i),
           Event!AddEvent(q, i, kind)
    PROVE  EventInv'
  <1> DEFINE s == equeue[q].events
             k == Event!Find(q, i)
             v == Event!NewEvent(i, kind)
             old == history[q]
  <1>1. /\ equeue[q] \in QueueType /\ old \in HistoryType /\ s \in Seq(QueuedEvent)
        /\ Unique(s) /\ QueueOK(equeue[q], old)
        /\ eventWaiter' = eventWaiter /\ eventWaiter \in WaitType
    BY QueueAgrees DEF QueueOK, EventInv, EventTypeOK, WaitType, Event!AddEvent
  <1>2. FoundAt(s, i, k)
    BY Finds
  <1>3. /\ v \in QueuedEvent /\ v.ident = i /\ ~v.triggered
        /\ v.due = IF kind = "timer" THEN "later" ELSE "never"
    <2>1. <<>> \in Seq(Nat) /\ kind \in Event!Kinds
      BY DEF KindsOf, Idents, Event!Kinds
    <2> QED
      BY <2>1 DEF Event!NewEvent, QueuedEvent
  <1>4. CASE k # 0
    <2> DEFINE f == [s[k] EXCEPT !.due = v.due]
    <2>1. k \in DOMAIN s /\ s[k].ident = i
      BY <1>2, <1>4 DEF FoundAt
    <2>2. s[k] \in QueuedEvent
      <3> HIDE DEF s, k
      <3> QED
        BY <1>1, <2>1
    <2>3. /\ equeue' = [equeue EXCEPT ![q].events[k].due = v.due] /\ history' = history
      BY <1>3, <1>4 DEF Event!AddEvent, Event!Added, Event!Has
    <2>4. equeue' = [equeue EXCEPT ![q].events[k] = f]
      BY <2>3
    <2> HIDE DEF v
    <2>5. f \in QueuedEvent /\ f.ident = i /\ f.kind = s[k].kind
      <3> DEFINE e == s[k]
      <3>1. e \in QueuedEvent /\ e.ident = i
        BY <2>1, <2>2
      <3>2. e.kind # "timer" => kind # "timer"
        BY <3>1 DEF QueuedEvent, KindsOf, Idents
      <3>3. f = [e EXCEPT !.due = v.due]
        OBVIOUS
      <3> HIDE DEF e, f
      <3>4. f \in QueuedEvent /\ f.ident = i /\ f.kind = e.kind
        BY <1>3, <3>1, <3>2, <3>3 DEF QueuedEvent
      <3> QED
        BY <3>4 DEF e
    <2>6. Event!Contents(f) = Event!Contents(s[k])
      BY <2>2 DEF Event!Contents, QueuedEvent
    <2>7. Event!Keeps(f) => old[f.ident].sent = old[f.ident].got \o Event!Contents(f)
      BY <1>1, <2>1, <2>5, <2>6 DEF QueueOK, Event!Keeps
    <2>8. history' = [history EXCEPT ![q] = old]
      BY <2>3 DEF EventInv, EventTypeOK
    <2> HIDE DEF f, old
    <2>9. \A j \in Idents : j # f.ident => old[j] = history[q][j]
      BY DEF old
    <2>10. f.ident = s[k].ident
      BY <2>1, <2>5
    <2> QED
      BY <1>1, <2>1, <2>4, <2>5, <2>7, <2>8, <2>9, <2>10, ChangeKeeps
  <1>5. CASE k = 0
    <2> DEFINE c == Append(s, v)
               x == [equeue[q] EXCEPT !.events = c]
               h == [old EXCEPT ![i] = Event!NoHistory]
               n == Len(s)
    <2>1. equeue' = [equeue EXCEPT ![q] = x] /\ history' = [history EXCEPT ![q] = h]
      BY <1>3, <1>5 DEF Event!AddEvent, Event!Added, Event!Has, Event!Forget
    <2>2. \A j \in DOMAIN s : s[j].ident # i
      BY <1>2, <1>5 DEF FoundAt
    <2> HIDE DEF s, v
    <2>3. /\ c \in Seq(QueuedEvent) /\ DOMAIN c = 1 .. n + 1 /\ n \in Nat /\ DOMAIN s = 1 .. n
          /\ c[n + 1] = v /\ \A j \in 1 .. n : c[j] = s[j]
      <3>1. c \in Seq(QueuedEvent) /\ Len(c) = n + 1
        BY <1>1, <1>3, AppendProperties
      <3>2. c[n + 1] = v /\ \A j \in 1 .. n : c[j] = s[j]
        BY <1>1, <1>3, AppendProperties
      <3>3. n \in Nat /\ DOMAIN s = 1 .. n
        BY <1>1
      <3> HIDE DEF c, n
      <3>4. DOMAIN c = 1 .. n + 1
        BY <3>1, <3>3
      <3> QED
        BY <3>1, <3>2, <3>3, <3>4
    <2> HIDE DEF c, n
    <2>4. \A j \in DOMAIN c : (j = n + 1 /\ c[j] = v) \/ (j \in DOMAIN s /\ c[j] = s[j])
      BY <2>3
    <2>5. Unique(c)
      BY <1>1, <1>3, <2>2, <2>4 DEF Unique
    <2>6. x \in QueueType /\ x.events = c
      BY <1>1, <2>3 DEF QueueType
    <2>7. h \in HistoryType /\ \A j \in Idents : j # i => h[j] = old[j]
      BY <1>1 DEF HistoryType, Event!NoHistory
    <2>8. h[i].sent = <<>> /\ h[i].got = <<>>
      BY <1>1 DEF HistoryType, Event!NoHistory
    <2>9. ASSUME NEW j \in DOMAIN c, Event!Keeps(c[j])
          PROVE  h[c[j].ident].sent = h[c[j].ident].got \o Event!Contents(c[j])
      <3>1. CASE j = n + 1 /\ c[j] = v
        <4>1. Event!Contents(v) = <<>>
          BY <1>3 DEF Event!Contents
        <4>2. <<>> \o <<>> = <<>>
          <5>1. <<>> \in Seq(Nat)
            OBVIOUS
          <5> QED
            BY <5>1, ConcatEmptySeq
        <4> QED
          BY <1>3, <2>8, <3>1, <4>1, <4>2
      <3>2. CASE j \in DOMAIN s /\ c[j] = s[j]
        <4>1. s[j].ident \in Idents /\ s[j].ident # i
          <5>1. s[j] \in QueuedEvent
            BY <1>1, <3>2
          <5> QED
            BY <2>2, <3>2, <5>1 DEF QueuedEvent
        <4>2. h[s[j].ident] = old[s[j].ident]
          BY <2>7, <4>1
        <4>3. old[s[j].ident].sent = old[s[j].ident].got \o Event!Contents(s[j])
          BY <1>1, <2>9, <3>2 DEF QueueOK, s
        <4> QED
          BY <3>2, <4>2, <4>3
      <3> QED
        BY <2>4, <3>1, <3>2
    <2>10. QueueOK(x, h)
      BY <2>5, <2>6, <2>9 DEF QueueOK
    <2> HIDE DEF x, h
    <2> QED
      BY <1>1, <2>1, <2>6, <2>7, <2>10, QueueChanges
  <1> QED
    BY <1>4, <1>5

LEMMA TriggerKeeps ==
    ASSUME EventInv, NEW q \in Queues, NEW i \in Idents, NEW data \in Nat,
           Event!TriggerEvent(q, i, data)
    PROVE  EventInv'
  <1> DEFINE s == equeue[q].events
             k == Event!Find(q, i)
             f == Event!Trigger(s[k], data)
             old == history[q]
  <1>1. /\ equeue[q] \in QueueType /\ old \in HistoryType /\ s \in Seq(QueuedEvent)
        /\ Unique(s) /\ QueueOK(equeue[q], old) /\ eventWaiter' = eventWaiter
    BY QueueAgrees DEF QueueOK, Event!TriggerEvent
  <1>2. k \in DOMAIN s /\ s[k].ident = i
    <2>1. FoundAt(s, i, k)
      BY Finds
    <2>2. k # 0
      BY DEF Event!TriggerEvent, Event!Has
    <2> QED
      BY <2>1, <2>2 DEF FoundAt
  <1>3. s[k] \in QueuedEvent
    <2> HIDE DEF s, k
    <2> QED
      BY <1>1, <1>2
  <1>4. /\ equeue' = [equeue EXCEPT ![q].events[k] = f]
        /\ history' = IF Event!Keeps(s[k])
                      THEN [history EXCEPT ![q][i].sent = Append(@, data)] ELSE history
    BY DEF Event!TriggerEvent, Event!Triggers
  <1> HIDE DEF f
  <1>5. /\ f \in QueuedEvent /\ f.ident = i /\ f.kind = s[k].kind
        /\ Event!Keeps(s[k]) => Event!Contents(f) = Append(Event!Contents(s[k]), data)
    <2> DEFINE e == s[k]
    <2> HIDE DEF e
    <2>1. e \in QueuedEvent /\ f = Event!Trigger(e, data) /\ e.ident = i
      BY <1>2, <1>3 DEF e, f
    <2>2. /\ f \in QueuedEvent /\ f.ident = e.ident /\ f.kind = e.kind
          /\ Event!Keeps(e) => Event!Contents(f) = Append(Event!Contents(e), data)
      BY <2>1, TriggerAdds
    <2> QED
      BY <2>1, <2>2 DEF e
  <1>6. CASE ~Event!Keeps(s[k])
    <2>1. ~Event!Keeps(f)
      BY <1>5, <1>6 DEF Event!Keeps
    <2>2. history' = [history EXCEPT ![q] = old]
      BY <1>4, <1>6 DEF EventInv, EventTypeOK
    <2>3. f.ident = s[k].ident /\ \A j \in Idents : j # f.ident => old[j] = history[q][j]
      BY <1>2, <1>5
    <2> HIDE DEF old, s, k
    <2>4. k \in DOMAIN equeue[q].events /\ f.ident = equeue[q].events[k].ident
      BY <1>2, <2>3 DEF s
    <2> QED
      BY <1>1, <1>4, <1>5, <2>1, <2>2, <2>3, <2>4, ChangeKeeps
  <1>7. CASE Event!Keeps(s[k])
    <2> DEFINE g == Append(old[i].sent, data)
               h == [old EXCEPT ![i] = [old[i] EXCEPT !.sent = g]]
    <2>1. history' = [history EXCEPT ![q] = h]
      BY <1>4, <1>7
    <2>2. old[i] \in [sent : Seq(Nat), got : Seq(Nat)] /\ DOMAIN old = Idents
      BY <1>1 DEF HistoryType
    <2>3. g \in Seq(Nat)
      BY <2>2, AppendProperties
    <2> HIDE DEF g, old, s, k
    <2>4. h \in HistoryType /\ h[i].sent = g /\ h[i].got = old[i].got
      BY <1>1, <2>2, <2>3 DEF HistoryType
    <2>5. \A j \in Idents : j # i => h[j] = old[j]
      BY <2>2
    <2>6. old[i].sent = old[i].got \o Event!Contents(s[k])
      BY <1>1, <1>2, <1>7 DEF QueueOK, s
    <2>7. g = old[i].got \o Event!Contents(f)
      <3> DEFINE u == old[i].got
                 v == Event!Contents(s[k])
      <3>1. u \in Seq(Nat) /\ v \in Seq(Nat) /\ <<data>> \in Seq(Nat) /\ u \o v \in Seq(Nat)
        <4>1. u \in Seq(Nat) /\ v \in Seq(Nat) /\ <<data>> \in Seq(Nat)
          BY <1>3, <2>2, ContentsType
        <4> HIDE DEF u, v
        <4> QED
          BY <4>1, ConcatProperties
      <3>2. g = Append(u \o v, data) /\ Event!Contents(f) = Append(v, data)
        BY <1>5, <1>7, <2>6 DEF g
      <3> HIDE DEF u, v
      <3>3. Append(v, data) = v \o <<data>> /\ Append(u \o v, data) = (u \o v) \o <<data>>
        BY <3>1, AppendIsConcat
      <3>4. u \o (v \o <<data>>) = (u \o v) \o <<data>>
        BY <3>1, NatsAssociative
      <3>5. g = u \o Event!Contents(f)
        BY <3>2, <3>3, <3>4
      <3> QED
        BY <3>5 DEF u
    <2>8. h[f.ident].sent = h[f.ident].got \o Event!Contents(f)
      BY <1>5, <2>4, <2>7
    <2>9. \A j \in Idents : j # f.ident => h[j] = history[q][j]
      BY <1>5, <2>5 DEF old
    <2>10. k \in DOMAIN equeue[q].events /\ f.ident = equeue[q].events[k].ident
      BY <1>2, <1>5 DEF s
    <2> HIDE DEF h
    <2> QED
      BY <1>1, <1>4, <1>5, <2>1, <2>4, <2>8, <2>9, <2>10, ChangeKeeps
  <1> QED
    BY <1>6, <1>7

LEMMA DeadlineKeeps ==
    ASSUME EventInv, NEW q \in Queues, NEW i \in Idents, Event!DeadlinePasses(q, i)
    PROVE  EventInv'
  <1> DEFINE s == equeue[q].events
             k == Event!Find(q, i)
             f == [s[k] EXCEPT !.due = "passed"]
             old == history[q]
  <1>1. /\ equeue[q] \in QueueType /\ old \in HistoryType /\ s \in Seq(QueuedEvent)
        /\ Unique(s) /\ QueueOK(equeue[q], old) /\ eventWaiter' = eventWaiter
    BY QueueAgrees DEF QueueOK, Event!DeadlinePasses
  <1>2. k \in DOMAIN s /\ s[k].ident = i
    <2>1. FoundAt(s, i, k)
      BY Finds
    <2>2. k # 0
      BY DEF Event!DeadlinePasses, Event!Has
    <2> QED
      BY <2>1, <2>2 DEF FoundAt
  <1>3. s[k] \in QueuedEvent
    <2> HIDE DEF s, k
    <2> QED
      BY <1>1, <1>2
  <1>4. equeue' = [equeue EXCEPT ![q].events[k] = f] /\ s[k].due = "later"
    BY DEF Event!DeadlinePasses
  <1>5. f \in QueuedEvent /\ f.ident = s[k].ident /\ f.kind = "timer"
    <2> DEFINE e == s[k]
    <2>1. e \in QueuedEvent /\ e.due = "later" /\ f = [e EXCEPT !.due = "passed"]
      BY <1>3, <1>4
    <2> HIDE DEF e, f
    <2>2. f \in QueuedEvent /\ f.ident = e.ident /\ f.kind = "timer"
      BY <2>1 DEF QueuedEvent
    <2> QED
      BY <2>2 DEF e
  <1>6. history' = [history EXCEPT ![q] = old]
    BY DEF EventInv, EventTypeOK, Event!DeadlinePasses
  <1>7. ~Event!Keeps(f)
    BY <1>5 DEF Event!Keeps
  <1> HIDE DEF f, old, k
  <1>8. \A j \in Idents : j # f.ident => old[j] = history[q][j]
    BY DEF old
  <1> QED
    BY <1>1, <1>2, <1>4, <1>5, <1>6, <1>7, <1>8, ChangeKeeps

LEMMA DeleteKeeps ==
    ASSUME EventInv, NEW q \in Queues, NEW i \in Idents, Event!DeleteEvent(q, i)
    PROVE  EventInv'
  <1> DEFINE s == equeue[q].events
             k == Event!Find(q, i)
             c == Event!RemoveAt(s, k)
             x == [equeue[q] EXCEPT !.events = c]
             old == history[q]
             h == [old EXCEPT ![i] = Event!NoHistory]
  <1>1. /\ equeue[q] \in QueueType /\ old \in HistoryType /\ s \in Seq(QueuedEvent)
        /\ Unique(s) /\ QueueOK(equeue[q], old) /\ eventWaiter' \in WaitType
    BY QueueAgrees DEF QueueOK, EventInv, EventTypeOK, WaitType, Event!DeleteEvent
  <1>2. k \in DOMAIN s /\ s[k].ident = i /\ \A j \in DOMAIN s : s[j].ident = i => j = k
    <2>1. FoundAt(s, i, k)
      BY Finds
    <2>2. k # 0
      BY DEF Event!DeleteEvent, Event!Has
    <2> QED
      BY <2>1, <2>2 DEF FoundAt
  <1>3. equeue' = [equeue EXCEPT ![q] = x] /\ history' = [history EXCEPT ![q] = h]
    BY DEF Event!DeleteEvent, Event!Removed, Event!Forget
  <1> HIDE DEF s, k
  <1>4. ErasedOK(s, k, c)
    BY <1>1, <1>2, Erased
  <1> HIDE DEF c
  <1>5. x \in QueueType /\ x.events = c
    BY <1>1, <1>4 DEF QueueType, ErasedOK
  <1>6. h \in HistoryType /\ \A j \in Idents : j # i => h[j] = old[j]
    BY <1>1 DEF HistoryType, Event!NoHistory
  <1>7. ASSUME NEW j \in DOMAIN c, Event!Keeps(c[j])
        PROVE  h[c[j].ident].sent = h[c[j].ident].got \o Event!Contents(c[j])
    <2>1. PICK m \in DOMAIN s : m # k /\ c[j] = s[m]
      BY <1>4 DEF ErasedOK
    <2>2. s[m] \in QueuedEvent
      BY <1>1
    <2>3. s[m].ident \in Idents /\ s[m].ident # i
      BY <1>2, <2>1, <2>2 DEF QueuedEvent
    <2>4. h[s[m].ident] = old[s[m].ident]
      BY <1>6, <2>3
    <2>5. old[s[m].ident].sent = old[s[m].ident].got \o Event!Contents(s[m])
      BY <1>1, <1>7, <2>1 DEF QueueOK, s
    <2> QED
      BY <2>1, <2>4, <2>5
  <1>8. QueueOK(x, h)
    BY <1>4, <1>5, <1>7 DEF QueueOK, ErasedOK
  <1> HIDE DEF x, h
  <1> QED
    BY <1>1, <1>3, <1>5, <1>6, <1>8, QueueChanges

LEMMA CloseKeeps ==
    ASSUME EventInv, NEW q \in Queues, Event!CloseQueue(q)
    PROVE  EventInv'
  <1> DEFINE x == [equeue[q] EXCEPT !.open = FALSE, !.events = <<>>]
             h == [i \in Idents |-> Event!NoHistory]
  <1>1. equeue[q] \in QueueType /\ eventWaiter' \in WaitType
    BY QueueAgrees DEF EventInv, EventTypeOK, WaitType, Event!CloseQueue
  <1>2. equeue' = [equeue EXCEPT ![q] = x] /\ history' = [history EXCEPT ![q] = h]
    BY DEF Event!CloseQueue, Event!Closed
  <1>3. x \in QueueType /\ x.events = <<>>
    <2>1. <<>> \in Seq(QueuedEvent)
      OBVIOUS
    <2> QED
      BY <1>1, <2>1 DEF QueueType
  <1>4. h \in HistoryType
    <2>1. <<>> \in Seq(Nat)
      OBVIOUS
    <2> QED
      BY <2>1 DEF HistoryType, Event!NoHistory
  <1>5. DOMAIN <<>> = {}
    OBVIOUS
  <1> HIDE DEF x, h
  <1>6. QueueOK(x, h)
    BY <1>3, <1>5 DEF QueueOK, Unique
  <1> QED
    BY <1>1, <1>2, <1>3, <1>4, <1>6, QueueChanges

LEMMA UnlistKeeps ==
    ASSUME EventInv, NEW q \in Queues, Event!Unlist(q)
    PROVE  EventInv'
  <1> DEFINE x == [equeue[q] EXCEPT !.listed = FALSE]
             h == history[q]
  <1>1. /\ equeue[q] \in QueueType /\ eventWaiter' \in WaitType /\ h \in HistoryType
        /\ QueueOK(equeue[q], h)
    BY QueueAgrees DEF EventInv, EventTypeOK, WaitType, Event!Unlist
  <1>2. equeue' = [equeue EXCEPT ![q] = x] /\ history' = [history EXCEPT ![q] = h]
    BY DEF Event!Unlist, EventInv, EventTypeOK
  <1>3. x \in QueueType /\ x.events = equeue[q].events
    BY <1>1 DEF QueueType
  <1> HIDE DEF x, h
  <1>4. QueueOK(x, h)
    BY <1>1, <1>3 DEF QueueOK
  <1> QED
    BY <1>1, <1>2, <1>3, <1>4, QueueChanges

\* The waiting calls: beginning one, leaving one without an event, and a pass.
LEMMA BeginKeeps ==
    ASSUME EventInv, NEW t \in Waiters, NEW q \in Queues, NEW room \in Nat, NEW timed \in BOOLEAN,
           Event!WaitBegin(t, q, room, timed)
    PROVE  EventInv'
  <1>1. equeue' = equeue /\ history' = history
    BY DEF Event!WaitBegin
  <1>2. EventTypeOK'
    BY <1>1 DEF EventInv, EventTypeOK, Event!WaitBegin
  <1>3. (Event!OneOfEach /\ Event!KeptInOrder)'
    BY <1>1 DEF EventInv, Event!OneOfEach, Event!KeptInOrder
  <1> QED
    BY <1>2, <1>3 DEF EventInv

LEMMA TimeoutKeeps ==
    ASSUME EventInv, NEW t \in Waiters,
           eventWaiter' = [eventWaiter EXCEPT ![t] = Event!NoWait], UNCHANGED <<equeue, history>>
    PROVE  EventInv'
  <1>1. equeue' = equeue /\ history' = history
    OBVIOUS
  <1>2. EventTypeOK'
    BY <1>1 DEF EventInv, EventTypeOK, Event!NoWait
  <1>3. (Event!OneOfEach /\ Event!KeptInOrder)'
    BY <1>1 DEF EventInv, Event!OneOfEach, Event!KeptInOrder
  <1> QED
    BY <1>2, <1>3 DEF EventInv

LEMMA ReturnKeeps ==
    ASSUME EventInv, NEW t \in Waiters, Event!WaitReturns(t)
    PROVE  EventInv'
  <1> DEFINE q == eventWaiter[t].queue
             room == eventWaiter[t].room
             got == Event!Collect(equeue[q].events, room)
  <1>1. q \in Queues /\ room \in Nat /\ eventWaiter' = [eventWaiter EXCEPT ![t] = Event!NoWait]
    BY DEF Event!WaitReturns, EventInv, EventTypeOK
  <1>2. CASE equeue[q].open
    <2>1. /\ equeue' = [equeue EXCEPT ![q].events = got.left] /\ Event!Received(q, got.out)
      BY <1>2 DEF Event!WaitReturns
    <2>2. eventWaiter' \in WaitType
      BY <1>1 DEF EventInv, EventTypeOK, WaitType, Event!NoWait
    <2> HIDE DEF q, room
    <2>3. got = Event!Collect(equeue[q].events, room)
      OBVIOUS
    <2> HIDE DEF got
    <2> QED
      BY <1>1, <2>1, <2>2, <2>3, CollectKeeps
  <1>3. CASE ~equeue[q].open
    <2>1. UNCHANGED <<equeue, history>>
      BY <1>3 DEF Event!WaitReturns
    <2> QED
      BY <1>1, <2>1, TimeoutKeeps
  <1> QED
    BY <1>2, <1>3

LEMMA PollKeeps ==
    ASSUME EventInv, NEW q \in Queues, NEW room \in Nat, Event!Poll(q, room)
    PROVE  EventInv'
  <1> DEFINE got == Event!Collect(equeue[q].events, room)
  <1>1. /\ equeue' = [equeue EXCEPT ![q].events = got.left] /\ Event!Received(q, got.out)
        /\ eventWaiter' = eventWaiter
    BY DEF Event!Poll
  <1>2. eventWaiter' \in WaitType
    BY <1>1 DEF EventInv, EventTypeOK, WaitType
  <1>3. got = Event!Collect(equeue[q].events, room)
    OBVIOUS
  <1> HIDE DEF got
  <1> QED
    BY <1>1, <1>2, <1>3, CollectKeeps

LEMMA EventStarts == ASSUME Event!EventInit PROVE EventInv
  <1>1. <<>> \in Seq(QueuedEvent) /\ <<>> \in Seq(Nat) /\ DOMAIN <<>> = {}
    OBVIOUS
  <1>2. EventTypeOK
    BY <1>1 DEF EventTypeOK, Event!EventInit, Event!NoWait, Event!NoHistory
  <1>3. Event!OneOfEach /\ Event!KeptInOrder
    BY <1>1 DEF Event!EventInit, Event!OneOfEach, Event!KeptInOrder
  <1> QED
    BY <1>2, <1>3 DEF EventInv

LEMMA EventKeeps == ASSUME EventInv, EventNext PROVE EventInv'
  <1>1. ASSUME NEW q \in Queues, EventCalls(q) PROVE EventInv'
    <2>1. ASSUME NEW t \in Waiters, NEW room \in 1 .. 2, NEW timed \in BOOLEAN,
                 Event!WaitBegin(t, q, room, timed)
          PROVE  EventInv'
      <3>1. room \in Nat
        OBVIOUS
      <3> QED
        BY <2>1, <3>1, BeginKeeps
    <2>2. ASSUME NEW room \in 1 .. 2, Event!Poll(q, room) PROVE EventInv'
      <3>1. room \in Nat
        OBVIOUS
      <3> QED
        BY <2>2, <3>1, PollKeeps
    <2>3. ASSUME NEW i \in Idents, NEW kind \in KindsOf(i), Event!AddEvent(q, i, kind)
          PROVE  EventInv'
      BY <2>3, AddKeeps
    <2>4. ASSUME NEW i \in Idents, NEW data \in 1 .. 2, Event!TriggerEvent(q, i, data)
          PROVE  EventInv'
      <3>1. data \in Nat
        OBVIOUS
      <3> QED
        BY <2>4, <3>1, TriggerKeeps
    <2>5. ASSUME NEW i \in Idents, Event!DeleteEvent(q, i) PROVE EventInv'
      BY <2>5, DeleteKeeps
    <2>6. ASSUME NEW i \in Idents, Event!DeadlinePasses(q, i) PROVE EventInv'
      BY <2>6, DeadlineKeeps
    <2>7. ASSUME Event!Unlist(q) PROVE EventInv'
      BY <2>7, UnlistKeeps
    <2>8. ASSUME Event!CloseQueue(q) PROVE EventInv'
      BY <2>8, CloseKeeps
    <2> QED
      BY <1>1, <2>1, <2>2, <2>3, <2>4, <2>5, <2>6, <2>7, <2>8 DEF EventCalls
  <1>2. ASSUME NEW t \in Waiters, Event!WaitReturns(t) PROVE EventInv'
    BY <1>2, ReturnKeeps
  <1>3. ASSUME NEW t \in Waiters, Event!WaitTimesOut(t) PROVE EventInv'
    <2>1. /\ eventWaiter' = [eventWaiter EXCEPT ![t] = Event!NoWait]
          /\ UNCHANGED <<equeue, history>>
      BY <1>3 DEF Event!WaitTimesOut
    <2> QED
      BY <2>1, TimeoutKeeps
  <1> QED
    BY <1>1, <1>2, <1>3 DEF EventNext

\* Whatever threads wait on the queues, trigger their events, delete or close
\* them, there is one event of each name in a queue, and what an AMPR or
\* video-out event was triggered with is handed out once each and in order
\* (AddEvent, the trigger functions, GetTriggeredEvents, DeleteEvent, Close).
THEOREM EventsCorrect == MCSpec => []EventsKept
  <1>1. MCInit => EventInv
    BY EventStarts DEF MCInit
  <1>2. EventInv /\ [SemaStep \/ PosixStep \/ EventStep]_allVars => EventInv'
    <2> SUFFICES ASSUME EventInv, [SemaStep \/ PosixStep \/ EventStep]_allVars PROVE EventInv'
      OBVIOUS
    <2>1. CASE EventStep
      BY <2>1, EventKeeps DEF EventStep
    <2>2. CASE SemaStep \/ PosixStep \/ UNCHANGED allVars
      <3>1. UNCHANGED <<equeue, eventWaiter, history>>
        BY <2>2 DEF SemaStep, PosixStep, allVars, eventVars
      <3>2. EventTypeOK'
        BY <3>1 DEF EventInv, EventTypeOK
      <3>3. (Event!OneOfEach /\ Event!KeptInOrder)'
        BY <3>1 DEF EventInv, Event!OneOfEach, Event!KeptInOrder
      <3> QED
        BY <3>2, <3>3 DEF EventInv
    <2> QED
      BY <2>1, <2>2
  <1>3. EventInv => EventsKept
    BY DEF EventInv, EventsKept
  <1> QED
    BY <1>1, <1>2, <1>3, PTL DEF MCSpec
=============================================================================
