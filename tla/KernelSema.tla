------------------------------- MODULE KernelSema -------------------------------
(***************************************************************************)
(* The kernel semaphore of src/src/kernel/semaphore.cpp                    *)
(* (KernelSemaPrivate): waits for several units at once, waiters in FIFO   *)
(* or priority order, cancellation, timeouts and deletion.                 *)
(*                                                                         *)
(* m_mutex is held by one thread at a time; its only holder that takes     *)
(* more than one step is the thread walking the list in WakeWaiters.  A    *)
(* waiting thread holds it only between two sleeps of 10 ms at most.       *)
(* Calls that fail without changing anything are not shown.                *)
(***************************************************************************)
EXTENDS Integers, FiniteSets

CONSTANTS Threads, NoThread,
          MaxCount,     \* m_max_count
          InitCount,    \* m_init_count
          FifoOrder,    \* m_fifo_order
          Priority,     \* guest priority of each thread, lower runs first
          Bound         \* bound: units signalled and cancellations

ASSUME KernelSemaAssumption ==
    /\ IsFiniteSet(Threads) /\ NoThread \notin Threads
    /\ MaxCount \in Nat \ {0} /\ InitCount \in 0 .. MaxCount
    /\ FifoOrder \in BOOLEAN
    /\ Priority \in [Threads -> Int]
    /\ Bound \in Nat

VARIABLES count,      \* m_count
          status,     \* m_status, "freed" once the destructor returned
          waiting,    \* the threads of m_waiting_threads
          ahead,      \* its order: ahead[t], the waiters in front of t
          waiter,     \* waiter[t], the WaitingThread of t
          walker,     \* the thread inside WakeWaiters
          visited,    \* the waiters it has passed
          budget,     \* what is left of Bound
          supplied,   \* history: units put in, corrected by Cancel
          delivered   \* history: units of the waits that returned Ok

listVars == <<waiting, ahead>>
walkVars == <<walker, visited>>
historyVars == <<supplied, delivered>>
vars == <<count, status, listVars, waiter, walkVars, budget, historyVars>>

Results == {"Ok", "TimedOut", "Canceled", "Deleted"}
WaitingThread == [need : 1 .. MaxCount, timed : BOOLEAN,
                  ready : BOOLEAN, result : Results]

NoEntry == [need |-> 1, timed |-> FALSE, ready |-> FALSE, result |-> "TimedOut"]

Init ==
    /\ count = InitCount /\ status = "Set"
    /\ waiting = {} /\ ahead = [t \in Threads |-> {}]
    /\ waiter = [t \in Threads |-> NoEntry]
    /\ walker = NoThread /\ visited = {}
    /\ budget = Bound
    /\ supplied = InitCount /\ delivered = 0

MutexFree == walker = NoThread
Asleep(t) == t \in waiting /\ ~waiter[t].ready
-----------------------------------------------------------------------------
(* Wait *)

\* The units are there: taken at once, whoever else waits.
TakeAtOnce(t, need) ==
    /\ MutexFree /\ status = "Set" /\ t \notin waiting
    /\ count >= need
    /\ count' = count - need
    /\ delivered' = delivered + need
    /\ UNCHANGED <<status, listVars, waiter, walkVars, budget, supplied>>

\* The waiters AddWaiter passes to insert t.
InFrontOf(t) == {u \in waiting : FifoOrder \/ Priority[u] <= Priority[t]}

\* A wait that cannot be served registers; a zero timeout fails instead.
AddWaiter(t, need, timed) ==
    /\ MutexFree /\ status = "Set" /\ t \notin waiting
    /\ count < need
    /\ waiting' = waiting \cup {t}
    /\ ahead' = [u \in Threads |-> IF u = t THEN InFrontOf(t)
                                   ELSE IF u \in waiting \ InFrontOf(t) THEN ahead[u] \cup {t}
                                   ELSE ahead[u]]
    /\ waiter' = [waiter EXCEPT ![t] = [NoEntry EXCEPT !.need = need, !.timed = timed]]
    /\ UNCHANGED <<count, status, walkVars, budget, historyVars>>

RemoveWaiter(t) ==
    /\ waiting' = waiting \ {t}
    /\ ahead' = [u \in Threads |-> IF u = t THEN {} ELSE ahead[u] \ {t}]
    /\ waiter' = [waiter EXCEPT ![t] = NoEntry]
    /\ UNCHANGED <<count, status, walkVars, budget, supplied>>

\* The loop looks at ready before it looks at the time.
Expired_First(t) == waiter[t].timed
Expired(t) == waiter[t].timed /\ ~waiter[t].ready

WaitReturns(t) ==
    /\ MutexFree /\ t \in waiting
    /\ waiter[t].ready
    /\ delivered' = delivered + IF waiter[t].result = "Ok" THEN waiter[t].need ELSE 0
    /\ RemoveWaiter(t)

WaitTimesOut(t) ==
    /\ MutexFree /\ t \in waiting
    /\ Expired(t)
    /\ UNCHANGED delivered
    /\ RemoveWaiter(t)
-----------------------------------------------------------------------------
(* Signal, with its walk over the waiters *)

RoomFor(units) == count + units <= MaxCount

SignalBegin(t, units) ==
    /\ MutexFree /\ status = "Set" /\ t \notin waiting
    /\ units <= budget /\ RoomFor(units)
    /\ count' = count + units
    /\ supplied' = supplied + units
    /\ budget' = budget - units
    /\ walker' = t /\ visited' = {}
    /\ UNCHANGED <<status, listVars, waiter, delivered>>

Ready(t, result) == [waiter[t] EXCEPT !.ready = TRUE, !.result = result]

Reached_AnyOrder(t) == t \in waiting \ visited
Reached(t) == t \in waiting \ visited /\ ahead[t] \subseteq visited
Servable(t) == ~waiter[t].ready /\ waiter[t].need <= count

\* One waiter of the walk, in list order; one that needs too much is passed.
WakeWaiter(t) ==
    /\ ~MutexFree
    /\ Reached(t)
    /\ visited' = visited \cup {t}
    /\ IF Servable(t)
         THEN /\ count' = count - waiter[t].need
              /\ waiter' = [waiter EXCEPT ![t] = Ready(t, "Ok")]
         ELSE UNCHANGED <<count, waiter>>
    /\ UNCHANGED <<status, listVars, walker, budget, historyVars>>

WalkEnds_First == Cardinality(visited) > 0 \/ waiting = {}
WalkEnds == visited = waiting

SignalEnd ==
    /\ ~MutexFree
    /\ WalkEnds
    /\ walker' = NoThread /\ visited' = {}
    /\ UNCHANGED <<count, status, listVars, waiter, budget, historyVars>>
-----------------------------------------------------------------------------
(* Cancel and the destructor *)

AllReady_FrontOnly(result) ==
    [t \in Threads |-> IF Asleep(t) /\ ahead[t] = {} THEN Ready(t, result) ELSE waiter[t]]
AllReady(result) ==
    [t \in Threads |-> IF Asleep(t) THEN Ready(t, result) ELSE waiter[t]]

Cancel(set_count) ==
    /\ MutexFree /\ status = "Set"
    /\ set_count <= MaxCount /\ budget > 0
    /\ count' = IF set_count < 0 THEN InitCount ELSE set_count
    /\ supplied' = supplied + count' - count
    /\ waiter' = AllReady("Canceled")
    /\ budget' = budget - 1
    /\ UNCHANGED <<status, listVars, walkVars, delivered>>

\* KernelDeleteSema: wake everyone, then wait until the list is empty.
DeleteBegin ==
    /\ MutexFree /\ status = "Set"
    /\ status' = "Deleted"
    /\ waiter' = AllReady("Deleted")
    /\ UNCHANGED <<count, listVars, walkVars, budget, historyVars>>

Drained == waiting = {}

DeleteEnd ==
    /\ MutexFree /\ status = "Deleted" /\ Drained
    /\ status' = "freed"
    /\ UNCHANGED <<count, listVars, waiter, walkVars, budget, historyVars>>
-----------------------------------------------------------------------------
Next ==
    \/ \E t \in Threads :
          \/ \E n \in 1 .. MaxCount :
                TakeAtOnce(t, n) \/ SignalBegin(t, n)
                \/ \E timed \in BOOLEAN : AddWaiter(t, n, timed)
          \/ WaitReturns(t) \/ WaitTimesOut(t) \/ WakeWaiter(t)
    \/ SignalEnd
    \/ \E n \in -1 .. MaxCount : Cancel(n)
    \/ DeleteBegin \/ DeleteEnd

Spec == Init /\ [][Next]_vars

\* The walk goes on while the mutex is held; a waiter looks at its entry and
\* its time every 10 ms and gets the mutex once nobody signals (signals are
\* bounded); the destructor polls too.
Fairness ==
    /\ WF_vars(SignalEnd) /\ WF_vars(DeleteEnd)
    /\ \A t \in Threads : WF_vars(WakeWaiter(t)) /\ WF_vars(WaitReturns(t) \/ WaitTimesOut(t))

FairSpec == Spec /\ Fairness
-----------------------------------------------------------------------------
(* Properties *)

TypeOK ==
    /\ count \in 0 .. MaxCount /\ status \in {"Set", "Deleted", "freed"}
    /\ waiting \subseteq Threads /\ ahead \in [Threads -> SUBSET Threads]
    /\ waiter \in [Threads -> WaitingThread]
    /\ walker \in Threads \cup {NoThread} /\ visited \subseteq waiting
    /\ budget \in 0 .. Bound /\ supplied \in Int /\ delivered \in Nat

\* Nobody sleeps beside units that would serve it: what a signal leaves over
\* is too little for every waiter left, big requests included.
NoneOverlooked == MutexFree => \A t \in waiting : Asleep(t) => waiter[t].need > count

\* Units are neither lost nor made: those a waiter got although its time was
\* over are reported to it, those of a cancelled wait stay in the count.
Pending == {t \in waiting : waiter[t].ready /\ waiter[t].result = "Ok"}
Given == UNION {{t} \X (1 .. waiter[t].need) : t \in Pending}
UnitsConserved == supplied = count + delivered + Cardinality(Given)

\* A waiter is not served before one in front of it, or of a better priority,
\* that asks for no more.
ServedInOrder ==
    [][\A t \in waiting : ~waiter[t].ready /\ waiter'[t].ready /\ waiter'[t].result = "Ok"
          => \A u \in waiting :
                u \in ahead[t] \/ (~FifoOrder /\ Priority[u] < Priority[t])
                    => waiter[u].ready \/ waiter[u].need > waiter[t].need]_vars

\* The destructor frees the object only when no call uses it any more.
FreedUnused == status = "freed" => waiting = {} /\ MutexFree

\* Types, no overlooked waiter and no early free: Signal, Wait, Cancel and the
\* destructor together.
SemaSound == TypeOK /\ NoneOverlooked /\ FreedUnused

\* What woke a waiter is what it returns: a later signal, cancellation or
\* deletion does not change its result.
ResultFinal ==
    [][\A t \in waiting : waiter[t].ready => waiter'[t] = waiter[t] \/ t \notin waiting']_vars

\* The order of WakeWaiters and the results of Signal, Cancel and the destructor.
WakesRight == ServedInOrder /\ ResultFinal

\* Woken and timed waits return, and the destructor's wait for them ends.
WaitsReturn == \A t \in Threads :
    t \in waiting /\ (waiter[t].ready \/ waiter[t].timed) ~> t \notin waiting
DeletionEnds == status = "Deleted" ~> status = "freed"
CallsEnd == WaitsReturn /\ DeletionEnds
=============================================================================
