------------------------------ MODULE MCGuestSemas ------------------------------
(***************************************************************************)
(* The kernel semaphore, the POSIX semaphore and the event queues for TLC, *)
(* one after the other: a behaviour uses the part it begins with.          *)
(***************************************************************************)
EXTENDS KernelSema, Sequences

CONSTANTS ValueMax, MaxPosixCalls,
          Queues, Waiters, NoQueue, MaxSent

VARIABLES part,
          listed, posixCount, posixThread, guest, posixCalls,
          equeue, eventWaiter, history

\* t2 and t3 have equal priority, t1 goes before them.
ThreadPriorities == [t \in Threads |-> IF t = CHOOSE u \in Threads : TRUE THEN 256 ELSE 700]

Idents == {"user", "ampr", "timer"}
Posix == INSTANCE PosixSema WITH MaxCalls <- MaxPosixCalls, count <- posixCount,
                                 thread <- posixThread, calls <- posixCalls
Event == INSTANCE EventQueue WITH waiter <- eventWaiter

ASSUME Posix!PosixSemaAssumption

posixVars == <<listed, posixCount, posixThread, guest, posixCalls>>
eventVars == <<equeue, eventWaiter, history>>
allVars == <<part, vars, posixVars, eventVars>>

MCInit == part \in {"sema", "posix", "event"} /\ Init /\ Posix!Init /\ Event!EventInit

\* User events are added as level or edge events and triggered by the guest,
\* timers by their deadline.
KindsOf(i) == CASE i = "user" -> {"level", "edge"} [] OTHER -> {i}
EventCalls(q) ==
    \/ \E t \in Waiters, room \in 1 .. 2, timed \in BOOLEAN : Event!WaitBegin(t, q, room, timed)
    \/ \E room \in 1 .. 2 : Event!Poll(q, room)
    \/ \E i \in Idents :
          \/ \E kind \in KindsOf(i) : Event!AddEvent(q, i, kind)
          \/ \E data \in 1 .. 2 : /\ i # "timer" /\ Len(history[q][i].sent) < MaxSent
                                  /\ Event!TriggerEvent(q, i, data)
          \/ Event!DeleteEvent(q, i) \/ Event!DeadlinePasses(q, i)
    \/ Event!Unlist(q) \/ Event!CloseQueue(q)
EventNext == (\E q \in Queues : EventCalls(q))
                \/ \E t \in Waiters : Event!WaitReturns(t) \/ Event!WaitTimesOut(t)

SemaStep == part = "sema" /\ Next /\ UNCHANGED <<part, posixVars, eventVars>>
PosixStep == part = "posix" /\ Posix!Next /\ UNCHANGED <<part, vars, eventVars>>
EventStep == part = "event" /\ EventNext /\ UNCHANGED <<part, vars, posixVars>>

MCSpec == MCInit /\ [][SemaStep \/ PosixStep \/ EventStep]_allVars /\ Fairness

\* No unit of a semaphore is lost or invented: the kernel's, whose waiters are
\* given what they asked for, and the POSIX one (SignalSema, sem_post).
UnitsKept == UnitsConserved /\ Posix!PosixSemaSound

\* Events of a queue are unique and what they were triggered with is handed out
\* once each and in order (AddEvent, TriggerEvent, GetTriggeredEvents).
EventsKept == Event!OneOfEach /\ Event!KeptInOrder
=============================================================================
