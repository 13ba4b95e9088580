------------------------------ MODULE PthreadOnce ------------------------------
(***************************************************************************)
(* pthread_once (src/src/kernel/pthread.cpp): threads call it with one     *)
(* control; the first runs the routine, those that come meanwhile mark the *)
(* control and look at it again after a notification or a slice of 10 ms.  *)
(***************************************************************************)
EXTENDS Naturals

CONSTANTS Threads,
          MaxCalls  \* bound on each thread's calls

VARIABLES once,     \* once->state
          at,       \* where each thread is in pthread_once
          ran,      \* how often the routine has begun
          finished, \* and how often it has ended
          calls

vars == <<once, at, ran, finished, calls>>

Init ==
    /\ once = "NEEDS_INIT"
    /\ at = [t \in Threads |-> "out"]
    /\ ran = 0 /\ finished = 0
    /\ calls = [t \in Threads |-> 0]

Goto(t, place) == at' = [at EXCEPT ![t] = place]

\* Under g_pthread_once_mutex: the state decides, and one that another thread
\* runs the routine in is marked before the wait.
Look(t) ==
    \/ once = "DONE_INIT" /\ Goto(t, "returned") /\ UNCHANGED <<once, ran>>
    \/ once = "NEEDS_INIT" /\ once' = "IN_PROGRESS" /\ Goto(t, "routine") /\ ran' = ran + 1
    \/ /\ once \in {"IN_PROGRESS", "WAIT"}
       /\ once' = "WAIT" /\ Goto(t, "waiting")
       /\ UNCHANGED ran

Call(t) ==
    /\ at[t] \in {"out", "returned"} /\ calls[t] < MaxCalls
    /\ calls' = [calls EXCEPT ![t] = @ + 1]
    /\ Look(t)
    /\ UNCHANGED finished

\* While the mark stands, the wait goes on.
WaitEnds(t) ==
    /\ at[t] = "waiting" /\ once # "WAIT"
    /\ Look(t)
    /\ UNCHANGED <<finished, calls>>

RoutineEnds(t) ==
    /\ at[t] = "routine"
    /\ Goto(t, "ran") /\ finished' = finished + 1
    /\ UNCHANGED <<once, ran, calls>>

\* The mutex is taken again; mutant: a marked control is handed to one of
\* the waiters.
AfterRoutine_Again == IF once = "WAIT" THEN "NEEDS_INIT" ELSE "DONE_INIT"
AfterRoutine == "DONE_INIT"
Done(t) ==
    /\ at[t] = "ran"
    /\ once' = AfterRoutine /\ Goto(t, "returned")
    /\ UNCHANGED <<ran, finished, calls>>

Next == \E t \in Threads : Call(t) \/ WaitEnds(t) \/ RoutineEnds(t) \/ Done(t)

\* The guest's routine ends.
Fairness == \A t \in Threads : WF_vars(WaitEnds(t) \/ RoutineEnds(t) \/ Done(t))

Spec == Init /\ [][Next]_vars
FairSpec == Spec /\ Fairness

-----------------------------------------------------------------------------
\* The routine runs once, and no call returns before it has ended.
OnceSound ==
    /\ ran <= 1
    /\ \A t \in Threads : at[t] = "returned" => finished = 1

\* Nobody is inside pthread_once.
AllReturned == \A t \in Threads : at[t] \in {"out", "returned"}

\* Every call returns when the routine ends, also those that marked the
\* control when the routine had just ended.
OnceReturns == []<>AllReturned
=============================================================================
