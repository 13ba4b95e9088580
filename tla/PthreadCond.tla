------------------------------- MODULE PthreadCond -------------------------------
(***************************************************************************)
(* Guest mutexes and condition variables of src/src/kernel/pthread.cpp.    *)
(*                                                                         *)
(* A mutex is an owner and a count under the host lock mutex.m, held only  *)
(* inside one step.  A condition variable has a host lock cond.m that a    *)
(* wait keeps from its registration until it sleeps: while it gives the    *)
(* guest mutex back, nobody can signal.  A signal wakes one thread by its  *)
(* cond_sequence, a broadcast all by the sequence of the variable; host    *)
(* notifications carry no state, a sleeping wait looks again after 10 ms   *)
(* at the latest.  Lock calls that fail change nothing and are not shown;  *)
(* nor are guest signal handlers that run inside a wait.                   *)
(***************************************************************************)
EXTENDS Integers, Sequences, FiniteSets, SequencesExt

CONSTANTS Threads, Mutexes, Conds, None,
          Recursive,   \* the mutexes of type 2
          MaxCalls     \* bound for each thread: its calls that take or wait

PthreadCondAssumption ==
    /\ IsFiniteSet(Threads)
    /\ Mutexes # {} /\ Conds # {} /\ None \notin Threads /\ None \notin Conds
    /\ Recursive \subseteq Mutexes
    /\ MaxCalls \in [Threads -> Nat]

VARIABLES owner, count,     \* of each mutex
          sequence,         \* of each condition variable
          waiters,          \* its waiters, first come first
          cond_lock,        \* the thread that holds cond.m
          cond_sequence,    \* of each thread
          waiting_cond,     \* of each thread
          wait,             \* wait[t]: the wait call of t, see Call
          calls,            \* calls made (bound only)
          depth,            \* history: what t locked minus what it unlocked
          wakes, oks        \* history: wakeups given, waits that returned Ok

mutexVars == <<owner, count>>
condVars == <<sequence, waiters, cond_sequence, waiting_cond>>
historyVars == <<depth, wakes, oks>>
vars == <<mutexVars, condVars, cond_lock, wait, calls, historyVars>>

\* expiry: "never" for PthreadCondWait, "now" for a zero timeout, "later" for
\* a deadline to come and "past" for one that is over.
Call == [phase : {"none", "unlock", "check", "asleep", "relock"},
         cond : Conds, mutex : Mutexes, expiry : {"never", "now", "later", "past"},
         sequence : Nat, thread_sequence : Nat, recurse : Nat, ok : BOOLEAN]

NoCall == [phase |-> "none", cond |-> CHOOSE c \in Conds : TRUE,
           mutex |-> CHOOSE m \in Mutexes : TRUE, expiry |-> "never",
           sequence |-> 0, thread_sequence |-> 0, recurse |-> 0, ok |-> FALSE]

Init ==
    /\ owner = [m \in Mutexes |-> None] /\ count = [m \in Mutexes |-> 0]
    /\ sequence = [c \in Conds |-> 0] /\ waiters = [c \in Conds |-> <<>>]
    /\ cond_lock = [c \in Conds |-> None]
    /\ cond_sequence = [t \in Threads |-> 0]
    /\ waiting_cond = [t \in Threads |-> None]
    /\ wait = [t \in Threads |-> NoCall]
    /\ calls = [t \in Threads |-> 0]
    /\ depth = [t \in Threads |-> [m \in Mutexes |-> 0]]
    /\ wakes = 0 /\ oks = 0

Free(t) == wait[t].phase = "none"
Counted(t) == calls[t] < MaxCalls[t] /\ calls' = [calls EXCEPT ![t] = @ + 1]
-----------------------------------------------------------------------------
(* Mutexes: lock, timed lock and try lock when they succeed; unlock. *)

MayTake(t, m) == owner[m] = None \/ (owner[m] = t /\ m \in Recursive)

NativeMutexLock(t, m) ==
    /\ Free(t)
    /\ MayTake(t, m)
    /\ owner' = [owner EXCEPT ![m] = t]
    /\ count' = [count EXCEPT ![m] = @ + 1]
    /\ depth' = [depth EXCEPT ![t][m] = @ + 1]
    /\ Counted(t)
    /\ UNCHANGED <<condVars, cond_lock, wait, wakes, oks>>

Owns(t, m) == owner[m] = t

NativeMutexUnlock(t, m) ==
    /\ Free(t) /\ Owns(t, m)
    /\ depth' = [depth EXCEPT ![t][m] = @ - 1]
    /\ count' = [count EXCEPT ![m] = @ - 1]
    /\ owner' = [owner EXCEPT ![m] = IF count[m] > 1 THEN t ELSE None]
    /\ UNCHANGED <<condVars, cond_lock, wait, calls, wakes, oks>>
-----------------------------------------------------------------------------
(* Waits *)

\* Register under cond.m, and keep it.
WaitBegin(t, c, m, expiry) ==
    /\ Free(t) /\ Owns(t, m)
    /\ cond_lock[c] = None
    /\ cond_lock' = [cond_lock EXCEPT ![c] = t]
    /\ waiters' = [waiters EXCEPT ![c] = Append(@, t)]
    /\ waiting_cond' = [waiting_cond EXCEPT ![t] = c]
    /\ wait' = [wait EXCEPT ![t] =
                  [NoCall EXCEPT !.phase = "unlock", !.cond = c, !.mutex = m, !.expiry = expiry,
                      !.sequence = sequence[c], !.thread_sequence = cond_sequence[t]]]
    /\ Counted(t)
    /\ UNCHANGED <<mutexVars, sequence, cond_sequence, historyVars>>

\* NativeMutexUnlock with recurse: all levels are given back.
SavedCount_One(t) == 1
SavedCount(t) == count[wait[t].mutex]

WaitUnlock(t) ==
    /\ wait[t].phase = "unlock"
    /\ wait' = [wait EXCEPT ![t].phase = "check", ![t].recurse = SavedCount(t)]
    /\ owner' = [owner EXCEPT ![wait[t].mutex] = None]
    /\ count' = [count EXCEPT ![wait[t].mutex] = 0]
    /\ UNCHANGED <<condVars, cond_lock, calls, historyVars>>

Ready(t) == sequence[wait[t].cond] # wait[t].sequence
            \/ cond_sequence[t] # wait[t].thread_sequence

\* The 10 ms poll: unlock cond.m and look again later.
WaitSleep_KeepsLock(t) ==
    /\ wait[t].phase = "check" /\ wait[t].expiry \in {"never", "later"} /\ ~Ready(t)
    /\ wait' = [wait EXCEPT ![t].phase = "asleep"]
    /\ UNCHANGED <<mutexVars, condVars, cond_lock, calls, historyVars>>
WaitSleep(t) ==
    /\ wait[t].phase = "check" /\ wait[t].expiry \in {"never", "later"} /\ ~Ready(t)
    /\ wait' = [wait EXCEPT ![t].phase = "asleep"]
    /\ cond_lock' = [cond_lock EXCEPT ![wait[t].cond] = None]
    /\ UNCHANGED <<mutexVars, condVars, calls, historyVars>>

WaitLook(t) ==
    /\ wait[t].phase = "asleep" /\ cond_lock[wait[t].cond] = None
    /\ wait' = [wait EXCEPT ![t].phase = "check"]
    /\ cond_lock' = [cond_lock EXCEPT ![wait[t].cond] = t]
    /\ UNCHANGED <<mutexVars, condVars, calls, historyVars>>

Deadline(t) ==
    /\ wait[t].expiry = "later"
    /\ wait' = [wait EXCEPT ![t].expiry = "past"]
    /\ UNCHANGED <<mutexVars, condVars, cond_lock, calls, historyVars>>

\* A late wakeup still counts: readiness is read again after the loop.
Outcome_TimeFirst(t) == wait[t].expiry \in {"never", "later"}
Outcome(t) == Ready(t) /\ wait[t].expiry # "now"

\* CondRemoveWaiter, which finds nothing when the thread was woken.
RemoveWaiter(t, c) ==
    /\ waiters' = [waiters EXCEPT ![c] = RemoveFirst(@, t)]
    /\ waiting_cond' = [waiting_cond EXCEPT ![t] = IF t \in ToSet(waiters[c]) /\ @ = c THEN None ELSE @]

WaitFinish(t) ==
    /\ wait[t].phase = "check"
    /\ Ready(t) \/ wait[t].expiry \in {"now", "past"}
    /\ wait' = [wait EXCEPT ![t].phase = "relock", ![t].ok = Outcome(t)]
    /\ RemoveWaiter(t, wait[t].cond)
    /\ cond_lock' = [cond_lock EXCEPT ![wait[t].cond] = None]
    /\ UNCHANGED <<mutexVars, sequence, cond_sequence, calls, historyVars>>

\* NativeMutexLockRecurse
WaitRelock(t) ==
    /\ wait[t].phase = "relock" /\ owner[wait[t].mutex] = None
    /\ owner' = [owner EXCEPT ![wait[t].mutex] = t]
    /\ count' = [count EXCEPT ![wait[t].mutex] = wait[t].recurse]
    /\ oks' = oks + IF wait[t].ok THEN 1 ELSE 0
    /\ wait' = [wait EXCEPT ![t] = NoCall]
    /\ UNCHANGED <<condVars, cond_lock, calls, depth, wakes>>
-----------------------------------------------------------------------------
(* Signals, by a thread that is not waiting.  They need cond.m. *)

Locked(c) == cond_lock[c] # None

ClearWaiting(c, ts) ==
    waiting_cond' = [u \in Threads |-> IF u \in ts /\ waiting_cond[u] = c THEN None
                                       ELSE waiting_cond[u]]

\* PthreadCondSignal wakes the front, PthreadCondSignalto a given waiter.
CondWakeWaiter(c, u) ==
    /\ ~Locked(c) /\ u \in ToSet(waiters[c])
    /\ waiters' = [waiters EXCEPT ![c] = RemoveFirst(@, u)]
    /\ ClearWaiting(c, {u})
    /\ cond_sequence' = [cond_sequence EXCEPT ![u] = @ + 1]
    /\ wakes' = wakes + 1
    /\ UNCHANGED <<mutexVars, sequence, cond_lock, wait, depth, oks>>

PthreadCondSignal(t, c) ==
    /\ Free(t) /\ Counted(t)
    /\ waiters[c] # <<>> /\ CondWakeWaiter(c, Head(waiters[c]))

PthreadCondSignalto(t, c, u) == Free(t) /\ Counted(t) /\ CondWakeWaiter(c, u)

Cleared(c) == <<>>

PthreadCondBroadcast(t, c) ==
    /\ Free(t) /\ Counted(t)
    /\ ~Locked(c) /\ waiters[c] # <<>>
    /\ sequence' = [sequence EXCEPT ![c] = @ + 1]
    /\ waiters' = [waiters EXCEPT ![c] = Cleared(c)]
    /\ ClearWaiting(c, ToSet(waiters[c]))
    /\ wakes' = wakes + Len(waiters[c])
    /\ UNCHANGED <<mutexVars, cond_lock, cond_sequence, wait, depth, oks>>
-----------------------------------------------------------------------------
WaitStep(t) ==
    \/ WaitUnlock(t) \/ WaitSleep(t) \/ WaitLook(t) \/ Deadline(t)
    \/ WaitFinish(t) \/ WaitRelock(t)

GuestStep(t) ==
    \/ \E m \in Mutexes : NativeMutexLock(t, m) \/ NativeMutexUnlock(t, m)
    \/ \E c \in Conds, m \in Mutexes, e \in {"never", "now", "later"} : WaitBegin(t, c, m, e)
    \/ \E c \in Conds : \/ PthreadCondSignal(t, c) \/ PthreadCondBroadcast(t, c)
                        \/ \E u \in Threads : PthreadCondSignalto(t, c, u)

Next == \E t \in Threads : WaitStep(t) \/ GuestStep(t)

Spec == Init /\ [][Next]_vars

\* Waits go on by themselves; the guest gives back what it locked, and its
\* calls are bounded.
Fairness ==
    \A t \in Threads : /\ WF_vars(WaitUnlock(t) \/ WaitSleep(t) \/ WaitRelock(t) \/ WaitFinish(t))
                       /\ WF_vars(Deadline(t)) /\ SF_vars(WaitLook(t))
                       /\ \A m \in Mutexes : WF_vars(NativeMutexUnlock(t, m))

FairSpec == Spec /\ Fairness
-----------------------------------------------------------------------------
(* Properties *)

TypeOK ==
    /\ owner \in [Mutexes -> Threads \cup {None}] /\ count \in [Mutexes -> Nat]
    /\ sequence \in [Conds -> Nat] /\ waiters \in [Conds -> Seq(Threads)]
    /\ cond_lock \in [Conds -> Threads \cup {None}]
    /\ cond_sequence \in [Threads -> Nat]
    /\ waiting_cond \in [Threads -> Conds \cup {None}]
    /\ wait \in [Threads -> Call] /\ calls \in [Threads -> Nat]
    /\ depth \in [Threads -> [Mutexes -> Nat]] /\ wakes \in Nat /\ oks \in Nat

InWait(t) == wait[t].phase \in {"unlock", "check", "asleep"}

\* A thread is in the list of a condition variable exactly while it waits
\* there and has not been woken, and only once: no signal goes to a thread
\* that does not need it, and none misses a thread that gave its mutex back.
\* PthreadWakeForSignal finds the same variable in waiting_cond.
WaitersExact ==
    /\ \A c \in Conds : IsInjective(waiters[c])
    /\ \A t \in Threads, c \in Conds :
          /\ t \in ToSet(waiters[c]) <=> InWait(t) /\ wait[t].cond = c /\ ~Ready(t)
          /\ t \in ToSet(waiters[c]) <=> waiting_cond[t] = c

\* Every wakeup is returned as one: a signal that meets a wait whose time is
\* over is not swallowed by a timeout.
WakeupsConserved ==
    wakes = oks + Cardinality({t \in Threads : \/ InWait(t) /\ Ready(t)
                                               \/ wait[t].phase = "relock" /\ wait[t].ok})

\* A guest thread that runs holds each mutex as often as it took it, also
\* after a wait that gave up all levels at once.
DepthKept ==
    \A t \in Threads : Free(t) =>
        \A m \in Mutexes : depth[t][m] = IF owner[m] = t THEN count[m] ELSE 0

\* Types, waiter lists and recursion levels of lock, unlock, wait and signal.
CondSound == TypeOK /\ WaitersExact /\ DepthKept

\* When the guest has made its calls, only waits that nobody woke and that
\* have no deadline are left: a woken or timed wait has returned with its mutex.
WokenReturns ==
    []<>\A t \in Threads :
          Free(t) \/ (InWait(t) /\ ~Ready(t) /\ wait[t].expiry = "never")
=============================================================================
