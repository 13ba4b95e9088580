------------------------------- MODULE PosixSema -------------------------------
(***************************************************************************)
(* The unnamed POSIX semaphores of src/src/kernel/semaphore.cpp            *)
(* (PosixSemPrivate): a count with sleeping threads and its copy in the    *)
(* guest's sem_t, which inlined guest code reads.                          *)
(*                                                                         *)
(* m_mutex is held by every section; a waiter gives it up while it sleeps  *)
(* and again while it looks for a guest signal, which may keep it for      *)
(* long.  A wait without a timeout sleeps for 10 ms at most.  As POSIX     *)
(* asks, guests neither destroy nor re-initialise a semaphore in use.      *)
(***************************************************************************)
EXTENDS Integers, FiniteSets

CONSTANTS Threads,
          ValueMax,     \* POSIX_SEM_VALUE_MAX
          MaxCalls      \* bound: calls begun

PosixSemaAssumption ==
    IsFiniteSet(Threads) /\ ValueMax \in Nat \ {0} /\ MaxCalls \in Nat

VARIABLES listed,     \* g_posix_sems has an object for the sem_t
          count,      \* m_count
          thread,     \* the wait each thread is in
          guest,      \* PosixSemGuest: has_waiters and count
          calls

posixVars == <<listed, count, thread, guest, calls>>

Idle == [pc |-> "idle", timed |-> FALSE]

Init ==
    /\ listed = FALSE /\ count = 0 /\ calls = 0
    /\ thread = [t \in Threads |-> Idle]
    /\ guest = [hasWaiters |-> FALSE, count |-> 0]

At(pc) == {t \in Threads : thread[t].pc = pc}
Waiting == {t \in Threads : thread[t].pc # "idle"}     \* m_waiters

SyncGuest == guest' = [hasWaiters |-> \E t \in Threads : thread'[t].pc # "idle",
                       count |-> count']

MayCall == calls < MaxCalls /\ calls' = calls + 1

SemInit(value) ==
    /\ MayCall /\ Waiting = {}
    /\ listed' = TRUE /\ count' = value
    /\ UNCHANGED thread /\ SyncGuest

SemDestroy ==
    /\ MayCall /\ Waiting = {} /\ listed
    /\ listed' = FALSE /\ guest' = [hasWaiters |-> FALSE, count |-> 0]
    /\ count' = 0
    /\ UNCHANGED thread

\* The head of the loop in Wait; m_waiters is without the caller here.
Looks(t, w, late) ==
    /\ IF count > 0
       THEN /\ count' = count - 1
            /\ thread' = [thread EXCEPT ![t] = Idle]
       ELSE /\ thread' = [thread EXCEPT ![t] = IF late THEN Idle ELSE [w EXCEPT !.pc = "asleep"]]
            /\ UNCHANGED count
    /\ SyncGuest
    /\ UNCHANGED listed

\* sem_wait and sem_timedwait; sem_trywait does what a wait without time does.
Wait(t, timed, late) ==
    /\ MayCall /\ listed /\ thread[t] = Idle /\ (late => timed)
    /\ Looks(t, [pc |-> "asleep", timed |-> timed], late)

\* The thread leaves m_cond_var and looks for a signal without m_mutex: it was
\* signalled (it is awake already), or its time, or 10 ms, are over.
TimePasses(t) ==
    /\ thread[t].pc = "asleep"
    /\ thread' = [thread EXCEPT ![t].pc = "awake"]
    /\ UNCHANGED <<listed, count, guest, calls>>

Resumes(t, late) ==
    /\ thread[t].pc = "awake" /\ (late => thread[t].timed)
    /\ Looks(t, thread[t], late)
    /\ UNCHANGED calls

\* Post wakes one thread that sleeps, if there is one.
Signals_First(t) == thread[t].pc = "asleep" /\ count = 0
Signals(t) == thread[t].pc = "asleep"
Post ==
    /\ MayCall /\ listed
    /\ IF count = ValueMax THEN UNCHANGED <<count, thread, guest>>   \* EOVERFLOW
       ELSE /\ count' = count + 1
            /\ \/ \E t \in Threads : Signals(t) /\ thread' = [thread EXCEPT ![t].pc = "awake"]
               \/ (~\E t \in Threads : Signals(t)) /\ UNCHANGED thread
            /\ SyncGuest
    /\ UNCHANGED listed

InWait(t) == \E late \in BOOLEAN : Resumes(t, late)
Next ==
    \/ \E value \in 0 .. ValueMax : SemInit(value)
    \/ SemDestroy \/ Post
    \/ \E t \in Threads :
          \/ \E timed, late \in BOOLEAN : Wait(t, timed, late)
          \/ TimePasses(t) \/ InWait(t)

Spec == Init /\ [][Next]_posixVars
-----------------------------------------------------------------------------
\* No post is lost on the sleepers: while one sleeps, there are as many threads
\* awake in Wait as there are units, even if those that were woken are late
\* (they handle a signal) or find that sem_trywait was faster.
PostsWake == At("asleep") # {} => Cardinality(At("awake")) >= count

\* What guest code reads in its sem_t, without a lock, is what holds (SyncGuest on every way out of Wait, TryWait and Post).
SemaKept ==
    /\ count \in 0 .. ValueMax
    /\ listed => guest = [hasWaiters |-> Waiting # {}, count |-> count]

PosixSemaSound == PostsWake /\ SemaKept
=============================================================================
