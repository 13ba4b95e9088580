------------------------------ MODULE GuestThreads ------------------------------
(***************************************************************************)
(* Guest threads from PthreadCreate to the reuse of their records and      *)
(* stacks (src/src/kernel/pthread.cpp): the pool of records, the cache of  *)
(* guest stacks, the host thread that runs a guest thread, join, detach    *)
(* and cancel, and the background thread that reclaims detached threads.   *)
(***************************************************************************)
EXTENDS Naturals, FiniteSets, FiniteSetsExt

CONSTANTS Creators,    \* the guest's threads that create and join others
          Sizes,       \* map_size of the stacks the guest asks for
          StackSpace,  \* g_guest_stack_last before the first stack
          MaxRecords,  \* bound on the records of the pool
          MaxCreates   \* bound on the calls of PthreadCreate

Records == 1 .. MaxRecords
NoStack == [base |-> 0, size |-> 0]

VARIABLES pool,     \* number of records in m_threads
          record,   \* their flags and the stack their attributes name
          host,     \* the host thread of each record
          pool_mutex, \* FreeDetachedThreads holds the pool's mutex
          stack_last, \* g_guest_stack_last
          cache,    \* g_guest_stack_cache
          handle,   \* what the guest may still do with the thread
          caller,   \* where each creator, and the reclaiming thread, is
          creates

vars == <<pool, record, host, pool_mutex, stack_last, cache, handle, caller, creates>>

Reclaimer == "FreeDetachedThreads"
Callers == Creators \cup {Reclaimer}

GuestThreadsAssumption ==
    /\ Sizes \subseteq Nat \ {0} /\ StackSpace \in Nat /\ MaxRecords \in Nat \ {0}
    /\ Reclaimer \notin Creators

\* A host thread starts, runs the guest's entry, cleans up, has set almost_done
\* and has ended: then it waits to be joined.
Alive == {"starting", "guest", "cleanup", "leaving"}

Idle == [at |-> "idle", on |-> 1, size |-> 0, detach |-> FALSE]

Init ==
    /\ pool = 0
    /\ record = [r \in Records |-> [free |-> TRUE, detached |-> FALSE, almost_done |-> FALSE,
                                    stack |-> NoStack, cancelled |-> FALSE]]
    /\ host = [r \in Records |-> "none"]
    /\ pool_mutex = FALSE
    /\ stack_last = StackSpace /\ cache = {}
    /\ handle = [r \in Records |-> "none"]
    /\ caller = [c \in Callers |-> Idle]
    /\ creates = 0

Goto(c, at) == caller' = [caller EXCEPT ![c].at = at]
Return(c) == caller' = [caller EXCEPT ![c] = Idle]

-----------------------------------------------------------------------------
(* PthreadCreate *)

\* PthreadPool::Create takes the first free record, or makes one.  The
\* attributes of its last thread make room for a copy of those asked for.
FirstFree == IF \E r \in 1 .. pool : record[r].free
               THEN Min({r \in 1 .. pool : record[r].free}) ELSE pool + 1

TakeRecord(c, size, detach) ==
    /\ caller[c].at = "idle" /\ creates < MaxCreates /\ ~pool_mutex
    /\ FirstFree <= MaxRecords
    /\ pool' = IF FirstFree > pool THEN FirstFree ELSE pool
    /\ record' = [record EXCEPT ![FirstFree].free = FALSE, ![FirstFree].stack = NoStack]
    /\ caller' = [caller EXCEPT ![c] = [at |-> "stack", on |-> FirstFree,
                                        size |-> size, detach |-> detach]]
    /\ creates' = creates + 1
    /\ UNCHANGED <<host, pool_mutex, stack_last, cache, handle>>

\* CreateGuestStack under g_guest_stack_mutex: a cached stack of the same size,
\* or the next addresses downwards.
TakeStack(c) ==
    LET size == caller[c].size
        fitting == {s \in cache : s.size = size}
    IN  /\ caller[c].at = "stack"
        /\ \/ \E s \in fitting :
                /\ cache' = cache \ {s}
                /\ record' = [record EXCEPT ![caller[c].on].stack = s]
                /\ Goto(c, "protect")
                /\ UNCHANGED stack_last
           \/ /\ fitting = {} /\ size <= stack_last
              /\ stack_last' = stack_last - size
              /\ record' = [record EXCEPT ![caller[c].on].stack =
                                [base |-> stack_last - size, size |-> size]]
              /\ Goto(c, "protect")
              /\ UNCHANGED cache
           \/ /\ fitting = {} /\ size > stack_last
              /\ Goto(c, "failed")
              /\ UNCHANGED <<cache, stack_last, record>>
        /\ UNCHANGED <<pool, host, pool_mutex, handle, creates>>

\* Mapping the stack or its guard page may fail: it is unmapped and the
\* attributes name none.  Otherwise the record is filled.
FillRecord(c) ==
    /\ caller[c].at = "protect"
    /\ \/ /\ record' = [record EXCEPT ![caller[c].on].almost_done = FALSE,
                                      ![caller[c].on].detached = caller[c].detach,
                                      ![caller[c].on].cancelled = FALSE]
          /\ Goto(c, "start")
       \/ /\ record' = [record EXCEPT ![caller[c].on].stack = NoStack]
          /\ Goto(c, "failed")
    /\ UNCHANGED <<pool, host, pool_mutex, stack_last, cache, handle, creates>>

\* FreeGuestStack
Cached(r) == IF record[r].stack = NoStack THEN cache ELSE cache \cup {record[r].stack}

\* pthread_create of the host
StartHost(c) ==
    LET r == caller[c].on
    IN  /\ caller[c].at = "start"
        /\ \/ /\ host' = [host EXCEPT ![r] = "starting"]
              /\ handle' = [handle EXCEPT ![r] = IF caller[c].detach THEN "none" ELSE "guest"]
              /\ Return(c)
              /\ UNCHANGED <<record, cache>>
           \/ /\ cache' = Cached(r)
              /\ record' = [record EXCEPT ![r].stack = NoStack]
              /\ Goto(c, "failed")
              /\ UNCHANGED <<host, handle>>
        /\ UNCHANGED <<pool, pool_mutex, stack_last, creates>>

GiveUp(c) ==
    /\ caller[c].at = "failed"
    /\ record' = [record EXCEPT ![caller[c].on].free = TRUE]
    /\ Return(c)
    /\ UNCHANGED <<pool, host, pool_mutex, stack_last, cache, handle, creates>>

-----------------------------------------------------------------------------
(* The thread itself: RunThread and CleanupThread *)

\* Before RunThread has pushed CleanupThread, a cancelled thread ends without it.
RunThread(r) ==
    /\ host[r] = "starting"
    /\ \/ host' = [host EXCEPT ![r] = "guest"]
       \/ record[r].cancelled /\ host' = [host EXCEPT ![r] = "ended"]
    /\ UNCHANGED <<pool, record, pool_mutex, stack_last, cache, handle, caller, creates>>

\* The guest's entry returns, exits, or is cancelled.
EntryEnds(r) ==
    /\ host[r] = "guest"
    /\ host' = [host EXCEPT ![r] = "cleanup"]
    /\ UNCHANGED <<pool, record, pool_mutex, stack_last, cache, handle, caller, creates>>

\* CleanupThread sets almost_done last.
CleanupThread(r) ==
    /\ host[r] = "cleanup"
    /\ record' = [record EXCEPT ![r].almost_done = TRUE]
    /\ host' = [host EXCEPT ![r] = "leaving"]
    /\ UNCHANGED <<pool, pool_mutex, stack_last, cache, handle, caller, creates>>

HostEnds(r) ==
    /\ host[r] = "leaving"
    /\ host' = [host EXCEPT ![r] = "ended"]
    /\ UNCHANGED <<pool, record, pool_mutex, stack_last, cache, handle, caller, creates>>

-----------------------------------------------------------------------------
(* PthreadDetach, PthreadCancel and PthreadJoin: a guest detaches or joins a *)
(* thread it has created, once.                                              *)

\* Another thread, or the thread itself while it runs, detaches it.
PthreadDetach(r) ==
    /\ handle[r] = "guest"
    /\ record' = [record EXCEPT ![r].detached = TRUE]
    /\ handle' = [handle EXCEPT ![r] = "none"]
    /\ UNCHANGED <<pool, host, pool_mutex, stack_last, cache, caller, creates>>

PthreadCancel(r) ==
    /\ handle[r] = "guest" /\ ~record[r].cancelled
    /\ record' = [record EXCEPT ![r].cancelled = TRUE]
    /\ UNCHANGED <<pool, host, pool_mutex, stack_last, cache, handle, caller, creates>>

JoinBegin(c, r) ==
    /\ caller[c].at = "idle" /\ handle[r] = "guest"
    /\ handle' = [handle EXCEPT ![r] = "none"]
    /\ caller' = [caller EXCEPT ![c].at = "join", ![c].on = r]
    /\ UNCHANGED <<pool, record, host, pool_mutex, stack_last, cache, creates>>

\* Mutant: what pthread_join returned is not looked at.
HostJoined_Failed(c) ==
    /\ caller[c].at = "join" /\ host[caller[c].on] # "none"
    /\ Goto(c, "joined")
    /\ UNCHANGED <<pool, record, host, pool_mutex, stack_last, cache, handle, creates>>

\* pthread_join of the host returns when the host thread has ended.
HostJoined(c) ==
    /\ caller[c].at = "join" /\ host[caller[c].on] = "ended"
    /\ host' = [host EXCEPT ![caller[c].on] = "none"]
    /\ Goto(c, "joined")
    /\ UNCHANGED <<pool, record, pool_mutex, stack_last, cache, handle, creates>>

FreeStack(c) ==
    /\ caller[c].at = "joined"
    /\ cache' = Cached(caller[c].on)
    /\ record' = [record EXCEPT ![caller[c].on].stack = NoStack]
    /\ Goto(c, "release")
    /\ UNCHANGED <<pool, host, pool_mutex, stack_last, handle, creates>>

\* FreeDetachedThreads goes on with the next record and ends after the last.
Advance ==
    IF caller[Reclaimer].on < pool
      THEN /\ caller' = [caller EXCEPT ![Reclaimer].at = "look", ![Reclaimer].on = @ + 1]
           /\ UNCHANGED pool_mutex
      ELSE Return(Reclaimer) /\ pool_mutex' = FALSE

ReleaseRecord(c) ==
    /\ caller[c].at = "release"
    /\ record' = [record EXCEPT ![caller[c].on].almost_done = FALSE,
                                ![caller[c].on].free = TRUE]
    /\ IF c = Reclaimer THEN Advance ELSE Return(c) /\ UNCHANGED pool_mutex
    /\ UNCHANGED <<pool, host, stack_last, cache, handle, creates>>

-----------------------------------------------------------------------------
(* FreeDetachedThreads, every 10 ms, under the pool's mutex *)

ReclaimBegin ==
    /\ caller[Reclaimer].at = "idle" /\ ~pool_mutex /\ pool > 0
    /\ pool_mutex' = TRUE
    /\ caller' = [caller EXCEPT ![Reclaimer].at = "look", ![Reclaimer].on = 1]
    /\ UNCHANGED <<pool, record, host, stack_last, cache, handle, creates>>

\* Mutant: detached threads are joined while they run.
Reclaimable_Running(r) == record[r].detached /\ ~record[r].free

Reclaimable(r) == record[r].detached /\ record[r].almost_done /\ ~record[r].free

ReclaimLook ==
    /\ caller[Reclaimer].at = "look"
    /\ IF Reclaimable(caller[Reclaimer].on)
         THEN Goto(Reclaimer, "join") /\ UNCHANGED pool_mutex
         ELSE Advance
    /\ UNCHANGED <<pool, record, host, stack_last, cache, handle, creates>>

-----------------------------------------------------------------------------
CreateStep(c) ==
    TakeStack(c) \/ FillRecord(c) \/ StartHost(c) \/ GiveUp(c)
JoinStep(c) == HostJoined(c) \/ FreeStack(c) \/ ReleaseRecord(c)
ThreadStep(r) == RunThread(r) \/ CleanupThread(r) \/ HostEnds(r)
ReclaimStep == ReclaimBegin \/ ReclaimLook \/ JoinStep(Reclaimer)

Next ==
    \/ \E c \in Creators :
          \/ \E size \in Sizes, detach \in BOOLEAN : TakeRecord(c, size, detach)
          \/ CreateStep(c) \/ JoinStep(c)
          \/ \E r \in 1 .. pool : JoinBegin(c, r)
    \/ \E r \in 1 .. pool : ThreadStep(r) \/ EntryEnds(r) \/ PthreadDetach(r) \/ PthreadCancel(r)
    \/ ReclaimStep

\* The host schedules every thread; nothing makes a guest's entry end.
Fairness ==
    /\ \A c \in Creators : WF_vars(CreateStep(c) \/ JoinStep(c))
    /\ \A r \in Records : WF_vars(ThreadStep(r))
    /\ WF_vars(ReclaimStep)

Spec == Init /\ [][Next]_vars
FairSpec == Spec /\ Fairness

-----------------------------------------------------------------------------
TypeOK ==
    /\ pool \in 0 .. MaxRecords /\ pool_mutex \in BOOLEAN
    /\ \A r \in Records : host[r] \in Alive \cup {"none", "ended"}
    /\ stack_last \in 0 .. StackSpace

Bytes(s) == s.base .. s.base + s.size - 1

\* The stack of a thread that lives, from before it starts until it has been
\* joined, is its own: no other thread has a byte of it and no new thread can
\* be given it (CreateGuestStack, FreeGuestStack).
StacksApart ==
    LET users == {r \in Records : host[r] # "none"}
    IN  /\ \A r \in users : record[r].stack # NoStack
        /\ \A r \in users, q \in Records :
              r # q => Bytes(record[r].stack) \cap Bytes(record[q].stack) = {}
        /\ \A r \in users, s \in cache : Bytes(record[r].stack) \cap Bytes(s) = {}

\* A record whose thread lives, has not been joined, or is on its way to be
\* given back is not handed out again (PthreadPool::Create, PthreadJoin).
RecordsKept ==
    /\ \A r \in Records : host[r] # "none" => ~record[r].free
    /\ \A c, d \in Callers :
          /\ c # d /\ caller[c].on = caller[d].on
          /\ caller[c].at \notin {"idle", "look"}
          => caller[d].at \in {"idle", "look"}

ThreadsSound == TypeOK /\ StacksApart /\ RecordsKept

\* No detached thread that has cleaned up waits to be reclaimed, and the
\* pool's mutex, which creating a thread needs, is free.
Reclaimed ==
    /\ ~pool_mutex
    /\ \A r \in Records : ~(record[r].detached /\ record[r].almost_done)

\* When the guest has made its calls everything detached is reclaimed, also a
\* thread that detaches itself at the last moment, and reclaiming never waits
\* for a guest's entry to end (PthreadDetach, FreeDetachedThreads).
ThreadsReclaimed == []<>Reclaimed
=============================================================================
