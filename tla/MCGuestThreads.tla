----------------------------- MODULE MCGuestThreads -----------------------------
(***************************************************************************)
(* The guest's mutexes and condition variables, its threads, their keys,   *)
(* pthread_once, fibers and the movie player's threads for TLC, one after  *)
(* the other: a behaviour uses the part it begins with.                    *)
(***************************************************************************)
EXTENDS Fibers, AvPlayer

CONSTANTS Threads, Mutexes, Conds, None, Recursive, MaxCalls,
          Creators, Sizes, StackSpace, MaxRecords, MaxCreates,
          KeyThreads, NoData, KeysMax, DestructorIterations, MaxMade, MaxSet,
          MaxOnceCalls

VARIABLES part,
          mutexOwner, count, sequence, waiters, cond_lock, cond_sequence, waiting_cond,
          wait, calls, depth, wakes, oks,
          pool, record, host, pool_mutex, stack_last, cache, handle, caller, creates,
          key, ending, made, set, destroyed,
          once, inOnce, ran, finished, onceCalls

\* One thread can take the mutex twice and then wait.
CallsOfEach == [t \in Threads |-> IF t = CHOOSE u \in Threads : TRUE THEN 3 ELSE 2]

\* A stream that the end of the audio cuts short or not, and one that is looped;
\* the video codec keeps a frame back.
Movie(frames, again, mode) == [file |-> frames, rounds |-> again, sync |-> mode]
Movies == {Movie(<<"video", "audio", "video">>, 0, 0), Movie(<<"audio", "video">>, 0, 1),
           Movie(<<"video", "video">>, 1, 0)}
CodecDelay == [k \in {"video", "audio"} |-> IF k = "video" THEN 1 ELSE 0]

Cond == INSTANCE PthreadCond WITH owner <- mutexOwner
Pool == INSTANCE GuestThreads
Data == INSTANCE PthreadKeys WITH Threads <- KeyThreads
Once == INSTANCE PthreadOnce WITH MaxCalls <- MaxOnceCalls, at <- inOnce, calls <- onceCalls

ASSUME Cond!PthreadCondAssumption /\ Pool!GuestThreadsAssumption /\ AvPlayerAssumption

condVars == <<mutexOwner, count, sequence, waiters, cond_lock, cond_sequence, waiting_cond,
              wait, calls, depth, wakes, oks>>
poolVars == <<pool, record, host, pool_mutex, stack_last, cache, handle, caller, creates>>
keyVars == <<key, ending, made, set, destroyed>>
onceVars == <<once, inOnce, ran, finished, onceCalls>>
allVars == <<part, condVars, poolVars, keyVars, onceVars, playerVars, fiberVars>>

MCInit == /\ part \in {"cond", "pool", "data", "once", "play", "fiber"}
          /\ Cond!Init /\ Pool!Init /\ Data!Init /\ Once!Init /\ Init /\ FiberInit
          /\ part # "play" => source = CHOOSE s \in Sources : TRUE

CondStep == part = "cond" /\ Cond!Next /\ UNCHANGED <<part, poolVars, keyVars, onceVars, playerVars, fiberVars>>
PoolStep == part = "pool" /\ Pool!Next /\ UNCHANGED <<part, condVars, keyVars, onceVars, playerVars, fiberVars>>
DataStep == part = "data" /\ Data!Next /\ UNCHANGED <<part, condVars, poolVars, onceVars, playerVars, fiberVars>>
OnceStep == part = "once" /\ Once!Next /\ UNCHANGED <<part, condVars, poolVars, keyVars, playerVars, fiberVars>>
PlayStep == part = "play" /\ Next /\ UNCHANGED <<part, condVars, poolVars, keyVars, onceVars, fiberVars>>

FiberStep == /\ part = "fiber" /\ FiberNext
             /\ UNCHANGED <<part, condVars, poolVars, keyVars, onceVars, playerVars>>

PlayRuns == part = "play" /\ Runs /\ UNCHANGED <<part, condVars, poolVars, keyVars, onceVars, fiberVars>>

MCSpec == /\ MCInit /\ [][CondStep \/ PoolStep \/ DataStep \/ OnceStep \/ PlayStep \/ FiberStep]_allVars
          /\ Cond!Fairness /\ Pool!Fairness /\ Once!Fairness /\ WF_allVars(PlayRuns)

CondSound == Cond!CondSound
WakeupsConserved == Cond!WakeupsConserved
WokenReturns == Cond!WokenReturns
ThreadsSound == Pool!ThreadsSound

\* Keys and pthread_once: the two in one formula.
KeysAndOnceSound == Data!KeysSound /\ Once!OnceSound

\* Detached threads are reclaimed, calls of pthread_once return, movies end: in one
\* formula, for TLC's sake (Pool!ThreadsReclaimed, Once!OnceReturns, PlayerSettles).
ThreadsSettle == []<>(Pool!Reclaimed /\ Once!AllReturned /\ Settled)
=============================================================================
