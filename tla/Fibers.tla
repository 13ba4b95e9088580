-------------------------------- MODULE Fibers --------------------------------
(***************************************************************************)
(* The guest's fibers, namespace Fiber of src/src/libs/libKernel.cpp: a    *)
(* host thread runs a fiber, switches from it to another one or returns to *)
(* its own stack, and a fiber may go on later on another thread.           *)
(*                                                                         *)
(* A fiber's state is an atomic word, its owner an entry of a map with a   *)
(* mutex: they change one after the other.  The fiber that is left becomes *)
(* IDLE only when the thread is on its new stack (FiberDeferIdle).  Steps  *)
(* of a thread that nobody else can see are joined to the one before.      *)
(***************************************************************************)
EXTENDS Integers

CONSTANTS FiberThreads, FiberObjects, NoOne,
          MaxFiberCalls     \* bound: calls of the guest

VARIABLES state,     \* FiberObject::state
          owner,     \* g_fiber_owner_thread
          saved,     \* context_valid: the fiber goes on where it was left
          on,        \* the thread: whose stack it is on, and its thread-local variables
          repaired,  \* history: FiberRepairStaleRunningOnThisThread has taken a fiber
          fiberCalls

fiberVars == <<state, owner, saved, on, repaired, fiberCalls>>

FiberInit ==
    /\ state = [f \in FiberObjects |-> "idle"] /\ owner = [f \in FiberObjects |-> NoOne]
    /\ saved = [f \in FiberObjects |-> FALSE]
    /\ on = [t \in FiberThreads |->
                [pc |-> "guest", stack |-> NoOne, current |-> NoOne, pending |-> NoOne,
                 target |-> NoOne, resumes |-> FALSE]]
    /\ repaired = FALSE /\ fiberCalls = 0

\* A thread goes on at pc, on a stack, with its thread-local variables.
Moves(t, pc, stack, current, pending, target, resumes) ==
    [on EXCEPT ![t] = [pc |-> pc, stack |-> stack, current |-> current, pending |-> pending,
                       target |-> target, resumes |-> resumes]]
\* It stays on its stack.
Goes(t, pc, target) ==
    Moves(t, pc, on[t].stack, on[t].current, on[t].pending, target, on[t].resumes)
GoesOn(t) == Goes(t, "guest", NoOne)

MayCallFiber == fiberCalls < MaxFiberCalls /\ fiberCalls' = fiberCalls + 1

\* FiberInitialize, on a fiber that has ended and that no thread uses.
Initialize(f) ==
    /\ MayCallFiber /\ state[f] = "terminated" /\ \A t \in FiberThreads : on[t].stack # f
    /\ state' = [state EXCEPT ![f] = "idle"] /\ saved' = [saved EXCEPT ![f] = FALSE]
    /\ UNCHANGED <<owner, on, repaired>>

\* FiberFinalize.
Finalize(f) ==
    /\ MayCallFiber /\ state[f] = "idle"
    /\ state' = [state EXCEPT ![f] = "terminated"]
    /\ owner' = [owner EXCEPT ![f] = NoOne]
    /\ UNCHANGED <<saved, on, repaired>>

Takes(t, f) ==
    /\ state' = [state EXCEPT ![f] = "running"]
    /\ on' = Goes(t, "entered", f)

\* FiberRun; the fiber is taken by the exchange of its state.
Run(t, f) ==
    /\ MayCallFiber /\ on[t].pc = "guest" /\ on[t].current = NoOne
    /\ IF state[f] = "idle" THEN Takes(t, f) ELSE UNCHANGED <<state, on>>
    /\ UNCHANGED <<owner, saved, repaired>>

\* FiberSwitch; FiberWaitAndEnterRunning waits while the fiber runs elsewhere.
Switch(t, f) ==
    /\ MayCallFiber /\ on[t].pc = "guest" /\ on[t].current # NoOne
    /\ \/ state[f] = "idle" /\ Takes(t, f)
       \/ state[f] = "running" /\ on' = Goes(t, "waits", f) /\ UNCHANGED state
       \/ state[f] = "terminated" /\ UNCHANGED <<state, on>>
    /\ UNCHANGED <<owner, saved, repaired>>

WaitEnds(t) ==
    /\ on[t].pc = "waits"
    /\ \/ state[on[t].target] = "idle" /\ Takes(t, on[t].target)
       \/ state[on[t].target] = "terminated" /\ on' = GoesOn(t) /\ UNCHANGED state
    /\ UNCHANGED <<owner, saved, repaired, fiberCalls>>

\* 5 ms are over: a running fiber without an owner is taken for a stale one.
TimeOver(t) ==
    /\ on[t].pc = "waits" /\ state[on[t].target] = "running"
    /\ on' = IF on[t].target # on[t].current THEN Goes(t, "judges", on[t].target) ELSE GoesOn(t)
    /\ UNCHANGED <<state, owner, saved, repaired, fiberCalls>>
Judges(t) ==
    /\ on[t].pc = "judges"
    /\ on' = IF owner[on[t].target] = NoOne THEN Goes(t, "repairs", on[t].target) ELSE GoesOn(t)
    /\ UNCHANGED <<state, owner, saved, repaired, fiberCalls>>

Repair(t) ==
    /\ on[t].pc = "repairs"
    /\ IF state[on[t].target] = "running"
       THEN /\ state' = [state EXCEPT ![on[t].target] = "idle"]
            /\ on' = Goes(t, "repaired", on[t].target) /\ repaired' = TRUE
       ELSE on' = GoesOn(t) /\ UNCHANGED <<state, repaired>>
    /\ UNCHANGED <<owner, saved, fiberCalls>>

RepairEnds(t) ==
    /\ on[t].pc = "repaired"
    /\ owner' = [owner EXCEPT ![on[t].target] = NoOne]
    /\ on' = Goes(t, "waits", on[t].target)
    /\ UNCHANGED <<state, saved, repaired, fiberCalls>>

\* After FiberSetOwner: the context of the caller is saved, its fiber is deferred
\* and the thread is on the target's stack.
Leaving_Late(t) == NoOne
Leaving(t) == on[t].current
Saves(t) == saved' = IF on[t].current = NoOne THEN saved ELSE [saved EXCEPT ![on[t].current] = TRUE]
Jumps(t) ==
    /\ on[t].pc = "entered"
    /\ owner' = [owner EXCEPT ![on[t].target] = t]
    /\ Saves(t)
    /\ on' = Moves(t, "landed", on[t].target, on[t].current, Leaving(t), NoOne,
                   saved[on[t].target])
    /\ UNCHANGED <<state, repaired, fiberCalls>>

\* FiberReturnToThread.
ReturnToThread(t) ==
    /\ MayCallFiber /\ on[t].pc = "guest" /\ on[t].current # NoOne
    /\ Saves(t)
    /\ on' = Moves(t, "landed", NoOne, on[t].current, on[t].current, NoOne, FALSE)
    /\ UNCHANGED <<state, owner, repaired>>

\* The fiber's entry returns: FiberStartTrampoline.
EntryReturns(t) ==
    /\ on[t].pc = "guest" /\ on[t].current # NoOne
    /\ state' = [state EXCEPT ![on[t].current] = "terminated"]
    /\ on' = Goes(t, "ends", NoOne)
    /\ UNCHANGED <<owner, saved, repaired, fiberCalls>>
Ends(t) ==
    /\ on[t].pc = "ends"
    /\ owner' = [owner EXCEPT ![on[t].current] = NoOne]
    /\ saved' = [saved EXCEPT ![on[t].current] = FALSE]
    /\ on' = Moves(t, "landed", NoOne, NoOne, NoOne, NoOne, FALSE)
    /\ UNCHANGED <<state, repaired, fiberCalls>>

\* FiberCommitDeferredIdle: first the state, then the owner.
Commit(t) ==
    /\ on[t].pc = "landed" /\ on[t].pending # NoOne
    /\ state' = [state EXCEPT ![on[t].pending] = "idle"]
    /\ on' = Moves(t, "unowns", on[t].stack, on[t].current, NoOne, on[t].pending, on[t].resumes)
    /\ UNCHANGED <<owner, saved, repaired, fiberCalls>>
Unowns(t) ==
    /\ on[t].pc = "unowns"
    /\ owner' = [owner EXCEPT ![on[t].target] = NoOne]
    /\ on' = Goes(t, "landed", NoOne)
    /\ UNCHANGED <<state, saved, repaired, fiberCalls>>

\* FiberSetCurrentFiber; a fiber that goes on states again that it runs.
Lands(t) ==
    /\ on[t].pc = "landed" /\ on[t].pending = NoOne
    /\ on' = Moves(t, IF on[t].resumes THEN "restates" ELSE "guest", on[t].stack, on[t].stack,
                   NoOne, NoOne, on[t].resumes)
    /\ state' = IF on[t].resumes THEN [state EXCEPT ![on[t].stack] = "running"] ELSE state
    /\ UNCHANGED <<owner, saved, repaired, fiberCalls>>
Restates(t) ==
    /\ on[t].pc = "restates"
    /\ owner' = [owner EXCEPT ![on[t].current] = t]
    /\ on' = GoesOn(t)
    /\ UNCHANGED <<state, saved, repaired, fiberCalls>>

FiberNext ==
    \/ \E f \in FiberObjects : \/ Initialize(f) \/ Finalize(f)
                               \/ \E t \in FiberThreads : Run(t, f) \/ Switch(t, f)
    \/ \E t \in FiberThreads :
          \/ WaitEnds(t) \/ TimeOver(t) \/ Judges(t) \/ Repair(t) \/ RepairEnds(t)
          \/ Jumps(t) \/ ReturnToThread(t) \/ EntryReturns(t) \/ Ends(t)
          \/ Commit(t) \/ Unowns(t) \/ Lands(t) \/ Restates(t)

FiberSpec == FiberInit /\ [][FiberNext]_fiberVars
-----------------------------------------------------------------------------
\* The threads that have a fiber: on its stack, about to jump to it, or off it
\* but not yet past FiberCommitDeferredIdle.
Holders(f) == {t \in FiberThreads : \/ on[t].stack = f \/ on[t].pending = f
                                    \/ on[t].pc = "entered" /\ on[t].target = f}

\* A fiber that is RUNNING has one thread and one that is IDLE none, whatever
\* threads run, switch to and leave it at a time: a stale RUNNING does not exist,
\* and who takes a fiber never meets a thread on its stack
\* (FiberDeferIdle, FiberCommitDeferredIdle).
OneHolder == \A f \in FiberObjects :
    /\ state[f] = "running" => \E t \in FiberThreads : Holders(f) = {t}
    /\ state[f] = "idle" => Holders(f) = {}

\* Only a repair, which takes a fiber that some thread has, can give it to two.
FibersSound == repaired \/ OneHolder
=============================================================================
