-------------------------- MODULE CommandScheduler --------------------------
(***************************************************************************)
(* The host GPU's command schedulers                                       *)
(* (host_gpu/renderer/commandScheduler.cpp, masterSemaphore.cpp) as the    *)
(* guest GPU thread drives them (guest_gpu/graphicsRun.cpp).  The graphics *)
(* scheduler and the async-compute scheduler own a command buffer each and *)
(* share one timeline: a submission takes the next tick, the device        *)
(* completes the ticks in order.  Work that must follow a submission (the  *)
(* release of a resource, an end-of-pipe interrupt, the copy of downloaded *)
(* bytes) is queued with the tick that was current when it was recorded,   *)
(* and runs once that tick is complete.                                    *)
(*                                                                         *)
(* "due" in an operation, in a pooled buffer and in a readback is not in   *)
(* the program: it is the tick its command buffer was really submitted     *)
(* with, 0 while that buffer is still being recorded.                      *)
(***************************************************************************)
EXTENDS Naturals, Sequences, FiniteSetsExt

CONSTANTS
    Graphics,     \* RenderContext::m_command_scheduler
    Compute,      \* RenderContext::m_compute_scheduler, on the same timeline
    None,         \* no scheduler, no operation
    GrowStep,     \* CommandPool::GrowStep
    MaxTick,      \* bound: no packet or command starts at this tick or later
    MaxOps        \* bound on the operations queued at a time

Schedulers == {Graphics, Compute}

CommandSchedulerAssumption ==
    /\ Graphics # Compute /\ None \notin Schedulers
    /\ None \notin [tick : Nat, due : Nat, on : Schedulers]
    /\ GrowStep \in Nat \ {0} /\ MaxTick \in Nat /\ MaxOps \in Nat

VARIABLES
    asyncCompute,  \* does the guest submit to the compute queues at all
    current,       \* MasterSemaphore::m_current_tick
    known,         \* MasterSemaphore::m_gpu_tick, what the host knows of done
    done,          \* the counter of the Vulkan timeline semaphore
    recording,     \* g_recording_scheduler of the GPU thread
    active,        \* Active(): the scheduler has registers
    open,          \* the pooled buffer m_command records into, 0 for none
    pool, hint,    \* CommandPool: m_ticks and m_hint
    pending,       \* m_pending_operations
    priority,      \* m_priority_operations
    running,       \* the operation of the priority thread (m_priority_active)
    state,         \* m_operation_state
    slice,         \* the scheduler of the submission being processed
    progressed,    \* Pm4Execution::MadeProgress() of that slice
    todo,          \* what the GPU thread's present call still has to do
    copy,          \* the readback the GPU thread has recorded
    down           \* the GPU thread has left its loop

timeline == <<current, known, done>>
buffers  == <<open, pool, hint>>
queues   == <<pending, priority, running, state>>
thread   == <<recording, active, slice, progressed, down, asyncCompute>>
vars     == <<timeline, buffers, queues, thread, todo, copy>>

Op(tick, on)       == [tick |-> tick, due |-> 0, on |-> on]
Call(call, on, t)  == [call |-> call, on |-> on, tick |-> t]

Init ==
    /\ asyncCompute \in BOOLEAN
    /\ current = 1 /\ known = 0 /\ done = 0
    /\ recording = None
    /\ active = [s \in Schedulers |-> FALSE]
    /\ open = [s \in Schedulers |-> 0]
    /\ pool = [s \in Schedulers |-> <<>>]
    /\ hint = [s \in Schedulers |-> 1]
    /\ pending = [s \in Schedulers |-> <<>>]
    /\ priority = [s \in Schedulers |-> <<>>]
    /\ running = [s \in Schedulers |-> None]
    /\ state = [s \in Schedulers |-> "open"]
    /\ slice = None /\ progressed = FALSE
    /\ todo = <<>>
    /\ copy = None
    /\ down = FALSE

(***************************************************************************)
(* The timeline.                                                           *)
(***************************************************************************)

\* The device completes the oldest submission: each waits for the tick before.
DeviceCompletes ==
    /\ done + 1 < current
    /\ done' = done + 1
    /\ UNCHANGED <<current, known, buffers, queues, thread, todo, copy>>

\* What MasterSemaphore::Wait leaves in m_gpu_tick once "tick" is complete.
KnownAfterWait(tick) == IF known >= tick THEN known ELSE done

\* Recorded work gets the tick of the submission that carries it.
Stamped(op, s) ==
    IF op # None /\ op.on = s /\ op.due = 0 THEN [op EXCEPT !.due = current] ELSE op

StampedAll(q, s) ==
    [r \in Schedulers |-> [i \in DOMAIN q[r] |-> Stamped(q[r][i], s)]]

\* CommandScheduler::Submit: the open buffer of s takes the next tick.
Submit(s) ==
    /\ current' = current + 1
    /\ open' = [open EXCEPT ![s] = 0]
    /\ pool' = [pool EXCEPT ![s][open[s]].due = current]
    /\ pending' = StampedAll(pending, s)
    /\ priority' = StampedAll(priority, s)
    /\ running' = [r \in Schedulers |-> Stamped(running[r], s)]
    /\ copy' = Stamped(copy, s)

\* Submit, if m_command holds a buffer.
SubmitOpen(s) ==
    IF open[s] # 0 THEN Submit(s)
    ELSE UNCHANGED <<current, open, pool, pending, priority, running, copy>>

\* Mutant: the tick to wait for is read before the submission takes one.
LastTick_Early(s) == current - 1

\* CurrentTick() - 1 after SubmitOpen(s).
LastTick(s) == IF open[s] # 0 THEN current ELSE current - 1

(***************************************************************************)
(* CommandPool::Commit: the first buffer from the hint on whose tick is    *)
(* known complete; the same with the device's counter read again; then     *)
(* the buffers before the hint; then a new one.                            *)
(***************************************************************************)
Free(s, tick, first, last) == {i \in first .. last : pool[s][i].tick <= tick}

AtHint(s, tick) == Free(s, tick, hint[s], Len(pool[s]))

FirstFree(s) ==
    IF AtHint(s, known) # {} THEN AtHint(s, known)
    ELSE IF AtHint(s, done) # {} THEN AtHint(s, done)
    ELSE Free(s, done, 1, hint[s] - 1)

Committed(s) == IF FirstFree(s) # {} THEN Min(FirstFree(s)) ELSE Len(pool[s]) + 1

Grown(s) ==
    IF Committed(s) <= Len(pool[s]) THEN pool[s]
    ELSE pool[s] \o [i \in 1 .. GrowStep |-> [tick |-> 0, due |-> 0]]

(***************************************************************************)
(* What the GPU thread does inside one call, as a list of the calls still  *)
(* to come.                                                                *)
(***************************************************************************)
Flush(s)        == <<Call("submit", s, 0), Call("begin", s, 0), Call("refresh", s, 0)>>
FlushAndWait(s) == <<Call("submit", s, 0), Call("wait", s, current), Call("begin", s, 0)>>
BeginIfNone(s)  == IF open[s] = 0 THEN <<Call("begin", s, 0)>> ELSE <<>>

Doing(call, s) == todo # <<>> /\ Head(todo).call = call /\ Head(todo).on = s
ThenDo(calls)  == todo' = calls \o Tail(todo)

\* Submit: End, take the tick, submit; m_command is left without a buffer.
SubmitCall(s) ==
    /\ Doing("submit", s)
    /\ Submit(s)
    /\ ThenDo(<<>>)
    /\ UNCHANGED <<known, done, hint, state, thread>>

\* BeginNext: bind the registers and begin a buffer of the pool.
BeginCommand(s) ==
    /\ Doing("begin", s)
    /\ pool' = [pool EXCEPT ![s] = [Grown(s) EXCEPT ![Committed(s)] =
                    [tick |-> current, due |-> 0]]]
    /\ open' = [open EXCEPT ![s] = Committed(s)]
    /\ hint' = [hint EXCEPT ![s] = IF Committed(s) = Len(Grown(s)) THEN 1 ELSE Committed(s) + 1]
    /\ known' = IF AtHint(s, known) # {} THEN known ELSE done
    /\ ThenDo(<<>>)
    /\ UNCHANGED <<current, done, queues, thread, copy>>

\* MasterSemaphore::Wait
WaitTick(s) ==
    /\ Doing("wait", s)
    /\ done >= Head(todo).tick
    /\ known' = KnownAfterWait(Head(todo).tick)
    /\ ThenDo(<<>>)
    /\ UNCHANGED <<current, done, buffers, queues, thread, copy>>

\* Finish: submit what is open, wait for every tick taken, begin again, pop.
Finish(s) ==
    /\ Doing("finish", s)
    /\ active[s]
    /\ SubmitOpen(s)
    /\ ThenDo(<<Call("wait", s, LastTick(s)), Call("begin", s, 0), Call("refresh", s, 0)>>)
    /\ UNCHANGED <<known, done, hint, state, thread>>

\* PopPendingOperations reads the device's counter once, then takes the
\* operations at the front whose ticks are known complete, one after the other.
FreeFront(q, tick) == q # <<>> /\ Head(q).tick <= tick

Refresh(s) ==
    /\ Doing("refresh", s)
    /\ known' = done
    /\ ThenDo(IF FreeFront(pending[s], done) THEN <<Call("pop", s, 0)>> ELSE <<>>)
    /\ UNCHANGED <<current, done, buffers, queues, thread, copy>>

\* WaitPriorityOperations(tick): what is active and what is first in the queue.
PriorityClear(s, tick) ==
    /\ running[s] # None => running[s].tick > tick
    /\ priority[s] # <<>> => Head(priority[s]).tick > tick

\* Take the first free operation, wait until the priority operations up to its
\* tick are over, run it; then the next one, if it is free.
PopPendingOperations(s) ==
    /\ Doing("pop", s)
    /\ PriorityClear(s, Head(pending[s]).tick)
    /\ pending' = [pending EXCEPT ![s] = Tail(@)]
    /\ ThenDo(IF FreeFront(Tail(pending[s]), known) THEN <<Call("pop", s, 0)>> ELSE <<>>)
    /\ UNCHANGED <<timeline, buffers, priority, running, state, thread, copy>>

WaitPriorityOperations(s) ==
    /\ Doing("waitpriority", s)
    /\ PriorityClear(s, Head(todo).tick)
    /\ ThenDo(<<>>)
    /\ UNCHANGED <<timeline, buffers, queues, thread, copy>>

(***************************************************************************)
(* Submissions of the guest, one slice at a time (GuestGpu::Process).      *)
(***************************************************************************)
Ready == todo = <<>> /\ ~down
Packet == Ready /\ slice # None /\ current < MaxTick

\* CommandProcessor::BufferInit: the queue's scheduler becomes the recording one.
BeginSlice(s) ==
    /\ Ready /\ slice = None /\ current < MaxTick
    /\ s = Compute => asyncCompute
    /\ slice' = s /\ progressed' = FALSE
    /\ recording' = s
    /\ active' = [active EXCEPT ![s] = TRUE]
    /\ todo' = BeginIfNone(s)
    /\ UNCHANGED <<timeline, buffers, queues, copy, down, asyncCompute>>

Queued == Len(pending[Graphics]) + Len(pending[Compute]) +
          Len(priority[Graphics]) + Len(priority[Compute])
Room   == Queued < MaxOps
Later(q, s, on) == [q EXCEPT ![s] = Append(@, Op(current, on))]
PacketDone == progressed' = TRUE /\ UNCHANGED <<recording, active, slice, down, asyncCompute>>

\* A packet whose transient upload is released after the submission.
DeferOperation ==
    /\ Packet /\ Room
    /\ pending' = Later(pending, slice, slice)
    /\ PacketDone
    /\ UNCHANGED <<timeline, buffers, priority, running, state, todo, copy>>

\* A packet that ends with an end-of-pipe interrupt or flip.
DeferPriorityOperation ==
    /\ Packet /\ Room
    /\ priority' = Later(priority, slice, slice)
    /\ PacketDone
    /\ UNCHANGED <<timeline, buffers, pending, running, state, todo, copy>>

\* TextureCache::DeleteImage: always the graphics scheduler's queue, whichever
\* command buffer used the image last.
DeleteImage(on) ==
    /\ Packet /\ active[Graphics] /\ Room
    /\ on \in {slice, Graphics}
    /\ pending' = Later(pending, Graphics, on)
    /\ PacketDone
    /\ UNCHANGED <<timeline, buffers, priority, running, state, todo, copy>>

\* Packets that submit, wait or pop: predication, SynchronizeGpu, draws, flips.
PacketCalls ==
    /\ Packet
    /\ todo' \in {Flush(slice), FlushAndWait(slice), <<Call("finish", slice, 0)>>,
                   <<Call("refresh", slice, 0)>>}
    /\ PacketDone
    /\ UNCHANGED <<timeline, buffers, queues, copy>>

SliceOver ==
    /\ slice' = None /\ progressed' = FALSE
    /\ UNCHANGED <<recording, active, down, asyncCompute>>

\* The slice is blocked: flush what it recorded, come back later.
SuspendSlice ==
    /\ Ready /\ slice # None
    /\ todo' = IF progressed THEN Flush(slice) ELSE <<>>
    /\ SliceOver
    /\ UNCHANGED <<timeline, buffers, queues, copy>>

\* The submission is complete: RunGarbageCollector may download images, which
\* records on the graphics scheduler; then the slice is flushed.  A flip
\* preparation has no packets and always flushes.
CompleteSlice(download, flip) ==
    /\ Ready /\ slice # None
    /\ flip => slice = Graphics /\ ~progressed
    /\ download => active[Graphics] /\ Room
    /\ priority' = IF download THEN Later(priority, Graphics, Graphics) ELSE priority
    /\ todo' = IF progressed \/ flip THEN Flush(slice) ELSE <<>>
    /\ SliceOver
    /\ UNCHANGED <<timeline, buffers, pending, running, state, copy>>

(***************************************************************************)
(* Commands of other threads (SendCommandSync), taken between packets and  *)
(* between submissions.                                                    *)
(***************************************************************************)
Command == Ready /\ active[Graphics] /\ current < MaxTick

\* BufferCache::DownloadBufferMemory: copies into the recording scheduler's
\* buffer, Finish of the graphics scheduler, then the bytes are read.
Readback ==
    /\ Command /\ open[recording] # 0
    /\ copy' = Op(current, recording)
    /\ todo' = <<Call("finish", Graphics, 0), Call("waitpriority", Graphics, current),
                  Call("read", Graphics, 0)>>
    /\ UNCHANGED <<timeline, buffers, queues, thread>>

\* Invalidate and WriteBacking: the bytes reach guest memory.
WriteBacking ==
    /\ Doing("read", Graphics)
    /\ copy' = None
    /\ ThenDo(<<>>)
    /\ UNCHANGED <<timeline, buffers, queues, thread>>

\* GpuResourceManager::UnmapMemory
UnmapMemory ==
    /\ Command
    /\ todo' = <<Call("finish", Graphics, 0), Call("waitpriority", Graphics, current)>>
    /\ UNCHANGED <<timeline, buffers, queues, thread, copy>>

(***************************************************************************)
(* The priority threads.                                                   *)
(***************************************************************************)
\* Mutant: the priority thread takes nothing once Shutdown has begun.
TakePriority_OpenOnly(s) ==
    /\ running[s] = None /\ priority[s] # <<>> /\ state[s] = "open"
    /\ running' = [running EXCEPT ![s] = Head(priority[s])]
    /\ priority' = [priority EXCEPT ![s] = Tail(@)]
    /\ UNCHANGED <<timeline, buffers, pending, state, thread, todo, copy>>

TakePriority(s) ==
    /\ running[s] = None /\ priority[s] # <<>> /\ state[s] # "closed"
    /\ running' = [running EXCEPT ![s] = Head(priority[s])]
    /\ priority' = [priority EXCEPT ![s] = Tail(@)]
    /\ UNCHANGED <<timeline, buffers, pending, state, thread, todo, copy>>

\* Mutant: the operation waits for the submission after its own.
RunPriority_NextTick(s) ==
    /\ running[s] # None
    /\ done > running[s].tick
    /\ known' = KnownAfterWait(running[s].tick)
    /\ running' = [running EXCEPT ![s] = None]
    /\ UNCHANGED <<current, done, buffers, pending, priority, state, thread, todo, copy>>

RunPriority(s) ==
    /\ running[s] # None
    /\ done >= running[s].tick
    /\ known' = KnownAfterWait(running[s].tick)
    /\ running' = [running EXCEPT ![s] = None]
    /\ UNCHANGED <<current, done, buffers, pending, priority, state, thread, todo, copy>>

(***************************************************************************)
(* RenderContext::ShutdownGpu and the destructor.  The GPU thread leaves   *)
(* its loop with BufferWait; the rest runs on the thread that joins it.    *)
(***************************************************************************)
ShutdownGpu ==
    /\ Ready /\ slice = None
    /\ down' = TRUE
    /\ recording' = Graphics
    /\ active' = [active EXCEPT ![Graphics] = TRUE]
    /\ todo' = BeginIfNone(Graphics) \o
         <<Call("finish", Graphics, 0), Call("shutdown", Compute, 0),
           Call("finish", Graphics, 0), Call("drain", Graphics, 0),
           Call("shutdown", Graphics, 0)>>
    /\ UNCHANGED <<timeline, buffers, queues, copy, slice, progressed, asyncCompute>>

\* CommandScheduler::Shutdown
Shutdown(s) ==
    /\ Doing("shutdown", s)
    /\ state' = [state EXCEPT ![s] = "draining"]
    /\ SubmitOpen(s)
    /\ ThenDo(<<Call("wait", s, LastTick(s)), Call("refresh", s, 0), Call("drain", s, 0),
                Call("close", s, 0)>>)
    /\ UNCHANGED <<known, done, hint, thread>>

\* Mutant: the drain waits for an empty queue and not for the active operation.
DrainPriorityOperations_QueueOnly(s) ==
    /\ Doing("drain", s)
    /\ priority[s] = <<>>
    /\ ThenDo(<<>>)
    /\ UNCHANGED <<timeline, buffers, queues, thread, copy>>

DrainPriorityOperations(s) ==
    /\ Doing("drain", s)
    /\ priority[s] = <<>> /\ running[s] = None
    /\ ThenDo(<<>>)
    /\ UNCHANGED <<timeline, buffers, queues, thread, copy>>

\* The priority thread is stopped and joined, the queues are checked, the state
\* becomes Closed.  A stopped thread takes no operation and runs none.
Close(s) ==
    /\ Doing("close", s)
    /\ state' = [state EXCEPT ![s] = "closed"]
    /\ ThenDo(<<>>)
    /\ UNCHANGED <<timeline, buffers, pending, priority, running, thread, copy>>

\* Nothing is left to do once both schedulers are closed.
Terminated == down /\ todo = <<>> /\ UNCHANGED vars

GpuCall(s) ==
    \/ SubmitCall(s) \/ BeginCommand(s) \/ WaitTick(s) \/ Finish(s)
    \/ Refresh(s) \/ PopPendingOperations(s)
    \/ WaitPriorityOperations(s)
    \/ Shutdown(s) \/ DrainPriorityOperations(s) \/ Close(s)

GpuStarts ==
    \/ \E s \in Schedulers : BeginSlice(s) \/ DeleteImage(s)
    \/ DeferOperation \/ DeferPriorityOperation \/ PacketCalls
    \/ SuspendSlice
    \/ \E download, flip \in BOOLEAN : CompleteSlice(download, flip)
    \/ Readback \/ UnmapMemory \/ ShutdownGpu

PriorityThread(s) == TakePriority(s) \/ RunPriority(s)

Next ==
    \/ DeviceCompletes
    \/ \E s \in Schedulers : GpuCall(s) \/ PriorityThread(s)
    \/ WriteBacking
    \/ GpuStarts
    \/ Terminated

Spec == Init /\ [][Next]_vars

\* The device goes on completing submissions, and the threads go on running.
\* Nothing is assumed of the guest.
Fairness ==
    /\ WF_vars(DeviceCompletes)
    /\ WF_vars(\E s \in Schedulers : GpuCall(s))
    /\ WF_vars(WriteBacking)
    /\ \A s \in Schedulers : WF_vars(PriorityThread(s))

FairSpec == Spec /\ Fairness

-----------------------------------------------------------------------------
(***************************************************************************)
(* Properties.                                                             *)
(***************************************************************************)
OpType == [tick : Nat, due : Nat, on : Schedulers]
Calls == {"submit", "begin", "wait", "finish", "refresh", "pop", "waitpriority",
          "read", "shutdown", "drain", "close"}

\* Every variable has its type, and the host never believes the device further
\* than it is, nor the device further than what was submitted.
TypeOK ==
    /\ asyncCompute \in BOOLEAN /\ progressed \in BOOLEAN /\ down \in BOOLEAN
    /\ current \in Nat /\ known \in Nat /\ done \in Nat
    /\ known <= done /\ done < current
    /\ recording \in Schedulers \union {None} /\ slice \in Schedulers \union {None}
    /\ active \in [Schedulers -> BOOLEAN]
    /\ open \in [Schedulers -> Nat] /\ hint \in [Schedulers -> Nat]
    /\ pool \in [Schedulers -> Seq([tick : Nat, due : Nat])]
    /\ pending \in [Schedulers -> Seq(OpType)] /\ priority \in [Schedulers -> Seq(OpType)]
    /\ running \in [Schedulers -> OpType \union {None}]
    /\ state \in [Schedulers -> {"open", "draining", "closed"}]
    /\ todo \in Seq([call : Calls, on : Schedulers, tick : Nat])
    /\ copy \in OpType \union {None}

\* The submission that carries the work is complete on the device.
Complete(op) == op.due # 0 /\ op.due <= done

\* What this step takes off the queue of s and runs, and what the priority
\* threads finish in this step.
RanPending(s) == IF Len(pending'[s]) < Len(pending[s]) THEN {Head(pending[s])} ELSE {}
RanPriority == {running[s] : s \in {r \in Schedulers : running[r] # None /\ running'[r] = None}}

\* DownloadBufferMemory hands bytes to the guest only after the copies into the
\* download buffer are complete.  It does not hold once the guest uses the
\* compute queues: the copies are recorded into the recording scheduler's buffer
\* and the graphics scheduler is the one that is finished.
ReadbackComplete == [][copy # None /\ copy' = None => Complete(copy)]_vars

\* While the guest uses the graphics queue only, nothing acts before the
\* submission it belongs to is complete: a readback's bytes reach the guest, a
\* deferred operation releases its resource (bufferCache.cpp: "retire it at the
\* submission tick"), and an end-of-pipe callback (interrupt, flip, image
\* download) reports, only after that.
CompleteBeforeUse ==
    [][~asyncCompute =>
        /\ copy # None /\ copy' = None => Complete(copy)
        /\ \A s \in Schedulers : \A o \in RanPending(s) : Complete(o)
        /\ \A o \in RanPriority : Complete(o)]_vars

\* While the guest uses the graphics queue only, CommandPool::Commit never hands
\* out a command buffer that the device may still be executing.
CommittedIdle ==
    [][~asyncCompute =>
        \A s \in Schedulers :
            open[s] = 0 /\ open'[s] \in 1 .. Len(pool[s]) => pool[s][open'[s]].due <= done]_vars

\* Neither callbacks nor command buffers run ahead of the device.
DeviceDoneFirst == CompleteBeforeUse /\ CommittedIdle

\* Shutdown's assertion: when a scheduler closes, no operation was left behind,
\* and its priority thread was not stopped with one in hand.
ClosesEmpty ==
    \A s \in Schedulers :
        state[s] = "closed" => pending[s] = <<>> /\ priority[s] = <<>> /\ running[s] = None

\* Types, the order of the timeline, and Shutdown's assertion.
SchedulerSound == TypeOK /\ ClosesEmpty

\* Every wait of the GPU thread ends: for a tick, for the priority thread, for
\* the drain at shutdown.
GpuThreadReturns == (todo # <<>>) ~> (todo = <<>>)

\* Callbacks of submission t that the priority thread of s has not run yet.
Unreported(s, t) ==
    \/ running[s] # None /\ running[s].tick = t
    \/ \E i \in DOMAIN priority[s] : priority[s][i].tick = t

\* The end-of-pipe callbacks of every submission are run in the end, whether or
\* not the guest ever submits again: the ticks are bounded, a callback is queued
\* under the current one, and so again and again none is left under an earlier.
EndOfPipeReported ==
    []<>(\A s \in Schedulers, t \in 1 .. MaxTick - 1 : t < current => ~Unreported(s, t))

=============================================================================
