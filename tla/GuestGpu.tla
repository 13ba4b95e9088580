-------------------------------- MODULE GuestGpu --------------------------------
(***************************************************************************)
(* The guest GPU of src/src/graphics/guest_gpu/graphicsRun.cpp: guest      *)
(* threads queue submissions, one GPU thread executes them queue by queue  *)
(* and packet by packet, suspends a submission that waits for a label, and *)
(* runs commands other threads send it.                                    *)
(*                                                                         *)
(* A program is a sequence of packets: a wait for a label, a write of a    *)
(* label (recorded in the registry or not) or any other packet.  Indirect  *)
(* buffers are inlined.  The constant engine is left out: every Submit of  *)
(* the source passes an empty constant buffer.                             *)
(***************************************************************************)
EXTENDS WaitRegistry, Sequences, FiniteSets

CONSTANTS QueueCount,   \* queue 0 is graphics, the others are compute
          Submissions,  \* the submissions the guest makes
          QueueOf,      \* the queue of each
          Program,      \* its packets
          Threads,      \* guest threads
          NoSubmission,
          MaxStores,    \* bound: direct stores of the guest to labels
          MaxCommands   \* bound: commands guest threads send
GpuQueues == 0 .. QueueCount - 1

Packet ==
    [op : {"wait"}, label : Labels, accepts : SUBSET Values]
    \cup [op : {"write"}, label : Labels, value : Values, recorded : BOOLEAN]
    \cup [op : {"draw", "frame"}]

\* A FlipPreparation submission holds no packets, its one step ends the frame.
IsFlip(s) == Program[s] = <<[op |-> "frame"]>>

GuestGpuAssumption ==
    /\ QueueCount \in Nat \ {0}
    /\ IsFiniteSet(Submissions) /\ NoSubmission \notin Submissions
    /\ QueueOf \in [Submissions -> GpuQueues]
    /\ \A s \in Submissions :
          /\ Program[s] \in Seq(Packet) /\ Program[s] # <<>>
          /\ IsFlip(s) \/ \A i \in DOMAIN Program[s] : Program[s][i].op # "frame"
    /\ MaxStores \in Nat /\ MaxCommands \in Nat

VARIABLES queues,            \* m_queues
          offset,            \* packets of a submission already executed
          started, blocked,  \* Submission::started, ::blocked
          submitted,         \* submissions made so far
          submission_count,  \* m_submission_count
          processing,        \* m_processing
          next_queue,        \* m_next_queue
          stopping,          \* m_stopping, and not m_accepting
          gpu,               \* where the GPU thread is
          current,           \* the submission it processes
          progress,          \* the current slice executed a packet
          commands,          \* m_commands, as the threads that sent them
          caller,            \* caller[t]: the call thread t is blocked in
          budget,            \* stores and commands left (bounds only)
          seen,              \* history: seen[s], its wait held at some point
          latch_seen         \* history: this poll found its waiter latched

registryVars == <<memory, waiters, frame>>
queueVars == <<queues, submitted, submission_count, next_queue, blocked>>
threadVars == <<gpu, current, progress, processing, offset, started>>
guestVars == <<stopping, commands, caller, budget>>
historyVars == <<seen, latch_seen>>
vars == <<registryVars, queueVars, threadVars, guestVars, historyVars>>

Phases == {"select", "repoll", "command", "slice", "packet", "test", "finish", "stopped"}

Init ==
    /\ memory \in [Labels -> Values] /\ waiters = {} /\ frame = 0
    /\ queues = [q \in GpuQueues |-> <<>>]
    /\ submitted = {} /\ submission_count = 0 /\ next_queue = 0
    /\ offset = [s \in Submissions |-> 0]
    /\ started = [s \in Submissions |-> FALSE]
    /\ blocked = [s \in Submissions |-> FALSE]
    /\ gpu = "select" /\ current = NoSubmission /\ progress = FALSE
    /\ processing = FALSE
    /\ stopping = FALSE /\ commands = <<>>
    /\ caller = [t \in Threads |-> "none"]
    /\ budget = [stores |-> MaxStores, commands |-> MaxCommands]
    /\ seen = [s \in Submissions |-> FALSE] /\ latch_seen = FALSE
-----------------------------------------------------------------------------
(* Derived state. *)

Complete(s) == offset[s] = Len(Program[s])
PacketOf(s) == Program[s][offset[s] + 1]
AtWait(s) == ~Complete(s) /\ PacketOf(s).op = "wait"
Holds(s, mem) == mem[PacketOf(s).label] \in PacketOf(s).accepts
Graphics(s) == QueueOf[s] = 0

\* history: a wait that was polled once has been satisfied by memory since.
Observe(mem) ==
    seen' = [s \in Submissions |->
                seen[s] \/ (started[s] /\ AtWait(s) /\ Holds(s, mem))]

NoWork == commands = <<>> /\ submission_count = 0

Fronts == {Head(queues[q]) : q \in {p \in GpuQueues : queues[p] # <<>>}}
UnblockFronts_Never == UNCHANGED blocked
UnblockFronts == blocked' = [s \in Submissions |-> blocked[s] /\ s \notin Fronts]
-----------------------------------------------------------------------------
(* Guest threads.  m_submission_mutex is free unless a thread is in Done. *)

SubmissionMutexFree == \A t \in Threads : caller[t] # "done"

\* Submit, SubmitCompute and SubmitFlipPreparation, with Enqueue.
Submit(t, s) ==
    /\ caller[t] = "none" /\ SubmissionMutexFree /\ ~stopping
    /\ s \notin submitted
    /\ queues' = [queues EXCEPT ![QueueOf[s]] = Append(@, s)]
    /\ submitted' = submitted \cup {s}
    /\ submission_count' = submission_count + 1
    /\ UNCHANGED <<registryVars, threadVars, guestVars, historyVars, next_queue, blocked>>

\* Done takes the submission mutex and keeps it while it waits.
DoneBegin(t) ==
    /\ caller[t] = "none" /\ SubmissionMutexFree /\ ~stopping
    /\ caller' = [caller EXCEPT ![t] = "done"]
    /\ UNCHANGED <<registryVars, queueVars, threadVars, historyVars,
                   stopping, commands, budget>>

\* WaitForIdle leaves its loop.
Idle_IgnoresProcessing == NoWork
Idle == ~processing /\ NoWork

DoneReturn(t) ==
    /\ caller[t] = "done"
    /\ Idle
    /\ caller' = [caller EXCEPT ![t] = "none"]
    /\ UNCHANGED <<registryVars, queueVars, threadVars, historyVars,
                   stopping, commands, budget>>

\* SendCommandSync: the caller sleeps until the GPU thread ran its command.
SendCommandSync(t) ==
    /\ caller[t] = "none" /\ ~stopping
    /\ budget.commands > 0
    /\ commands' = Append(commands, t)
    /\ caller' = [caller EXCEPT ![t] = "sync"]
    /\ budget' = [budget EXCEPT !.commands = @ - 1]
    /\ UNCHANGED <<registryVars, queueVars, threadVars, historyVars, stopping>>

\* A guest store to a label, which no producer hook sees.
Store(l, v) ==
    /\ budget.stores > 0
    /\ memory[l] # v
    /\ memory' = [memory EXCEPT ![l] = v]
    /\ Observe(memory')
    /\ budget' = [budget EXCEPT !.stores = @ - 1]
    /\ UNCHANGED <<waiters, frame, queueVars, threadVars, latch_seen,
                   stopping, commands, caller>>

Shutdown ==
    /\ ~stopping
    /\ stopping' = TRUE
    /\ UNCHANGED <<registryVars, queueVars, threadVars, historyVars,
                   commands, caller, budget>>
-----------------------------------------------------------------------------
(* The GPU thread: the selection at the top of ThreadRun. *)

\* Nothing to do: note it, wake WaitForIdle and sleep.
SelectNothing ==
    /\ gpu = "select" /\ NoWork
    /\ processing' = FALSE
    /\ gpu' = IF stopping THEN "stopped" ELSE "select"
    /\ UNCHANGED <<registryVars, queueVars, guestVars, historyVars,
                   current, progress, offset, started>>

\* Commands go before submissions.
SelectCommand ==
    /\ gpu = "select" /\ commands # <<>>
    /\ processing' = TRUE
    /\ gpu' = "command"
    /\ UNCHANGED <<registryVars, queueVars, guestVars, historyVars,
                   current, progress, offset, started>>

Selectable == {q \in GpuQueues : queues[q] # <<>> /\ ~blocked[Head(queues[q])]}

\* The first selectable queue from m_next_queue on, round robin.
Selected == CHOOSE q \in Selectable :
                \A p \in Selectable : (q - next_queue) % QueueCount
                                       <= (p - next_queue) % QueueCount

QueueAfter(q) == (q + 1) % QueueCount

SelectSubmission ==
    /\ gpu = "select" /\ commands = <<>> /\ Selectable # {}
    /\ LET q == Selected
           s == Head(queues[q])
       IN  /\ current' = s
           /\ queues' = [queues EXCEPT ![q] = Tail(@)]
           /\ next_queue' = QueueAfter(q)
           /\ started' = [started EXCEPT ![s] = TRUE]
    /\ submission_count' = submission_count - 1
    /\ processing' = TRUE
    /\ progress' = FALSE
    /\ gpu' = "slice"
    /\ UNCHANGED <<registryVars, guestVars, historyVars, submitted, blocked, offset>>

\* Every front is blocked: sleep for the re-poll interval, queue mutex free.
SelectRepoll ==
    /\ gpu = "select" /\ commands = <<>>
    /\ submission_count # 0 /\ Selectable = {}
    /\ processing' = FALSE
    /\ gpu' = "repoll"
    /\ UNCHANGED <<registryVars, queueVars, guestVars, historyVars,
                   current, progress, offset, started>>

\* The sleep ends: perhaps run the deadlock breaker, whose result is ignored,
\* and let every front poll again.
Repoll ==
    /\ gpu = "repoll"
    /\ \E broken \in SUBSET Breakable(waiters) : waiters' = waiters \ broken
    /\ UnblockFronts
    /\ gpu' = "select"
    /\ UNCHANGED <<memory, frame, guestVars, historyVars, queues, submitted,
                   submission_count, next_queue,
                   current, progress, processing, offset, started>>
-----------------------------------------------------------------------------
(* The GPU thread: commands. *)

RunCommand ==
    /\ commands' = Tail(commands)
    /\ caller' = [caller EXCEPT ![Head(commands)] = "none"]
    /\ UNCHANGED <<stopping, budget>>

CommandFromLoop ==
    /\ gpu = "command"
    /\ RunCommand
    /\ processing' = FALSE
    /\ gpu' = "select"
    /\ UNCHANGED <<registryVars, queueVars, historyVars, current, progress, offset, started>>

\* ProcessCommands: before every packet the pending commands are run.
CommandBeforePacket ==
    /\ gpu = "slice" /\ ~IsFlip(current) /\ commands # <<>>
    /\ RunCommand
    /\ UNCHANGED <<registryVars, queueVars, threadVars, historyVars>>
-----------------------------------------------------------------------------
(* The GPU thread: packets of the current submission. *)

NextPacket ==
    /\ gpu = "slice" /\ (IsFlip(current) \/ commands = <<>>)
    /\ gpu' = IF Complete(current) THEN "finish" ELSE "packet"
    /\ UNCHANGED <<registryVars, queueVars, guestVars, historyVars,
                   current, progress, processing, offset, started>>

Advance ==
    /\ offset' = [offset EXCEPT ![current] = @ + 1]
    /\ progress' = TRUE
    /\ gpu' = "slice"
    /\ UNCHANGED <<current, processing, started>>

\* A write of a label: end-of-pipe writes, one-address write_data, flips and
\* clock copies record the value, other writes do not.
WriteLabel ==
    /\ gpu = "packet" /\ PacketOf(current).op = "write"
    /\ LET p == PacketOf(current)
       IN  /\ memory' = [memory EXCEPT ![p.label] = p.value]
           /\ waiters' = IF p.recorded THEN AfterProduced(waiters, p.label, p.value)
                                       ELSE waiters
    /\ Observe(memory')
    /\ Advance
    /\ UNCHANGED <<frame, queueVars, guestVars, latch_seen>>

OtherPacket ==
    /\ gpu = "packet" /\ PacketOf(current).op \in {"draw", "frame"}
    /\ frame' = IF PacketOf(current).op = "frame" THEN frame + 1 ELSE frame
    /\ Advance
    /\ UNCHANGED <<memory, waiters, queueVars, guestVars, historyVars>>

\* WaitRegMem, up to CollectSatisfied: any collected waiter lets it pass.
WaitPoll ==
    /\ gpu = "packet" /\ PacketOf(current).op = "wait"
    /\ LET p == PacketOf(current)
           registered == AfterRegister(waiters, p.label, p.accepts)
           collected == Satisfied(registered)
       IN  /\ waiters' = registered \ collected
           /\ latch_seen' = \E w \in WaiterOf(waiters, p.label, p.accepts) : w.latched
           /\ IF collected # {}
                THEN Advance /\ seen' = [seen EXCEPT ![current] = FALSE]
                ELSE /\ gpu' = "test"
                     /\ UNCHANGED <<current, progress, processing, offset, started, seen>>
    /\ UNCHANGED <<memory, frame, queueVars, guestVars>>

\* WaitRegMem, its own read of the label: pass or suspend.
WaitPass ==
    /\ gpu = "test" /\ Holds(current, memory)
    /\ Advance
    /\ seen' = [seen EXCEPT ![current] = FALSE]
    /\ UNCHANGED <<registryVars, queueVars, guestVars, latch_seen>>

\* Process of a graphics submission tries again while a slice progresses.
WaitSuspend ==
    /\ gpu = "test" /\ ~Holds(current, memory)
    /\ gpu' = IF progress /\ Graphics(current) THEN "slice" ELSE "finish"
    /\ progress' = FALSE
    /\ UNCHANGED <<registryVars, queueVars, guestVars, historyVars,
                   current, processing, offset, started>>

\* The end of a slice: back to the front of its queue, or all fronts go on.
Requeue_ToBack ==
    /\ gpu = "finish" /\ ~Complete(current)
    /\ queues' = [queues EXCEPT ![QueueOf[current]] = Append(@, current)]
    /\ blocked' = [blocked EXCEPT ![current] = TRUE]
    /\ submission_count' = submission_count + 1
Requeue ==
    /\ gpu = "finish" /\ ~Complete(current)
    /\ queues' = [queues EXCEPT ![QueueOf[current]] = <<current>> \o @]
    /\ blocked' = [blocked EXCEPT ![current] = TRUE]
    /\ submission_count' = submission_count + 1

Retire ==
    /\ gpu = "finish" /\ Complete(current)
    /\ UnblockFronts
    /\ UNCHANGED <<queues, submission_count>>

EndSlice ==
    /\ Requeue \/ Retire
    /\ current' = NoSubmission
    /\ processing' = FALSE
    /\ gpu' = "select"
    /\ UNCHANGED <<registryVars, guestVars, historyVars, submitted, next_queue,
                   progress, offset, started>>
-----------------------------------------------------------------------------
GpuThread ==
    \/ SelectNothing \/ SelectCommand \/ SelectSubmission \/ SelectRepoll \/ Repoll
    \/ CommandFromLoop \/ CommandBeforePacket \/ NextPacket
    \/ WriteLabel \/ OtherPacket \/ WaitPoll \/ WaitPass \/ WaitSuspend \/ EndSlice

Guest ==
    \/ \E t \in Threads : \/ \E s \in Submissions : Submit(t, s)
                          \/ DoneBegin(t) \/ DoneReturn(t) \/ SendCommandSync(t)
    \/ \E l \in Labels, v \in Values : Store(l, v)
    \/ Shutdown

Next == GpuThread \/ Guest

Spec == Init /\ [][Next]_vars

\* The GPU thread runs, its sleeps end after their timeout at the latest, and
\* WaitForIdle polls every 10 ms.
Fairness == /\ WF_vars(GpuThread)
            /\ \A t \in Threads : WF_vars(DoneReturn(t))

FairSpec == Spec /\ Fairness
-----------------------------------------------------------------------------
(* Properties. *)

TypeOK ==
    /\ memory \in [Labels -> Values] /\ waiters \subseteq Waiter /\ frame \in Nat
    /\ queues \in [GpuQueues -> Seq(Submissions)]
    /\ submitted \subseteq Submissions
    /\ submission_count \in Nat /\ next_queue \in GpuQueues
    /\ offset \in [Submissions -> Nat]
    /\ started \in [Submissions -> BOOLEAN] /\ blocked \in [Submissions -> BOOLEAN]
    /\ gpu \in Phases /\ current \in Submissions \cup {NoSubmission}
    /\ progress \in BOOLEAN /\ processing \in BOOLEAN /\ stopping \in BOOLEAN
    /\ commands \in Seq(Threads)
    /\ caller \in [Threads -> {"none", "sync", "done"}]
    /\ seen \in [Submissions -> BOOLEAN] /\ latch_seen \in BOOLEAN

\* No submission is lost, duplicated or counted twice on its way through
\* select, suspend and requeue: what the queues hold is what was submitted,
\* is not complete and is not in the hands of the GPU thread.
Queued == UNION {{queues[q][i] : i \in DOMAIN queues[q]} : q \in GpuQueues}
NothingLost ==
    /\ Queued = {s \in submitted \ {current} : ~Complete(s)}
    /\ submission_count = Cardinality(Queued)

\* Submissions of one queue run one after the other: a submission that was
\* started and suspended stays ahead of all that its queue received later.
InOrder ==
    \A q \in GpuQueues :
        /\ \A i \in 2 .. Len(queues[q]) : ~started[queues[q][i]]
        /\ current # NoSubmission /\ QueueOf[current] = q /\ queues[q] # <<>>
              => ~started[Head(queues[q])]

\* AgcSuspendPoint returns only when everything submitted before has been
\* executed, although the queue mutex is free while the GPU thread works.
DoneMeansExecuted ==
    [][\A t \in Threads :
          caller[t] = "done" /\ caller'[t] = "none"
             => current = NoSubmission /\ \A s \in submitted : Complete(s)]_vars

\* The GPU thread leaves only after all submissions and commands: no thread is
\* left in SendCommandSync.
ShutdownDrains ==
    gpu = "stopped" => /\ \A s \in submitted : Complete(s)
                       /\ \A t \in Threads : caller[t] # "sync"

\* The queues as the GPU thread, Submit, Done and Shutdown see them.
QueuesSound == TypeOK /\ NothingLost /\ InOrder /\ ShutdownDrains

\* A submission passes a wait only if its label satisfied it at some time
\* since the submission arrived at it.
WaitRespected ==
    [][offset' # offset /\ AtWait(current)
          => seen[current] \/ Holds(current, memory)]_vars

\* A poll that found its waiter latched by a producer does not suspend.
LatchedWaitPasses ==
    [][gpu = "test" /\ gpu' # "test" /\ offset' = offset => ~latch_seen]_vars

WaitsSatisfied == \A s \in Submissions : AtWait(s) => Holds(s, memory)

\* Commands are run whatever the submissions wait for; and where memory
\* satisfies every wait that is reached, nothing is suspended and no thread in
\* Done.
AllDone ==
    /\ \A t \in Threads : caller[t] # "sync"
    /\ WaitsSatisfied => /\ \A s \in submitted : Complete(s)
                         /\ \A t \in Threads : caller[t] # "done"

\* It comes to that again and again: submissions, commands and stores are
\* bounded and one thread at a time is in Done, so that none of them waits for
\* ever.
EverythingCompletes == []<>AllDone
=============================================================================
