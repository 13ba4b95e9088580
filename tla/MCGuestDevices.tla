----------------------------- MODULE MCGuestDevices -----------------------------
(***************************************************************************)
(* The video-out ports, the guest GPU and the guest's memory for TLC, one  *)
(* after the other: a behaviour uses the part it begins with.              *)
(***************************************************************************)
EXTENDS MCVideoOut

CONSTANTS Labels, Values, NoValue, QueueCount, Submissions, SubmissionQueueOf, Program,
          Threads, NoSubmission, MaxStores, MaxCommands,
          VirtualPages, DirectPages, FlexiblePages, Prots, NoProt, HostFails

VARIABLES part,
          memory, waiters, frame, queues, offset, started, blocked, submitted,
          submission_count, processing, next_queue, stopping, gpuAt, current, progress,
          commands, caller, budget, seen, latch_seen,
          range, block, mapping, flexible, flexible_free, flexible_total, pooled,
          pool_free, expansions, view, gpu_mapped

Gpu == INSTANCE GuestGpu WITH QueueOf <- SubmissionQueueOf, gpu <- gpuAt
Mem == INSTANCE GuestMemory

ASSUME Gpu!WaitRegistryAssumption /\ Gpu!GuestGpuAssumption /\ Mem!GuestMemoryAssumption

\* One thread manages the ports, the other renders; both register for flips, on
\* one queue for all ports.
TwoRoles == [g \in Guests |-> IF g = CHOOSE h \in Guests : TRUE
                              THEN {"open", "close", "events", "rate"}
                              ELSE {"flip", "packets", "events"}]
OneQueue == [p \in Ports |-> CHOOSE q \in Queues : TRUE]

\* One submission that waits and takes the label back without telling the
\* registry, a producer that sets the label, one that resets it, and a flip behind
\* the waiting submission.
Write(v, told) == [op |-> "write", label |-> "a", value |-> v, recorded |-> told]
SingleLabels == {"a"}
SingleQueueOf == <<0, 1, 1, 0>>
SingleProgram ==
    <<  <<[op |-> "draw"], [op |-> "wait", label |-> "a", accepts |-> {1}], Write(0, FALSE)>>,
        <<Write(1, TRUE)>>,
        <<Write(0, TRUE)>>,
        <<[op |-> "frame"]>> >>

gpuVars == <<memory, waiters, frame, queues, offset, started, blocked, submitted,
             submission_count, processing, next_queue, stopping, gpuAt, current, progress,
             commands, caller, budget, seen, latch_seen>>
memVars == <<range, block, mapping, flexible, flexible_free, flexible_total, pooled,
             pool_free, expansions, view, gpu_mapped>>
allVars == <<part, vars, gpuVars, memVars>>

MCInit == /\ part \in {"flips", "packets", "ports", "gpu", "memory"}
          /\ Init /\ Gpu!Init /\ Mem!Init
          /\ part = "gpu" \/ memory = [l \in Labels |-> CHOOSE v \in Values : TRUE]

\* Bounds: "flips" and "packets" are the first port by itself, for whose events the
\* managing thread registers.  In the one guests submit two flips; a flip rate or
\* the deletion of the event queue excludes a second opening and one another.  In
\* the other they submit packets, too, and open the port a second time, have a
\* third flip, which meets a full queue, or register for one.  "ports" is two ports
\* that share a queue, with one flip of the first, whose buffers stay registered,
\* while the second may close.
Packets == \E k \in DOMAIN work' : work'[k].pc # "prepare"
OneRate == port'[1].rate = 0 /\ \A g \in Guests : guest'[g].pc # "rate"
QueuesStay == \A q \in Queues : equeue'[q].listed
Reopened == port'[1].generation > 2
Told == registered'[1] # {} \/ \E q \in Queues : owner'[q] # NoOwner
OnePort ==
    /\ \A p \in Ports \ {1} : ~port'[p].opened
    /\ \A g \in Guests : guest'[g].pc = "register" => "open" \in Calls[g]
Flips ==
    /\ OnePort /\ left' > 0 /\ ~Packets
    /\ ~OneRate => QueuesStay /\ ~Reopened
    /\ ~QueuesStay => ~Reopened
FlipsAndPackets ==
    /\ OnePort /\ OneRate /\ QueuesStay
    /\ left' = 0 => ~Reopened
    /\ Told => left' >= MaxFlips - 1 /\ ~Reopened
TwoPorts ==
    /\ OneRate /\ QueuesStay /\ left' >= MaxFlips - 1 /\ ~Packets
    /\ \A p \in Ports : port'[p].generation <= p
    /\ ~port'[2].occupied /\ (port[1].occupied => port'[1].occupied)
    /\ port'[1].opened /\ port'[2].opened => port'[1].vblank = port'[2].vblank
InVideo(A) ==
    /\ part \notin {"gpu", "memory"} /\ A
    /\ IF part = "flips" THEN Flips ELSE IF part = "packets" THEN FlipsAndPackets ELSE TwoPorts
    /\ UNCHANGED <<part, gpuVars, memVars>>
InGpu(A) == part = "gpu" /\ A /\ UNCHANGED <<part, vars, memVars>>
InMemory(A) == part = "memory" /\ A /\ UNCHANGED <<part, vars, gpuVars>>

MCNext == InVideo(Next) \/ InGpu(Gpu!Next) \/ InMemory(Mem!Next)

\* The fairness of each part (VideoOut, GuestGpu), while it runs.  The thread that
\* sets the rate of a port is the one that registers, so weak fairness is enough
\* for calls.
MCFairness ==
    /\ \A g \in Guests : WF_vars(InVideo(InCall(g)))
    /\ SF_vars(InVideo(GpuThread)) /\ WF_vars(InVideo(EndOfPipe))
    /\ SF_vars(InVideo(PresentThread))
    /\ WF_gpuVars(InGpu(Gpu!GpuThread))
    /\ \A t \in Threads : WF_gpuVars(InGpu(Gpu!DoneReturn(t)))

MCSpec == MCInit /\ [][MCNext]_allVars /\ MCFairness

QueuesSound == Gpu!QueuesSound
DoneMeansExecuted == Gpu!DoneMeansExecuted
MemorySound == Mem!MemorySound

\* Every flip is shown or given up, commands are run and nothing stays suspended
\* that need not: VideoOut's FlipsEnd and GuestGpu's EverythingCompletes in one
\* formula, for TLC's sake.
DevicesSettle == []<>(AllShown /\ Gpu!AllDone)
=============================================================================
