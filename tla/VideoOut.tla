-------------------------------- MODULE VideoOut --------------------------------
(***************************************************************************)
(* Video-out ports, their flip queue and the presenter's pool of frames:   *)
(* src/src/graphics/presentation/videoOut.cpp, the part of                 *)
(* presentation/window/swapchain.cpp that hands out frames, and the flips  *)
(* of guest_gpu/graphicsRun.cpp and host_gpu/renderer/sync.cpp.            *)
(*                                                                         *)
(* Guest threads open and close ports, submit flips and register for flip  *)
(* events; the GPU thread prepares frames; a priority thread completes     *)
(* end-of-pipe flips; the present thread shows them.  Locks are taken in   *)
(* the order driver, port, flip queue, event queue, so a section under the *)
(* inner ones is one action.  Two are held for longer and stay visible:    *)
(* the driver's by a thread in Close (closing) and the port's by the       *)
(* present thread from the moment a flip is due until it is shown.         *)
(*                                                                         *)
(* Of the four kinds of events only flips are shown; what a frame looks    *)
(* like, the times of the status and pausing are left out.                 *)
(***************************************************************************)
EXTENDS EventQueue, FiniteSets

CONSTANTS Ports, Guests, NoPort,
          Frames, NoFrame,   \* the presenter's FramePool
          Indexes,           \* bound: buffers flipped to
          QueueOf,           \* the event queue a guest uses for a port's flips
          Capacity,          \* VIDEO_OUT_FLIP_QUEUE_CAPACITY
          MaxFlips, MaxOpens, MaxRate, \* bounds: flips and packets, generations, rate
          Calls,             \* bound: what each guest thread calls
          Ime                \* the overlay may ask for a refresh

ASSUME VideoOutAssumption ==
    /\ NoPort \notin Ports /\ NoFrame \notin Frames
    /\ Frames # {} /\ IsFiniteSet(Frames)
    /\ Capacity \in Nat \ {0} /\ MaxFlips \in Nat /\ MaxOpens \in Nat /\ MaxRate \in 0 .. 2
    /\ QueueOf \in [Ports -> Queues \cup {NoQueue}]
    /\ Ime \in BOOLEAN

Blank == "blank"     \* VIDEO_OUT_BUFFER_INDEX_BLANK and _BLACK

VARIABLES port,       \* VideoOutConfig of each port
          registered, \* events->flip of each port: generations registered with QueueOf
          owner,      \* filter.data of each queue's flip event: the registration it was added for
          copied,     \* whether the present thread's copy of the list has one to tell
          requests,   \* m_requests
          cpu,        \* m_cpu_requests
          cancelled,  \* m_cancelled_requests
          nextId,     \* m_next_request_id
          free,       \* FramePool::m_free
          last,       \* FramePool::m_last_frame
          guest,      \* where each guest thread is
          work,       \* what the GPU thread was sent: preparations and packets
          gpu,        \* what the GPU thread does
          eop,        \* requests whose end of pipe the priority thread reports
          present,    \* what the present thread does
          left,       \* what is left of MaxFlips
          shown,      \* history: flips to be told to a queue since its flip event was added
          bereft,     \* history: ports whose flip event another port's call deleted
          exit        \* the assertion that ended the program, "none" otherwise

eventLists == <<registered, owner, copied, bereft>>
portVars == <<port, eventLists>>
queueVars == <<requests, cpu, cancelled, nextId>>
poolVars == <<free, last>>
threadVars == <<guest, work, gpu, eop, present, left>>
vars == <<portVars, queueVars, poolVars, threadVars, shown, exit, eventVars>>

Idle == [pc |-> "idle"]
NoOwner == [port |-> NoPort, generation |-> 0]
\* VideoOutEventId: a queue has one event for the flips of all ports.
Flip == "flip"

Init ==
    /\ EventInit
    /\ port = [p \in Ports |-> [opened |-> FALSE, closing |-> FALSE, generation |-> 0,
                                rate |-> 0, vblank |-> 0, occupied |-> FALSE, pending |-> 0]]
    /\ registered = [p \in Ports |-> {}] /\ owner = [q \in Queues |-> NoOwner]
    /\ copied = "unread" /\ bereft = {}
    /\ requests = <<>> /\ cpu = <<>> /\ cancelled = <<>> /\ nextId = 1
    /\ free = SetToSeq(Frames) /\ last = NoFrame
    /\ guest = [g \in Guests |-> Idle]
    /\ work = <<>> /\ gpu = Idle /\ eop = <<>>
    /\ present = [pc |-> "flip"] /\ left = MaxFlips
    /\ shown = [q \in Queues |-> <<>>]
    /\ exit = "none"

Running == exit = "none"
\* A thread in Close keeps the driver's mutex.
Closing(p) == \E g \in Guests : guest[g].pc \in {"cancel", "deleteEvents"} /\ guest[g].port = p
DriverFree == \A p \in Ports : ~Closing(p)
Registering(p) == \E g \in Guests : guest[g].pc = "register" /\ guest[g].port = p
\* The present thread keeps the port's mutex while it shows a flip of it, and a
\* guest while it registers for events of it.
PortFree(p) == ~(present.pc = "presenting" /\ present.request.port = p) /\ ~Registering(p)
Processing == present.pc \in {"chosen", "presenting"}          \* m_processing

Ids(s) == {s[k].id : k \in DOMAIN s}
At(s, id) == SelectInSeq(s, LAMBDA r : r.id = id)
Die(why) == exit' = why
-----------------------------------------------------------------------------
(* Ports *)

\* Open expects a port as Close leaves it.
Open(g, p) ==
    /\ Running /\ guest[g] = Idle /\ DriverFree /\ PortFree(p)
    /\ ~port[p].opened /\ port[p].generation < MaxOpens
    /\ IF registered[p] # {} \/ port[p].rate # 0 \/ port[p].occupied
       THEN Die("open") /\ UNCHANGED port
       ELSE /\ port' = [port EXCEPT ![p] = [@ EXCEPT !.opened = TRUE, !.closing = FALSE,
                            !.generation = port[p].generation + 1, !.vblank = 0, !.pending = 0]]
            /\ UNCHANGED exit
    /\ UNCHANGED <<eventLists, queueVars, poolVars, threadVars, shown, eventVars>>

\* RegisterBuffers2 and UnregisterBuffers, for the port's one attribute group.
SetBuffers(g, p, occupied) ==
    /\ Running /\ guest[g] = Idle /\ DriverFree /\ PortFree(p)
    /\ port[p].opened /\ ~port[p].closing /\ port[p].occupied # occupied
    /\ port' = [port EXCEPT ![p].occupied = occupied]
    /\ UNCHANGED <<eventLists, queueVars, poolVars, threadVars, shown, exit, eventVars>>

\* SetFlipRate finds the port under the driver's mutex and takes the port's
\* mutex afterwards, without looking at the port again.
SetFlipRateBegin(g, p, rate) ==
    /\ Running /\ guest[g] = Idle /\ DriverFree /\ port[p].opened
    /\ guest' = [guest EXCEPT ![g] = [pc |-> "rate", port |-> p, rate |-> rate]]
    /\ UNCHANGED <<portVars, queueVars, poolVars, work, gpu, eop, present, left, shown, exit, eventVars>>

SetFlipRateEnd(g) ==
    /\ Running /\ guest[g].pc = "rate" /\ PortFree(guest[g].port)
    /\ port' = [port EXCEPT ![guest[g].port].rate = guest[g].rate]
    /\ guest' = [guest EXCEPT ![g] = Idle]
    /\ UNCHANGED <<eventLists, queueVars, poolVars, work, gpu, eop, present, left, shown, exit, eventVars>>

CloseBegin(g, p) ==
    /\ Running /\ guest[g] = Idle /\ DriverFree /\ PortFree(p)
    /\ port[p].opened /\ ~port[p].closing
    /\ port' = [port EXCEPT ![p] = [@ EXCEPT !.opened = FALSE, !.closing = TRUE,
                    !.generation = port[p].generation + 1, !.rate = 0, !.occupied = FALSE]]
    /\ guest' = [guest EXCEPT ![g] = [pc |-> "cancel", port |-> p, events |-> registered[p]]]
    /\ registered' = [registered EXCEPT ![p] = {}]
    /\ UNCHANGED <<owner, copied, bereft, queueVars, poolVars, work, gpu, eop, present, left, shown, exit, eventVars>>

\* FlipQueue::Cancel: what no frame was finished for goes to the cancelled
\* ones, a finished frame is discarded.  Only keeps some items of a list, in order.
Unfinished_Reserved(r) == r.state = "Reserved"
Unfinished(r) == r.state \in {"Reserved", "Recording"}
Only(s, I) ==
    LET f[k \in 0 .. Len(s)] ==
          IF k = 0 THEN <<>> ELSE IF k \in I THEN Append(f[k - 1], s[k]) ELSE f[k - 1]
    IN f[Len(s)]
Dropped(p, s) == Only(s, {k \in DOMAIN s : s[k].port # p})
Spliced(p, s) == Only(s, {k \in DOMAIN s : s[k].port = p /\ Unfinished(s[k])})
Finished(p, s) == Only(s, {k \in DOMAIN s : s[k].port = p /\ ~Unfinished(s[k])})
MayCancel(p) == ~(Processing /\ requests # <<>> /\ Head(requests).port = p)

Cancel(g) ==
    LET p == guest[g].port
        done == Finished(p, requests) \o Finished(p, cpu)
    IN /\ Running /\ guest[g].pc = "cancel" /\ MayCancel(p)
       /\ IF \E k \in DOMAIN done : done[k].state = "Presenting"
          THEN Die("cancel") ELSE UNCHANGED exit
       /\ cancelled' = cancelled \o Spliced(p, requests) \o Spliced(p, cpu)
       /\ requests' = Dropped(p, requests) /\ cpu' = Dropped(p, cpu)
       /\ free' = free \o [k \in DOMAIN done |-> done[k].frame]
       /\ port' = [port EXCEPT ![p].pending = 0]
       /\ guest' = [guest EXCEPT ![g].pc = "deleteEvents"]
       /\ UNCHANGED <<eventLists, nextId, last, work, gpu, eop, present, left, shown, eventVars>>

\* KernelDeleteEvent for the flips on q, called for port p: the one event goes,
\* and RemoveVideoOutEventQueue takes its registration out of the list of the
\* port that has it, which need not be p.
Registration(p) == [port |-> p, generation |-> port[p].generation]
WithoutOwner(q) ==
    [o \in Ports |-> IF o = owner[q].port THEN registered[o] \ {owner[q].generation}
                     ELSE registered[o]]
DeletesFlipEvent(p, q) ==
    /\ equeue' = Removed(q, Flip) /\ Forget(q, Flip)
    /\ registered' = WithoutOwner(q)
    /\ bereft' = bereft \cup {o \in Ports : QueueOf[o] = q /\ registered[o] # {}
                                          /\ (o # p \/ owner[q] # Registration(p))}
KeepsFlipEvent == UNCHANGED <<equeue, history, registered, bereft>>

\* DeleteVideoOutEvents, for the registrations Close took out of the list.
CloseEnd(g) ==
    LET p == guest[g].port
        q == QueueOf[p]
    IN /\ Running /\ guest[g].pc = "deleteEvents"
       /\ IF guest[g].events # {} /\ Alive(q) /\ Has(q, Flip)
          THEN DeletesFlipEvent(p, q) ELSE KeepsFlipEvent
       /\ guest' = [guest EXCEPT ![g] = Idle]
       /\ UNCHANGED <<port, owner, copied, queueVars, poolVars, work, gpu, eop, present, left,
                      shown, exit, waiter>>
-----------------------------------------------------------------------------
(* Flip events.  A guest holds the port's mutex for the whole call. *)

\* RegisterVideoOutEvent first puts a registration into the port's list ...
RegisterFlipEvent(g, p) ==
    LET q == QueueOf[p]
        generation == port[p].generation
    IN /\ Running /\ guest[g] = Idle /\ DriverFree /\ PortFree(p)
       /\ port[p].opened /\ ~port[p].closing
       /\ q # NoQueue /\ Alive(q)
       /\ registered' = [registered EXCEPT ![p] = @ \cup {generation}]
       /\ guest' = [guest EXCEPT ![g] = [pc |-> "register", port |-> p,
                                        new |-> generation \notin registered[p]]]
       /\ bereft' = bereft \ {p}
       /\ UNCHANGED <<port, owner, copied, queueVars, poolVars, work, gpu, eop, present, left,
                      shown, exit, eventVars>>

\* ... and then the event into the queue, unless one is there, which stays the
\* one of the registration it was added for.
AddFlipEvent(g) ==
    LET p == guest[g].port
        q == QueueOf[p]
    IN /\ Running /\ guest[g].pc = "register"
       /\ IF Alive(q) THEN equeue' = Added(q, NewEvent(Flip, "video")) ELSE UNCHANGED equeue
       /\ IF Alive(q) /\ ~Has(q, Flip)
          THEN /\ owner' = [owner EXCEPT ![q] = Registration(p)]
               /\ Forget(q, Flip) /\ shown' = [shown EXCEPT ![q] = <<>>]
          ELSE UNCHANGED <<owner, history, shown>>
       /\ registered' = IF ~Alive(q) /\ guest[g].new
                        THEN [registered EXCEPT ![p] = @ \ {port[p].generation}] ELSE registered
       /\ guest' = [guest EXCEPT ![g] = Idle]
       /\ UNCHANGED <<port, copied, bereft, queueVars, poolVars, work, gpu, eop, present, left,
                      exit, waiter>>

DeleteFlipEvent(g, p) ==
    LET q == QueueOf[p]
    IN /\ Running /\ guest[g] = Idle /\ DriverFree /\ PortFree(p)
       /\ port[p].opened /\ ~port[p].closing
       /\ q # NoQueue /\ Alive(q) /\ Has(q, Flip)
       /\ DeletesFlipEvent(p, q)
       /\ UNCHANGED <<port, owner, copied, queueVars, poolVars, threadVars, shown, exit, waiter>>

\* KernelDeleteEqueue on a queue of a port: the event takes its registration
\* with it, whatever the port is doing.
EqueueUnlisted(q) ==
    /\ Running /\ Unlist(q)
    /\ UNCHANGED <<portVars, queueVars, poolVars, threadVars, shown, exit>>

EqueueCloses(q) ==
    /\ Running /\ CloseQueue(q)
    /\ registered' = IF Has(q, Flip) THEN WithoutOwner(q) ELSE registered
    /\ UNCHANGED <<port, owner, copied, bereft, queueVars, poolVars, threadVars, shown, exit>>

EqueueWait(t) ==
    /\ Running
    /\ \/ \E q \in Queues, room \in 1 .. 2 : WaitBegin(t, q, room, FALSE)
       \/ WaitReturns(t)
    /\ UNCHANGED <<portVars, queueVars, poolVars, threadVars, shown, exit>>
EqueuePoll(q) ==
    /\ Running /\ Poll(q, 1)
    /\ UNCHANGED <<portVars, queueVars, poolVars, threadVars, shown, exit>>
-----------------------------------------------------------------------------
(* Flips: Reserve, Prepare, Complete *)

Pending == Len(requests) + Len(cpu)
NewRequest(p, index, source) ==
    [id |-> nextId, port |-> p, generation |-> port[p].generation, index |-> index,
     source |-> source, state |-> "Reserved", frame |-> NoFrame]

\* ReserveFlipRequest can succeed.
Reservable(p, index) ==
    ~port[p].closing /\ (index = Blank \/ port[p].occupied)

\* The part of Reserve that does not depend on the queue.
Reserved(p) ==
    /\ nextId' = nextId + 1
    /\ port' = [port EXCEPT ![p].pending = Pending + 1]

\* SubmitFlip: the request is in the queue before its preparation is submitted.
SubmitFlip(g, p, index) ==
    /\ Running /\ guest[g] = Idle /\ DriverFree /\ PortFree(p)
    /\ port[p].opened /\ Reservable(p, index)
    /\ left > 0 /\ Pending < Capacity
    /\ Reserved(p) /\ left' = left - 1
    /\ cpu' = Append(cpu, NewRequest(p, index, "Cpu"))
    /\ guest' = [guest EXCEPT ![g] = [pc |-> "submit", id |-> nextId]]
    /\ UNCHANGED <<eventLists, requests, cancelled, poolVars, work, gpu, eop, present, shown,
                   exit, eventVars>>

SubmitFlipPreparation(g) ==
    /\ Running /\ guest[g].pc = "submit"
    /\ work' = Append(work, [pc |-> "prepare", id |-> guest[g].id, source |-> "Cpu"])
    /\ guest' = [guest EXCEPT ![g] = Idle]
    /\ UNCHANGED <<portVars, queueVars, poolVars, gpu, eop, present, left, shown, exit, eventVars>>

\* The guest submits a buffer with a flip at its end of pipe, or with a wait
\* for the flips of an index.  Such a wait never ends while a flip that a guest
\* thread submitted behind it has yet to be prepared by the waiting thread:
\* guests wait for flips they submitted before.
SubmitPackets(g, packet) ==
    /\ Running /\ guest[g] = Idle /\ port[packet.port].opened
    /\ left > 0 /\ left' = left - 1
    /\ work' = Append(work, packet)
    /\ UNCHANGED <<portVars, queueVars, poolVars, guest, gpu, eop, present, shown, exit, eventVars>>

GpuTakes ==
    /\ Running /\ gpu = Idle /\ work # <<>>
    /\ gpu' = Head(work) /\ work' = Tail(work)
    /\ UNCHANGED <<portVars, queueVars, poolVars, guest, eop, present, left, shown, exit, eventVars>>

\* PrepareVideoOutFlip: reserve, or wait for a slot.  The program ends when the
\* port is gone, and when nothing but flips of guest threads is queued.
EopReserve ==
    LET p == gpu.port
    IN /\ Running /\ gpu.pc = "reserve" /\ DriverFree /\ PortFree(p)
       /\ \/ /\ ~port[p].opened \/ ~Reservable(p, gpu.index)
             /\ Die("no port") /\ UNCHANGED <<port, requests, nextId, gpu>>
          \/ /\ port[p].opened /\ Reservable(p, gpu.index) /\ Pending < Capacity
             /\ Reserved(p)
             /\ requests' = Append(requests, NewRequest(p, gpu.index, "GpuEop"))
             /\ gpu' = [pc |-> "prepare", id |-> nextId, source |-> "GpuEop"]
             /\ UNCHANGED exit
          \/ /\ port[p].opened /\ Reservable(p, gpu.index) /\ Pending >= Capacity
             /\ requests = <<>>
             /\ Die("saturated") /\ UNCHANGED <<port, requests, nextId, gpu>>
       /\ UNCHANGED <<eventLists, cpu, cancelled, poolVars, guest, work, eop, present, left, shown,
                      eventVars>>

\* First section of Prepare.  A guest thread's request joins the others now.
Recording(r) == [r EXCEPT !.state = "Recording"]
Prepare ==
    LET id == gpu.id
        k == At(requests, id)
        c == At(cpu, id)
        x == At(cancelled, id)
        found == IF k # 0 THEN requests[k] ELSE IF c # 0 THEN cpu[c]
                 ELSE IF x # 0 THEN cancelled[x] ELSE [state |-> "missing"]
    IN /\ Running /\ gpu.pc = "prepare"
       /\ IF found.state # "Reserved" THEN Die("prepare") ELSE UNCHANGED exit
       /\ requests' = IF k # 0 THEN [requests EXCEPT ![k] = Recording(@)]
                      ELSE IF c # 0 THEN Append(requests, Recording(cpu[c])) ELSE requests
       /\ cpu' = IF k = 0 /\ c # 0 THEN RemoveAt(cpu, c) ELSE cpu
       /\ cancelled' = IF k = 0 /\ c = 0 /\ x # 0
                       THEN [cancelled EXCEPT ![x] = Recording(@)] ELSE cancelled
       /\ gpu' = IF k = 0 /\ c = 0 THEN [gpu EXCEPT !.pc = "flush"]
                 ELSE [pc |-> "look", id |-> id, source |-> gpu.source, request |-> found]
       /\ UNCHANGED <<portVars, nextId, poolVars, guest, work, eop, present, left, shown, eventVars>>

\* Second section: is the port still the one the flip was reserved for?
Current(r) ==
    port[r.port].opened /\ ~port[r.port].closing /\ port[r.port].generation = r.generation
PrepareLooks ==
    LET r == gpu.request
    IN /\ Running /\ gpu.pc = "look" /\ PortFree(r.port)
       /\ IF Current(r) /\ r.index # Blank /\ ~port[r.port].occupied
          THEN Die("unregistered") ELSE UNCHANGED exit
       /\ gpu' = [gpu EXCEPT !.pc = IF Current(r) THEN "record" ELSE "drop"]
       /\ UNCHANGED <<portVars, queueVars, poolVars, guest, work, eop, present, left, shown, eventVars>>

PrepareDrops ==
    LET k == At(requests, gpu.id)
    IN /\ Running /\ gpu.pc = "drop"
       /\ requests' = IF k # 0 THEN RemoveAt(requests, k) ELSE requests
       /\ cancelled' = IF k # 0 THEN Append(cancelled, requests[k]) ELSE cancelled
       /\ gpu' = [gpu EXCEPT !.pc = "flush"]
       /\ UNCHANGED <<portVars, cpu, nextId, poolVars, guest, work, eop, present, left, shown, exit,
                      eventVars>>

\* FramePool::Acquire and the last section; the request may be cancelled by now.
PrepareRecords ==
    LET k == At(requests, gpu.id)
        x == At(cancelled, gpu.id)
        f == Head(free)
    IN /\ Running /\ gpu.pc = "record" /\ free # <<>>
       /\ free' = Tail(free) /\ last' = IF last = f THEN NoFrame ELSE last
       /\ requests' = IF k # 0 THEN [requests EXCEPT ![k].frame = f] ELSE requests
       /\ cancelled' = IF k = 0 /\ x # 0 THEN [cancelled EXCEPT ![x].frame = f] ELSE cancelled
       /\ LET r == IF k # 0 THEN requests[k] ELSE IF x # 0 THEN cancelled[x]
                   ELSE [state |-> "missing", frame |-> NoFrame]
          IN IF r.state # "Recording" \/ r.frame # NoFrame THEN Die("changed") ELSE UNCHANGED exit
       /\ gpu' = [gpu EXCEPT !.pc = "flush"]
       /\ UNCHANGED <<portVars, cpu, nextId, guest, work, eop, present, left, shown, eventVars>>

\* Complete: the frame may be shown, or goes back to the pool.
Returned_Leaked(x) == free
Returned(x) == IF x # 0 /\ cancelled[x].frame # NoFrame
               THEN Append(free, cancelled[x].frame) ELSE free
Complete(id) ==
    LET k == At(requests, id)
        x == At(cancelled, id)
    IN IF k # 0
       THEN /\ IF requests[k].state # "Recording" \/ requests[k].frame = NoFrame
               THEN Die("complete") ELSE UNCHANGED exit
            /\ requests' = [requests EXCEPT ![k].state = "Ready"]
            /\ UNCHANGED <<cancelled, free>>
       ELSE /\ IF (IF x = 0 THEN "missing" ELSE cancelled[x].state) # "Recording"
               THEN Die("complete") ELSE UNCHANGED exit
            /\ cancelled' = IF x # 0 THEN RemoveAt(cancelled, x) ELSE cancelled
            /\ free' = Returned(x)
            /\ UNCHANGED requests

\* PrepareCpuFlip completes its flip itself; an end-of-pipe flip is deferred to
\* the priority thread.
Flush ==
    /\ Running /\ gpu.pc = "flush"
    /\ gpu' = Idle
    /\ IF gpu.source = "Cpu" THEN Complete(gpu.id) /\ UNCHANGED eop
       ELSE eop' = Append(eop, gpu.id) /\ UNCHANGED <<requests, cancelled, free, exit>>
    /\ UNCHANGED <<portVars, cpu, nextId, last, guest, work, present, left, shown, eventVars>>

EndOfPipe ==
    /\ Running /\ eop # <<>>
    /\ eop' = Tail(eop) /\ Complete(Head(eop))
    /\ UNCHANGED <<portVars, cpu, nextId, last, guest, work, gpu, present, left, shown, eventVars>>

\* WaitFlipDone: until no request of that index is queued.
WaitFlipDone ==
    /\ Running /\ gpu.pc = "wait"
    /\ IF port[gpu.port].opened THEN UNCHANGED exit ELSE Die("no port")
    /\ \A s \in {requests, cpu} : \A k \in DOMAIN s :
           ~(s[k].port = gpu.port /\ s[k].index = gpu.index)
    /\ gpu' = Idle
    /\ UNCHANGED <<portVars, queueVars, poolVars, guest, work, eop, present, left, shown, eventVars>>
-----------------------------------------------------------------------------
(* The present thread *)

\* Flip finds nothing that could be shown.
NothingReady ==
    /\ Running /\ present.pc = "flip"
    /\ requests # <<>> => Head(requests).state # "Ready"
    /\ present' = [pc |-> "idle"]
    /\ UNCHANGED <<portVars, queueVars, poolVars, guest, work, gpu, eop, left, shown, exit, eventVars>>

Choose ==
    /\ Running /\ present.pc = "flip"
    /\ requests # <<>> /\ Head(requests).state = "Ready"
    /\ present' = [pc |-> "chosen", request |-> Head(requests)]
    /\ UNCHANGED <<portVars, queueVars, poolVars, guest, work, gpu, eop, left, shown, exit, eventVars>>

\* IsFlipDueLocked; from here the port's mutex is kept.
FlipDue(r) == Current(r) /\ port[r.port].vblank % (port[r.port].rate + 1) = 0

LookWhetherDue ==
    LET r == present.request
        still == requests # <<>> /\ Head(requests).id = r.id /\ Head(requests).state = "Ready"
    IN /\ Running /\ present.pc = "chosen" /\ PortFree(r.port)
       /\ IF ~FlipDue(r)
          THEN present' = [pc |-> "idle"] /\ UNCHANGED <<requests, exit>>
          ELSE IF ~still THEN Die("presentation") /\ UNCHANGED <<requests, present>>
          ELSE /\ requests' = [requests EXCEPT ![1].state = "Presenting"]
               /\ present' = [present EXCEPT !.pc = "presenting"]
               /\ UNCHANGED exit
       /\ UNCHANGED <<portVars, cpu, cancelled, nextId, poolVars, guest, work, gpu, eop, left, shown,
                      eventVars>>

\* TriggerVideoOutEvents copies the port's list, and then triggers for each
\* registration of the current generation the one event of its queue, whichever
\* port that was added for.
CopyRegistrations ==
    LET p == present.request.port
    IN /\ Running /\ present.pc = "presenting" /\ copied = "unread"
       /\ copied' = IF port[p].generation \in registered[p] THEN "some" ELSE "none"
       /\ UNCHANGED <<port, registered, owner, bereft, queueVars, poolVars, threadVars, shown, exit,
                      eventVars>>

TriggerFlipEvents(q, id) ==
    IF copied = "some" /\ Alive(q) /\ Has(q, Flip)
    THEN Triggers(q, Flip, id) ELSE UNCHANGED <<equeue, history>>

\* Presenter::Present gives the frame back as the last one shown.  All is under
\* the queue's mutex from where the request goes; only the copy of the list, which
\* no user of that mutex changes, is shown before it.
Shows ==
    LET r == present.request
        q == QueueOf[r.port]
        front == requests # <<>> /\ Head(requests).id = r.id /\ Head(requests).state = "Presenting"
    IN /\ Running /\ present.pc = "presenting" /\ copied # "unread"
       /\ IF front THEN UNCHANGED exit ELSE Die("processing")
       /\ requests' = IF requests # <<>> THEN Tail(requests) ELSE requests
       /\ free' = Append(free, r.frame) /\ last' = r.frame
       /\ port' = [port EXCEPT ![r.port].pending = Pending - 1]
       /\ TriggerFlipEvents(q, r.id) /\ copied' = "unread"
       /\ shown' = IF copied = "some" THEN [shown EXCEPT ![q] = Append(@, r.id)] ELSE shown
       /\ present' = [pc |-> "end"]
       /\ UNCHANGED <<registered, owner, bereft, cpu, cancelled, nextId, guest, work, gpu, eop, left, waiter>>

\* Nothing was shown: the overlay, or a screen without a port, asks for a frame.
\* It is the last one shown or a new one, held only while it is shown.
Refresh ==
    /\ Running /\ present.pc = "idle"
    /\ Ime \/ \A p \in Ports : ~port[p].opened
    /\ last # NoFrame \/ free # <<>>
    /\ IF Ime /\ last # NoFrame
       THEN free' = Append(RemoveFirst(free, last), last) /\ UNCHANGED last
       ELSE free' = Append(Tail(free), Head(free)) /\ last' = Head(free)
    /\ present' = [pc |-> "end"]
    /\ UNCHANGED <<portVars, queueVars, guest, work, gpu, eop, left, shown, exit, eventVars>>

\* VblankEnd, and VblankBegin of the next turn, which changes nothing shown
\* here.  The count of vblanks matters modulo the intervals only.
Cycle == IF MaxRate = 2 THEN 6 ELSE MaxRate + 1
VblankEnd ==
    /\ Running /\ DriverFree
    /\ present.pc \in {"end"} \cup IF Ime THEN {} ELSE {"idle"}
    /\ port' = [p \in Ports |-> IF port[p].opened
                                THEN [port[p] EXCEPT !.vblank = (@ + 1) % Cycle] ELSE port[p]]
    /\ present' = [pc |-> "flip"]
    /\ UNCHANGED <<eventLists, queueVars, poolVars, guest, work, gpu, eop, left, shown, exit, eventVars>>
-----------------------------------------------------------------------------
GuestStep(g) ==
    \E p \in Ports :
       \/ "open" \in Calls[g] /\ (Open(g, p) \/ \E b \in BOOLEAN : SetBuffers(g, p, b))
       \/ "close" \in Calls[g] /\ CloseBegin(g, p)
       \/ "rate" \in Calls[g] /\ \E rate \in 0 .. MaxRate : SetFlipRateBegin(g, p, rate)
       \/ "events" \in Calls[g] /\ (RegisterFlipEvent(g, p) \/ DeleteFlipEvent(g, p))
       \/ "flip" \in Calls[g] /\ \E i \in Indexes : SubmitFlip(g, p, i)
       \/ "packets" \in Calls[g] /\ \E i \in Indexes, pc \in {"reserve", "wait"} :
             SubmitPackets(g, [pc |-> pc, port |-> p, index |-> i])
InCall(g) ==
    \/ Cancel(g) \/ CloseEnd(g) \/ SetFlipRateEnd(g) \/ SubmitFlipPreparation(g)
    \/ AddFlipEvent(g)
GpuThread ==
    \/ GpuTakes \/ EopReserve \/ Prepare \/ PrepareLooks \/ PrepareDrops
    \/ PrepareRecords \/ Flush \/ WaitFlipDone
PresentThread ==
    \/ NothingReady \/ Choose \/ LookWhetherDue \/ CopyRegistrations \/ Shows \/ Refresh \/ VblankEnd
Equeues ==
    \/ \E t \in Waiters : EqueueWait(t)
    \/ \E q \in Queues : EqueueUnlisted(q) \/ EqueueCloses(q) \/ EqueuePoll(q)

Next ==
    \/ \E g \in Guests : GuestStep(g) \/ InCall(g)
    \/ GpuThread \/ EndOfPipe \/ PresentThread \/ Equeues

\* Strong where a thread needs a port's mutex: guests that register again and
\* again free it in between each time, and a thread that waits gets it at last.
Fairness ==
    /\ \A g \in Guests : SF_vars(InCall(g))
    /\ SF_vars(GpuThread) /\ WF_vars(EndOfPipe) /\ SF_vars(PresentThread)

Spec == Init /\ [][Next]_vars
FairSpec == Spec /\ Fairness
-----------------------------------------------------------------------------
Lists == {requests, cpu, cancelled}
Listed == UNION {Ids(s) : s \in Lists}

\* No interleaving of closing, preparing, completing and showing ends the
\* program: of the assertions in FlipQueue (videoOut.cpp:912, 949, 958, 1028,
\* 1040, 1051, 1123, 1139) none is reached.  What a guest can provoke is a flip from a port
\* or buffer that it has closed or unregistered meanwhile, and a queue full of
\* its own flips in front of an end-of-pipe flip.
FlipQueueConsistent == exit \in {"none", "no port", "unregistered", "saturated"}

\* A frame of the pool is free or held by one request: FramePool::Release never
\* finds it free, and none is lost when a port closes with flips in any state.
FramesKept ==
    LET Held(s) == {k \in DOMAIN s : s[k].frame # NoFrame}
        holders == UNION {{<<i, k>> : k \in Held(<<requests, cpu, cancelled>>[i])} : i \in 1 .. 3}
        FrameOf(h) == <<requests, cpu, cancelled>>[h[1]][h[2]].frame
    IN /\ Len(free) + Cardinality(holders) = Cardinality(Frames)
       /\ Range(free) \cup {FrameOf(h) : h \in holders} = Frames
       /\ last # NoFrame => last \in Range(free)

\* A flip is reported once, in the order shown, to the queue its port is
\* registered with.  A registered port has its event until it, or the deletion of
\* the queue, takes it away, and an event has a port that is registered as it was
\* opened: closing, deleting and registering again in any order leave neither an
\* event without a port nor a port without its event.  Ports that use one queue
\* share its event, and a call for one of them deletes the other's: such a port
\* is excepted (bereft) until it registers again.
FlipsReported ==
    \A q \in Queues : LET users == {p \in Ports : QueueOf[p] = q} IN
        (Running /\ Alive(q) /\ \A p \in users : ~Closing(p)) =>
            /\ \A p \in users \ bereft : registered[p] # {} => Has(q, Flip) \/ Registering(p)
            /\ Has(q, Flip) =>
                  /\ \E p \in users : p \in bereft \/ registered[p] = {port[p].generation}
                  /\ shown[q] = history[q][Flip].got
                                \o Contents(equeue[q].events[Find(q, Flip)])

\* A guest that polls IsFlipPending is never told that all is shown while a
\* flip of the port is queued, and a closed port has none queued.
PendingTruthful ==
    \A p \in Ports :
        LET mine == {r \in Range(requests) \cup Range(cpu) : r.port = p}
        IN /\ Running /\ mine # {} /\ ~Closing(p) => port[p].opened /\ port[p].pending > 0
           /\ \A r \in mine : ~Closing(p) => r.generation = port[p].generation

\* The three together.
FlipsSound == FlipQueueConsistent /\ FramesKept /\ PendingTruthful

\* Every flip is shown or given up, and Close ends: no thread waits for ever
\* for a frame, a slot or another thread (a call that registers for flips waits
\* for nothing).  The one way to hang is a GPU thread
\* that waits (WaitFlipDone) for a flip whose preparation stands behind it.
SelfWait ==
    gpu.pc = "wait" /\ \E k \in DOMAIN cpu : cpu[k].port = gpu.port /\ cpu[k].index = gpu.index
Settled ==
    Listed = {} /\ gpu = Idle /\ work = <<>> /\ \A g \in Guests : guest[g].pc \in {"idle", "register"}
AllShown == Settled \/ SelfWait \/ ~Running
FlipsEnd == []<>AllShown

\* The assertion at the head of Open (videoOut.cpp:630): a port that is opened
\* was left as Close leaves it.
OpenFindsReset == exit # "open"
=============================================================================
