--------------------------- MODULE MCCommandScheduler ---------------------------
(***************************************************************************)
(* The command schedulers, the ring of a stream buffer and the cache of    *)
(* buffers for TLC: a behaviour uses the part it begins with.              *)
(***************************************************************************)
EXTENDS StreamBuffer

CONSTANTS Graphics, Compute, None, GrowStep, MaxOps,
          CachePages, PageCells, Stored, Operations, Age, CriticalAge, Limit, CriticalLimit,
          MaxWrites, MaxBuffers, MaxCollections

VARIABLES part,
          asyncCompute, current, known, complete, recording, active, open, pool, hint,
          pending, priority, running, state, slice, progressed, todo, copy, down,
          buffer, page_table, lru, gc_tick, made, retired, side, memory, latest, clock, op,
          faulted, lookup, overtaken, torn

Device == INSTANCE CommandScheduler WITH done <- complete
Cache == INSTANCE BufferCache

ASSUME StreamBufferAssumption /\ Device!CommandSchedulerAssumption
ASSUME Cache!BufferCacheAssumption

deviceVars == <<asyncCompute, current, known, complete, recording, active, open, pool, hint,
                pending, priority, running, state, slice, progressed, todo, copy, down>>
cacheVars == <<buffer, page_table, lru, gc_tick, made, retired, side, memory, latest, clock, op,
               faulted, lookup, overtaken, torn>>
allVars == <<part, ringVars, deviceVars, cacheVars>>

\* The cache has two pages of two cells.  A dispatch whose second buffer joins
\* its first, a draw whose vertices join what it writes, and a dispatch that uses
\* addresses.
Cells(first, past) == [first |-> first, past |-> past]
Read(range) == [range |-> range, written |-> FALSE]
Write(range) == [range |-> range, written |-> TRUE]
Uses == {[storage |-> <<Read(Cells(0, 1)), Write(Cells(1, 3))>>, vertex |-> <<>>, dma |-> FALSE],
         [storage |-> <<Write(Cells(0, 1))>>, vertex |-> <<Cells(1, 3)>>, dma |-> FALSE],
         [storage |-> <<>>, vertex |-> <<Cells(3, 4)>>, dma |-> TRUE]}

MCInit == /\ part \in {"device", "ring", "cache"} /\ Init /\ Device!Init /\ Cache!Init
          /\ part # "ring" => ~ring.download
          /\ part # "device" => ~asyncCompute

DeviceStep == part = "device" /\ Device!Next /\ UNCHANGED <<part, ringVars, cacheVars>>
\* At the bound of the ticks the ring has nothing left to do.
RingAtBound == map.pc = "idle" /\ tick = MaxTick /\ UNCHANGED ringVars
RingStep == part = "ring" /\ (Next \/ RingAtBound) /\ UNCHANGED <<part, deviceVars, cacheVars>>
\* A behaviour of the cache ends with one of the excepted joins and stores, at
\* the end of the process and at the bounds.
CacheEnds == overtaken \/ torn \/ op.pc = "exit"
CacheStep == /\ part = "cache" /\ UNCHANGED <<part, ringVars, deviceVars>>
             /\ \/ ~CacheEnds /\ Cache!Next
                \/ UNCHANGED cacheVars

MCSpec == /\ MCInit /\ [][DeviceStep \/ RingStep \/ CacheStep]_allVars
          /\ Fairness /\ Device!Fairness

SchedulerSound == Device!SchedulerSound
BufferCacheSound == Cache!BufferCacheSound
BindingsCurrent == Cache!BindingsCurrent
DeviceDoneFirst == Device!DeviceDoneFirst
EndOfPipeReported == Device!EndOfPipeReported
\* Every wait of the GPU thread ends, and so does a call of Map: in one formula,
\* for TLC's sake (Device!GpuThreadReturns, MapEnds).
GpuThreadReturns == []<>(todo = <<>> /\ map.pc # "wait")
=============================================================================
