------------------------------ MODULE StreamBuffer ------------------------------
(***************************************************************************)
(* The ring of host memory that uploads, uniforms and downloads go through *)
(* (StreamBuffer of graphics/host_gpu/renderer/cache/streamBuffer.cpp): a  *)
(* caller maps a region, fills it, commits it under the current tick, and  *)
(* the ring hands the bytes out again when that tick is complete.          *)
(*                                                                         *)
(* The GPU thread is the only caller.  Of the scheduler this module shows  *)
(* the timeline: the current tick, the ticks the device has completed and, *)
(* for downloads, the priority operations that read a region.  An          *)
(* operation of the GPU may map several regions before it is recorded; a   *)
(* wait for the current tick submits the command buffer in between         *)
(* (CommandScheduler::Wait).                                               *)
(***************************************************************************)
EXTENDS Integers, Sequences

CONSTANTS RingSize,      \* Size()
          Atom,          \* nonCoherentAtomSize, 1 for coherent memory
          Requests,      \* sizes asked for
          Alignments,    \* and alignments
          MaxTick        \* bound: maps and submissions begin below this tick

VARIABLES ring,      \* the members of StreamBuffer
          map,       \* the call of Map that waits, or the region it returned
          tick,      \* MasterSemaphore's current tick
          done,      \* the ticks the device has completed
          prepared,  \* regions committed for the operation that is being prepared
          inFlight   \* regions of recorded operations that may still be used

ringVars == <<ring, map, tick, done, prepared, inFlight>>

\* m_previous_watches and m_current_watches up to their marks; without an
\* m_invalidation_mark the ring has not wrapped and there is no previous watch.
Init ==
    /\ ring \in [offset : {0}, mapped : {0}, current : {<<>>}, previous : {<<>>},
                 cursor : {0}, bound : {0}, download : BOOLEAN]
    /\ map = [pc |-> "idle"]
    /\ tick = 1 /\ done = 0 /\ prepared = {} /\ inFlight = {}

-----------------------------------------------------------------------------
AlignUp(value, alignment) ==
    IF value % alignment = 0 THEN value ELSE value + (alignment - (value % alignment))

\* The least common multiple of an alignment and the atom (NormalizeReservation).
Divides(d, n) == n % d = 0
LeastCommonMultiple(alignment, n) ==
    /\ Divides(alignment, n) /\ Divides(Atom, n)
    /\ \A k \in 1 .. n - 1 : ~(Divides(alignment, k) /\ Divides(Atom, k))
Joint(alignment) == CHOOSE n \in 1 .. alignment * Atom : LeastCommonMultiple(alignment, n)
Rounded(size) == AlignUp(size, Atom)

\* The last conjunct, that least common multiples exist, is for the provers.
StreamBufferAssumption ==
    /\ RingSize \in Nat \ {0} /\ Atom \in Nat \ {0}
    /\ Requests \subseteq Nat \ {0} /\ Alignments \subseteq Nat \ {0}
    /\ MaxTick \in Nat
    /\ \A alignment \in Alignments :
          \E n \in 1 .. alignment * Atom : LeastCommonMultiple(alignment, n)

Wraps(size, alignment) == AlignUp(ring.offset, alignment) > RingSize - size

\* Map, up to the loop of WaitPendingOperations: where the region would be and
\* which watches stand for what was there.  A request that is too large changes
\* nothing.
MapBegin(request, alignment, allow_wait) ==
    LET size == Rounded(request)
        wrap == Wraps(size, Joint(alignment))
    IN /\ map.pc = "idle" /\ tick < MaxTick
       /\ size <= RingSize
       /\ map' = [pc |-> "wait", wrap |-> wrap, allow |-> allow_wait, size |-> size,
                  lo |-> IF wrap THEN 0 ELSE AlignUp(ring.offset, Joint(alignment)),
                  cursor |-> IF wrap THEN 0 ELSE ring.cursor,
                  bound |-> IF wrap THEN 0 ELSE ring.bound]
       /\ UNCHANGED <<ring, tick, done, prepared, inFlight>>

Watches == IF map.wrap THEN ring.current ELSE ring.previous
Pending == map.lo + map.size > map.bound /\ map.cursor < Len(Watches)
NextWatch == Watches[map.cursor + 1]

\* One watch is complete: Wait returns, and for downloads WaitPriorityOperations.
WatchPassed_DeviceOnly ==
    /\ map.pc = "wait" /\ Pending /\ NextWatch.tick <= done
    /\ map' = [map EXCEPT !.cursor = @ + 1, !.bound = NextWatch.upper]
    /\ UNCHANGED <<ring, tick, done, prepared, inFlight>>
WatchPassed ==
    /\ map.pc = "wait" /\ Pending /\ NextWatch.tick <= done
    /\ ring.download => \A p \in inFlight : p.tick > NextWatch.tick
    /\ map' = [map EXCEPT !.cursor = @ + 1, !.bound = NextWatch.upper]
    /\ UNCHANGED <<ring, tick, done, prepared, inFlight>>

\* Without allow_wait the call gives up, and the ring is as before.
MapRefused ==
    /\ map.pc = "wait" /\ Pending /\ NextWatch.tick > done /\ ~map.allow
    /\ map' = [pc |-> "idle"]
    /\ UNCHANGED <<ring, tick, done, prepared, inFlight>>

\* Wait for the current tick submits what has been recorded.
WaitSubmits ==
    /\ map.pc = "wait" /\ Pending /\ map.allow /\ NextWatch.tick = tick
    /\ tick' = tick + 1
    /\ UNCHANGED <<ring, map, done, prepared, inFlight>>

\* The end of Map: a wrap makes the current watches the previous ones.
MappedRing ==
    [ring EXCEPT !.offset = map.lo, !.mapped = map.size,
                 !.cursor = map.cursor, !.bound = map.bound,
                 !.current = IF map.wrap THEN <<>> ELSE @,
                 !.previous = IF map.wrap THEN ring.current ELSE @]

MapReturns ==
    /\ map.pc = "wait" /\ ~Pending
    /\ ring' = MappedRing
    /\ map' = [pc |-> "mapped"]
    /\ UNCHANGED <<tick, done, prepared, inFlight>>

\* Commit: a region of the tick of the last watch joins it.
Watched(current, upper) ==
    IF current # <<>> /\ current[Len(current)].tick = tick
    THEN [current EXCEPT ![Len(current)].upper = upper]
    ELSE Append(current, [tick |-> tick, upper |-> upper])

Commit ==
    LET past == ring.offset + ring.mapped
    IN /\ map.pc = "mapped" /\ map' = [pc |-> "idle"]
       /\ ring' = [ring EXCEPT !.offset = past, !.current = Watched(@, past)]
       /\ prepared' = prepared \cup {[lo |-> ring.offset, hi |-> past, stamp |-> tick]}
       /\ UNCHANGED <<tick, done, inFlight>>

\* The caller could not fill the region (TryReadBacking in ObtainBuffer) and
\* does not commit it.
Abandon ==
    /\ map.pc = "mapped" /\ map' = [pc |-> "idle"]
    /\ UNCHANGED <<ring, tick, done, prepared, inFlight>>

\* The operation is recorded into the command buffer of the current tick; one
\* that downloads leaves a priority operation that reads its regions.
Record ==
    /\ map.pc = "idle" /\ prepared # {}
    /\ prepared' = {}
    /\ inFlight' = inFlight \cup
           {[lo |-> p.lo, hi |-> p.hi, stamp |-> p.stamp, tick |-> tick] : p \in prepared}
    /\ UNCHANGED <<ring, map, tick, done>>

\* A submission between two operations.
Submit ==
    /\ map.pc = "idle" /\ prepared = {} /\ tick < MaxTick
    /\ tick' = tick + 1
    /\ UNCHANGED <<ring, map, done, prepared, inFlight>>

\* The device completes a tick and no longer uses what was uploaded for it.
DeviceCompletes ==
    /\ done < tick - 1
    /\ done' = done + 1
    /\ inFlight' = IF ring.download THEN inFlight ELSE {p \in inFlight : p.tick > done'}
    /\ UNCHANGED <<ring, map, tick, prepared>>

\* A priority operation has read a download.
PriorityOperation(p) ==
    /\ ring.download /\ p \in inFlight /\ p.tick <= done
    /\ inFlight' = inFlight \ {p}
    /\ UNCHANGED <<ring, map, tick, done, prepared>>

MapLoop == WatchPassed \/ MapRefused \/ WaitSubmits \/ MapReturns

Next ==
    \/ \E request \in Requests, alignment \in Alignments, allow_wait \in BOOLEAN :
          MapBegin(request, alignment, allow_wait)
    \/ MapLoop \/ Commit \/ Abandon \/ Record \/ Submit
    \/ DeviceCompletes \/ \E p \in inFlight : PriorityOperation(p)

\* The loop of Map goes on; the device completes submissions and the priority
\* thread runs its operations.
Fairness ==
    /\ WF_ringVars(MapLoop) /\ WF_ringVars(DeviceCompletes)
    /\ WF_ringVars(\E p \in inFlight : PriorityOperation(p))

Spec == Init /\ [][Next]_ringVars
FairSpec == Spec /\ Fairness

-----------------------------------------------------------------------------
Watch == [tick : Nat, upper : 0 .. RingSize]
Region == [lo : 0 .. RingSize, hi : 0 .. RingSize, stamp : Nat]

TypeOK ==
    /\ ring \in [offset : 0 .. RingSize, mapped : 0 .. RingSize,
                 current : Seq(Watch), previous : Seq(Watch),
                 cursor : Nat, bound : 0 .. RingSize, download : BOOLEAN]
    /\ map \in [pc : {"idle", "mapped"}]
               \cup [pc : {"wait"}, wrap : BOOLEAN, allow : BOOLEAN,
                     size : 1 .. RingSize, lo : 0 .. RingSize,
                     cursor : Nat, bound : 0 .. RingSize]
    /\ tick \in Nat \ {0} /\ done \in Nat
    /\ prepared \subseteq Region
    /\ inFlight \subseteq [lo : 0 .. RingSize, hi : 0 .. RingSize, stamp : Nat, tick : Nat]

\* Regions that are used under the tick they were committed under: those of
\* operations during whose preparation no Map submitted the command buffer.
Timely == {p \in inFlight : p.stamp = p.tick} \cup {p \in prepared : p.stamp = tick}

\* A region that Map hands out has no byte of a region that the device or a
\* priority operation still uses (Map, WaitPendingOperations, Commit).
RegionFree ==
    map.pc = "mapped" =>
        \A p \in Timely : p.hi <= ring.offset \/ ring.offset + ring.mapped <= p.lo

\* On memory that is not coherent, flushing a region touches no other one's
\* atoms: regions begin and end between atoms (NormalizeReservation).
AtomsApart == \A p \in prepared \cup inFlight : Divides(Atom, p.lo) /\ Divides(Atom, p.hi)

RingSound == TypeOK /\ RegionFree /\ AtomsApart

\* A call of Map returns, whatever it waits for (WaitPendingOperations,
\* CommandScheduler::Wait, WaitPriorityOperations).
MapEnds == map.pc = "wait" ~> map.pc # "wait"
=============================================================================
