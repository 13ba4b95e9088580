------------------------------ MODULE BufferCache ------------------------------
(***************************************************************************)
(* The cache of GPU buffers (BufferCache of                                *)
(* graphics/host_gpu/renderer/cache/bufferCache.cpp) as one GPU thread     *)
(* uses it: which buffer owns which guest memory, how overlapping buffers  *)
(* are joined, what an operation of the GPU has bound while later lookups  *)
(* join buffers, and what the collector takes away.                        *)
(*                                                                         *)
(* A cell is a page of the tracker, PageCells of them are a page of the    *)
(* cache.  A cell belongs to the CPU side, to the GPU side or to neither;  *)
(* how a page changes sides under faults is GpuMemory's subject and one    *)
(* step here.  A value is the number of the write that made it.  An id     *)
(* stands for a slot and its generation and is never given out twice.  One *)
(* scheduler records; images that alias buffers are left out.              *)
(***************************************************************************)
EXTENDS Integers, Sequences, SequencesExt, FiniteSets, FiniteSetsExt

CONSTANTS CachePages, PageCells,
          Stored,          \* the cells that threads and the host's DMA write one by one
          Operations,      \* draws, dispatches, copies and fills: what each binds
          Age, CriticalAge, Limit, CriticalLimit,    \* of RunGarbageCollector
          MaxWrites, MaxBuffers, MaxCollections      \* bounds

Cells == 0 .. CachePages * PageCells - 1
CellRange == {r \in [first : Cells, past : Cells \cup {CachePages * PageCells}] : r.first < r.past}
Within(range) == range.first .. range.past - 1

BufferCacheAssumption ==
    /\ CachePages \in Nat \ {0} /\ PageCells \in Nat \ {0} /\ Stored \subseteq Cells
    /\ \A use \in Operations :
          /\ \A i \in DOMAIN use.storage : use.storage[i].range \in CellRange
          /\ \A i \in DOMAIN use.vertex : use.vertex[i] \in CellRange
    /\ {Age, CriticalAge, MaxWrites, MaxBuffers, MaxCollections} \subseteq Nat
    /\ {Limit, CriticalLimit} \subseteq Nat \ {0}

VARIABLES buffer,       \* m_slot_buffers: the buffers that are allocated, by id
          page_table,   \* m_page_table, 0 for no buffer
          lru,          \* m_lru_cache: ids and ticks, oldest first
          gc_tick,      \* m_gc_tick
          made,         \* ids given out so far
          retired,      \* buffers whose slots a deferred operation erases
          side,         \* MemoryTracker and m_gpu_modified_ranges
          memory, latest, clock,    \* guest memory; history: the last write of a cell
          op,           \* the operation that is being prepared
          faulted,      \* pages that operations used and that had no buffer
          lookup,       \* those a deferred operation of FaultManager looks up
          overtaken,    \* history: a lookup for vertices has joined a bound buffer
          torn          \* history: a store between the two halves of an image's upload

memoryVars == <<memory, latest, clock>>
indexVars == <<buffer, page_table, lru, made, retired>>
faultVars == <<faulted, lookup>>
cacheVars == <<indexVars, gc_tick, side, memoryVars, op, faultVars,
               overtaken, torn>>

NoBuffer == 0
Garbage == -1    \* bytes of a buffer that nothing has written
NoOp == [pc |-> "none"]

Init ==
    /\ buffer = <<>> /\ page_table = [p \in 0 .. CachePages - 1 |-> NoBuffer]
    /\ lru = <<>> /\ gc_tick = 0 /\ made = 0 /\ retired = {}
    /\ side = [c \in Cells |-> "cpu"]
    /\ memory = [c \in Cells |-> 0] /\ latest = [c \in Cells |-> 0] /\ clock = 0
    /\ op = NoOp /\ faulted = {} /\ lookup = {}
    /\ overtaken = FALSE /\ torn = FALSE

-----------------------------------------------------------------------------
(* The index, with the tick its list is touched at.  A lookup is a function from
   the index to the index. *)

Page(c) == c \div PageCells
PagesOf(range) == Page(range.first) .. Page(range.past - 1)
Index == [buffer |-> buffer, page_table |-> page_table, lru |-> lru, made |-> made,
          retired |-> retired, tick |-> gc_tick]
SetIndex(k) ==
    /\ buffer' = k.buffer /\ page_table' = k.page_table /\ lru' = k.lru
    /\ made' = k.made /\ retired' = k.retired
    /\ k.made <= MaxBuffers

Registered(k) == {id \in DOMAIN k.buffer : ~k.buffer[id].is_deleted}
InBounds(b, range) == b.first <= range.first /\ range.past <= b.past
Overlaps(b, range) == b.first < range.past /\ range.first < b.past

\* Register and Unregister.
Register(k, id) ==
    [k EXCEPT !.page_table = [p \in DOMAIN @ |-> IF p \in PagesOf(k.buffer[id]) THEN id ELSE @[p]],
              !.lru = Append(@, [id |-> id, tick |-> k.tick])]
Unregister(k, id) ==
    [k EXCEPT !.page_table = [p \in DOMAIN @ |->
                                IF p \in PagesOf(k.buffer[id]) THEN NoBuffer ELSE @[p]],
              !.lru = SelectSeq(@, LAMBDA item : item.id # id),
              !.buffer[id].is_deleted = TRUE]

\* DeleteBuffer: the slot is erased when the submission is done.
DeleteBuffer(k, id) == [Unregister(k, id) EXCEPT !.retired = @ \cup {id}]

\* CreateBuffer: whole pages, and all of each buffer that lies in them.
Rounded(range) == [first |-> Page(range.first) * PageCells,
                   past |-> (Page(range.past - 1) + 1) * PageCells]
Joined(k, range) == {id \in Registered(k) : Overlaps(k.buffer[id], Rounded(range))}

Created(k, range) ==
    LET old == Joined(k, range)
        firsts == {k.buffer[id].first : id \in old} \cup {Rounded(range).first}
        pasts == {k.buffer[id].past : id \in old} \cup {Rounded(range).past}
        Copied(c) == IF \E id \in old : c \in Within(k.buffer[id])
                       THEN k.buffer[CHOOSE id \in old : c \in Within(k.buffer[id])].data[c]
                       ELSE Garbage
        id == k.made + 1
        new == [first |-> Min(firsts), past |-> Max(pasts), is_deleted |-> FALSE,
                data |-> [c \in Min(firsts) .. Max(pasts) - 1 |-> Copied(c)]]
        emptied == FoldSet(LAMBDA o, acc : DeleteBuffer(acc, o), k, old)
    IN  Register([emptied EXCEPT !.buffer = [i \in DOMAIN @ \cup {id} |->
                                               IF i = id THEN new ELSE @[i]],
                                 !.made = id], id)

Owner(k, range) == k.page_table[Page(range.first)]
Finds(k, range) == Owner(k, range) # NoBuffer /\ InBounds(k.buffer[Owner(k, range)], range)

\* FindBuffer: the index and, in its page table, the owner of the range.
FindBuffer(k, range) == IF Finds(k, range) THEN k ELSE Created(k, range)

\* TouchBuffer, LeastRecentlyUsedCache::Touch.
Touched(k, id) ==
    IF \E i \in DOMAIN k.lru : k.lru[i].id = id /\ k.lru[i].tick < k.tick
      THEN [k EXCEPT !.lru = Append(SelectSeq(@, LAMBDA item : item.id # id),
                                    [id |-> id, tick |-> k.tick])]
      ELSE k

-----------------------------------------------------------------------------
(* Guest threads *)

Sides(cells, to) == side' = [c \in Cells |-> IF c \in cells THEN to ELSE side[c]]

\* A store; on a page that is clean it faults first and takes it for the CPU.
Store(c) ==
    /\ side[c] # "gpu" /\ clock < MaxWrites
    /\ Sides({c}, "cpu")
    /\ memory' = [memory EXCEPT ![c] = clock + 1] /\ latest' = [latest EXCEPT ![c] = clock + 1]
    /\ clock' = clock + 1
    /\ op' = IF op.pc \in {"none", "exit"} THEN op ELSE [op EXCEPT !.touched = @ \cup {c}]
    /\ UNCHANGED <<indexVars, gc_tick, faultVars, overtaken, torn>>

-----------------------------------------------------------------------------
(* The GPU thread between operations *)

Idle == op.pc = "none"
Data(k, c) == k.buffer[k.page_table[Page(c)]].data[c]

\* IsRegionRegistered: the last buffer that begins before the end.
IsRegionRegistered(range) ==
    LET before == {id \in Registered(Index) : buffer[id].first < range.past}
    IN  \E id \in before : /\ \A other \in before : buffer[other].first <= buffer[id].first
                           /\ buffer[id].past > range.first

\* ReadMemoryOnGpu, for a fault or for UnmapMemory.
ReadMemoryOnGpu(range, is_write) ==
    /\ Idle
    /\ \E c \in Within(range) : side[c] = "gpu"
    /\ IF is_write /\ ~IsRegionRegistered(range)
         THEN UNCHANGED <<memory, side>>
         ELSE /\ memory' = [c \in Cells |-> IF c \in Within(range) /\ side[c] = "gpu"
                                              THEN Data(Index, c) ELSE memory[c]]
              /\ side' = [c \in Cells |-> IF c \notin Within(range) THEN side[c]
                                          ELSE IF is_write THEN "cpu"
                                          ELSE IF side[c] = "gpu" THEN "clean" ELSE side[c]]
    /\ UNCHANGED <<indexVars, gc_tick, latest, clock, op, faultVars, overtaken, torn>>

\* The slots of some retired buffers are erased.
Erased(k, ids) ==
    [k EXCEPT !.buffer = [id \in DOMAIN @ \ ids |-> @[id]], !.retired = @ \ ids]

\* FaultManager's deferred operation: a buffer for each run of faulted pages.
RunFrom(pages, p) == CHOOSE q \in p .. CachePages - 1 :
                        p .. q \subseteq pages /\ q + 1 \notin pages
Runs(pages) == {[first |-> p * PageCells, past |-> (RunFrom(pages, p) + 1) * PageCells] :
                   p \in {p \in pages : p - 1 \notin pages}}
LookedUp(k, pages) ==
    FoldSet(LAMBDA range, acc : FindBuffer(acc, range), k, Runs(pages))

\* PopPendingOperations at the boundary of an operation.
PopPendingOperations ==
    /\ Idle
    /\ retired # {} \/ lookup # {}
    /\ SetIndex(LookedUp(Erased(Index, retired), lookup))
    /\ lookup' = {}
    /\ UNCHANGED <<gc_tick, side, memoryVars, op, faulted, overtaken, torn>>

\* The host's path of FillBuffer and CopyBuffer: backing and buffers are written.
WriteHostMemory(range) ==
    LET hit == {id \in Registered(Index) : Overlaps(buffer[id], range)}
        Written(b) == [b EXCEPT !.data = [c \in DOMAIN @ |-> IF c \in Within(range)
                                                              THEN clock + 1 ELSE @[c]]]
    IN /\ Idle /\ clock < MaxWrites
       /\ \A c \in Within(range) : side[c] # "gpu"
       /\ SetIndex([FoldSet(LAMBDA id, acc : Touched(acc, id), Index, hit) EXCEPT
                       !.buffer = [id \in DOMAIN @ |-> IF id \in hit THEN Written(@[id])
                                                                     ELSE @[id]]])
       /\ memory' = [c \in Cells |-> IF c \in Within(range) THEN clock + 1 ELSE memory[c]]
       /\ latest' = [c \in Cells |-> IF c \in Within(range) THEN clock + 1 ELSE latest[c]]
       /\ clock' = clock + 1
       /\ UNCHANGED <<gc_tick, side, op, faultVars, overtaken, torn>>

-----------------------------------------------------------------------------
(* ObtainBuffer, on the index, the sides and what is bound so far. *)

Streamed == NoBuffer    \* the stream buffer: what is bound is a copy
\* Mutant: a buffer that was joined since it was found is taken all the same.
Usable_Deleted(k, range, id) == id \in DOMAIN k.buffer /\ InBounds(k.buffer[id], range)
Usable(k, range, id) == id \in Registered(k) /\ InBounds(k.buffer[id], range)

Stale(s, range) == {c \in Within(range) : s.side[c] = "cpu"}
Streams(s, range, is_written) ==
    /\ ~is_written /\ Cardinality(Within(range)) <= PageCells
    /\ \A c \in Within(range) : s.side[c] # "gpu"
    /\ Stale(s, range) # {}

\* SynchronizeBuffer: the pages of the CPU are uploaded.
Synchronized(s, id, range, is_written) ==
    [s EXCEPT !.k.buffer[id].data = [c \in DOMAIN @ |-> IF c \in Stale(s, range) THEN memory[c]
                                                                               ELSE @[c]],
              !.side = [c \in Cells |-> IF c \notin Within(range) THEN @[c]
                                        ELSE IF is_written THEN "gpu"
                                        ELSE IF @[c] = "cpu" THEN "clean" ELSE @[c]]]

Obtained(s, range, is_written, id, mapped) ==
    LET usable == Usable(s.k, range, id)
        k == IF usable THEN s.k ELSE FindBuffer(s.k, range)
        owner == IF usable THEN id ELSE Owner(k, range)
        current == Synchronized([s EXCEPT !.k = Touched(k, owner)], owner, range, is_written)
        Binding(of, data) == [id |-> of, range |-> range, data |-> data]
    IN  IF mapped /\ Streams(s, range, is_written)
          THEN [s EXCEPT !.bound = Append(@, Binding(Streamed, [c \in Within(range) |-> memory[c]]))]
          ELSE [current EXCEPT !.bound = Append(@, Binding(owner, <<>>))]

Bindings == [k |-> Index, side |-> side, bound |-> op.bound]
SetBindings(s, pc) ==
    /\ SetIndex(s.k) /\ side' = s.side
    /\ op' = [op EXCEPT !.pc = pc, !.bound = s.bound, !.ids = IF pc = "bind" THEN @ ELSE <<>>]

-----------------------------------------------------------------------------
(* An operation: a draw, a dispatch, a copy or a fill *)

\* RenderExecutor::FindBuffers: every lookup before anything is bound.
FindBuffers(use) ==
    LET After == FoldLeft(LAMBDA acc, resource :
                            LET k == FindBuffer(acc.k, resource.range)
                            IN  [k |-> k, ids |-> Append(acc.ids, Owner(k, resource.range))],
                          [k |-> Index, ids |-> <<>>], use.storage)
    IN /\ Idle
       /\ SetIndex(After.k)
       /\ op' = [pc |-> IF use.dma THEN "bda" ELSE "bind", use |-> use, ids |-> After.ids,
                 bound |-> <<>>, touched |-> {}]
       /\ UNCHANGED <<gc_tick, side, memoryVars, faultVars, overtaken, torn>>

\* PrepareBda: SynchronizeBuffersInRange of everything that is mapped.
PrepareBda ==
    /\ op.pc = "bda"
    /\ LET After == FoldSet(LAMBDA id, s : Synchronized(s, id, s.k.buffer[id], FALSE),
                            Bindings, Registered(Index))
       IN  SetBindings(After, "bind")
    /\ UNCHANGED <<gc_tick, memoryVars, faultVars, overtaken, torn>>

\* RebindBuffers; "mapped" says whether the stream buffer had room.
RebindBuffers(mapped) ==
    LET After == FoldLeftDomain(LAMBDA s, i :
                    Obtained(s, op.use.storage[i].range, op.use.storage[i].written, op.ids[i], mapped),
                    Bindings, op.use.storage)
    IN /\ op.pc = "bind"
       /\ SetBindings(After, "fetch")
       /\ UNCHANGED <<gc_tick, memoryVars, faultVars, overtaken, torn>>

\* AcquireVertexBuffers and PrepareIndexBuffer: no lookup went before.
AcquireVertexBuffers(mapped) ==
    LET After == FoldLeft(LAMBDA s, range : Obtained(s, range, FALSE, NoBuffer, mapped),
                          Bindings, op.use.vertex)
    IN /\ op.pc = "fetch"
       /\ SetBindings(After, "record")
       /\ overtaken' = (overtaken \/ \E i \in DOMAIN After.bound :
                           /\ After.bound[i].id \notin Registered(After.k) \cup {Streamed}
                           /\ i \in DOMAIN op.bound => op.bound[i].id \in Registered(Index))
       /\ UNCHANGED <<gc_tick, memoryVars, faultVars, torn>>

\* The commands are recorded and what they write gets a new value; an access
\* through an address that no buffer has is noted in the fault buffer.
Written == UNION {Within(op.use.storage[i].range) : i \in {i \in DOMAIN op.use.storage :
                                                              op.use.storage[i].written}}
WritesTo(id) == UNION {Within(op.use.storage[i].range) :
                          i \in {i \in DOMAIN op.use.storage : /\ op.use.storage[i].written
                                                               /\ op.bound[i].id = id}}
Record(pages) ==
    /\ op.pc = "record"
    /\ pages # {} => op.use.dma
    /\ Written # {} => clock < MaxWrites
    /\ buffer' = [id \in DOMAIN buffer |->
                    [buffer[id] EXCEPT !.data = [c \in DOMAIN @ |-> IF c \in WritesTo(id) THEN clock + 1
                                                                                         ELSE @[c]]]]
    /\ latest' = [c \in Cells |-> IF c \in Written THEN clock + 1 ELSE latest[c]]
    /\ clock' = IF Written = {} THEN clock ELSE clock + 1
    /\ faulted' = faulted \cup pages
    /\ op' = NoOp
    /\ UNCHANGED <<page_table, lru, made, retired, gc_tick, side, memory, lookup, overtaken, torn>>

-----------------------------------------------------------------------------
(* The source of an image *)

GpuDirty(range) == \E c \in Within(range) : side[c] = "gpu"
CpuModified(range) == \E c \in Within(range) : side[c] = "cpu"

\* ObtainBufferForImage, up to its copy of the backing into the staging buffer.
ObtainBufferForImage(range) ==
    LET k == IF GpuDirty(range) THEN FindBuffer(Index, range) ELSE Index
        serves == Finds(k, range) /\ ~CpuModified(range)
    IN /\ Idle
       /\ SetIndex(IF serves THEN Touched(k, Owner(k, range)) ELSE k)
       /\ op' = IF serves THEN NoOp
                ELSE [pc |-> "staged", range |-> range, touched |-> {},
                      copy |-> [c \in Within(range) |-> memory[c]]]
       /\ UNCHANGED <<gc_tick, side, memoryVars, faultVars, overtaken, torn>>

\* The rest: a buffer that owns the range gets from the copy what was the CPU's.
UploadStaged ==
    LET range == op.range
        id == Owner(Index, range)
        upload == {c \in Within(range) : side[c] = "cpu"}
    IN /\ op.pc = "staged"
       /\ IF Finds(Index, range)
            THEN LET k == Touched(Index, id) IN
                 /\ SetIndex([k EXCEPT !.buffer[id].data =
                                 [c \in DOMAIN @ |-> IF c \in upload THEN op.copy[c] ELSE @[c]]])
                 /\ side' = [c \in Cells |-> IF c \in upload THEN "clean" ELSE side[c]]
                 /\ torn' = (torn \/ upload \cap op.touched # {})
            ELSE UNCHANGED <<indexVars, side, torn>>
       /\ op' = NoOp
       /\ UNCHANGED <<gc_tick, memoryVars, faultVars, overtaken>>

-----------------------------------------------------------------------------
(* The collector, between submissions *)

Old(age) == gc_tick - Min({age, gc_tick})
\* Mutant: only the first page of a buffer is asked for.
Dirty_First(id) == side[buffer[id].first] = "gpu"
Dirty(id) == GpuDirty(buffer[id])
Collectable(age, limit, aggressive) ==
    LET aged == SelectSeq(lru, LAMBDA item : item.tick <= Old(age) /\ (aggressive \/ ~Dirty(item.id)))
    IN  {aged[i].id : i \in 1 .. Min({limit, Len(aged)})}
CellsOf(ids) == UNION {Within(buffer[id]) : id \in ids}

\* ProcessFaultBuffer and, below the threshold, nothing else.
CollectNothing ==
    /\ Idle /\ gc_tick < MaxCollections
    /\ gc_tick' = gc_tick + 1
    /\ lookup' = lookup \cup faulted /\ faulted' = {}
    /\ UNCHANGED <<indexVars, side, memoryVars, op, overtaken, torn>>

\* Above the threshold: old buffers that the GPU owns nothing of.
CollectClean(aggressive) ==
    LET clean == IF aggressive THEN Collectable(CriticalAge, CriticalLimit, TRUE)
                               ELSE Collectable(Age, Limit, FALSE)
    IN /\ Idle /\ gc_tick < MaxCollections
       /\ \A id \in clean : ~Dirty(id)
       /\ gc_tick' = gc_tick + 1
       /\ SetIndex(FoldSet(LAMBDA id, acc : DeleteBuffer(acc, id), Index, clean))
       /\ Sides(CellsOf(clean), "cpu")
       /\ lookup' = lookup \cup faulted /\ faulted' = {}
       /\ UNCHANGED <<memoryVars, op, overtaken, torn>>

(***************************************************************************)
(* In need of memory: old buffers whatever they hold.  What the GPU owns   *)
(* is downloaded, and the Finish of the download runs the deferred         *)
(* operations, the lookups for faulted pages among them, at the new tick;  *)
(* when one joins a buffer that is being collected, Unregister ends the    *)
(* process.                                                                *)
(***************************************************************************)
CollectCritical ==
    LET taken == Collectable(CriticalAge, CriticalLimit, TRUE)
        dirty == {id \in taken : Dirty(id)}
        retiring == FoldSet(LAMBDA id, acc : DeleteBuffer(acc, id), Index, taken \ dirty)
        finished == LookedUp([Erased(retiring, retiring.retired) EXCEPT !.tick = gc_tick + 1],
                             lookup \cup faulted)
        Saved(c) == IF c \in CellsOf(dirty) /\ side[c] = "gpu" THEN Data(Index, c) ELSE memory[c]
    IN /\ Idle /\ gc_tick < MaxCollections
       /\ gc_tick' = gc_tick + 1
       /\ dirty # {}
       /\ IF dirty \subseteq Registered(finished)
            THEN /\ SetIndex(Erased(FoldSet(LAMBDA id, acc : Unregister(acc, id), finished, dirty), dirty))
                 /\ memory' = [c \in Cells |-> Saved(c)]
                 /\ Sides(CellsOf(taken), "cpu")
                 /\ op' = op
            ELSE /\ op' = [pc |-> "exit"]
                 /\ UNCHANGED <<indexVars, memory, side>>
       /\ faulted' = {} /\ lookup' = {}
       /\ UNCHANGED <<latest, clock, overtaken, torn>>

-----------------------------------------------------------------------------
Collect == CollectNothing \/ CollectCritical \/ \E aggressive \in BOOLEAN : CollectClean(aggressive)
Unregistered == {p \in DOMAIN page_table : page_table[p] = NoBuffer}
Operate ==
    \/ \E use \in Operations : FindBuffers(use)
    \/ PrepareBda
    \/ \E mapped \in BOOLEAN : RebindBuffers(mapped) \/ AcquireVertexBuffers(mapped)
    \/ \E pages \in {{}, Unregistered} : Record(pages)
\* Faults are for a cell, UnmapMemory is for everything, and so are images; the
\* host writes one cell or all.
OneCell == {r \in CellRange : Cardinality(Within(r)) = 1}
Everything == [first |-> 0, past |-> CachePages * PageCells]

Next ==
    \/ \E c \in Stored : Store(c)
    \/ \E range \in OneCell, is_write \in BOOLEAN : ReadMemoryOnGpu(range, is_write)
    \/ ReadMemoryOnGpu(Everything, TRUE)
    \/ \E range \in {r \in OneCell : Within(r) \subseteq Stored} \cup {Everything} : WriteHostMemory(range)
    \/ ObtainBufferForImage(Everything)
    \/ UploadStaged \/ PopPendingOperations \/ Operate \/ Collect

Spec == Init /\ [][Next]_cacheVars

-----------------------------------------------------------------------------
TypeOK ==
    /\ DOMAIN buffer \subseteq 1 .. made /\ retired \subseteq DOMAIN buffer
    /\ page_table \in [0 .. CachePages - 1 -> {NoBuffer} \cup DOMAIN buffer]
    /\ side \in [Cells -> {"cpu", "gpu", "clean"}]
    /\ op.pc \in {"none", "bda", "bind", "fetch", "record", "staged", "exit"}

\* Registered buffers are disjoint and the page table is theirs.
BuffersDisjoint ==
    /\ \A p \in DOMAIN page_table :
          {id \in Registered(Index) : p \in PagesOf(buffer[id])}
             = {page_table[p]} \ {NoBuffer}
    /\ retired = DOMAIN buffer \ Registered(Index)

\* The collector's list has every registered buffer once, the oldest first.
LruOrdered ==
    /\ {lru[i].id : i \in DOMAIN lru} = Registered(Index) /\ IsInjective([i \in DOMAIN lru |-> lru[i].id])
    /\ \A i, j \in DOMAIN lru : i < j => lru[i].tick <= lru[j].tick

\* Memory holds the last write of every cell that the GPU does not own, a buffer
\* the last write of every cell that the CPU does not own.
ContentsKept ==
    \A c \in Cells :
       /\ side[c] # "gpu" => memory[c] = latest[c]
       /\ side[c] # "cpu" => page_table[Page(c)] # NoBuffer /\ Data(Index, c) = latest[c]

\* The cache has one buffer for each page at most, in agreement with the page
\* table and the collector's list, and neither a join, nor a download, nor a
\* collection loses a write (CreateBuffer, RunGarbageCollector).  A lookup for
\* vertices that joins a bound buffer and a store inside an image's upload are
\* excepted.
BufferCacheSound ==
    TypeOK /\ BuffersDisjoint /\ LruOrdered /\ (overtaken \/ torn \/ ContentsKept)

\* What an operation has bound when it is recorded is still registered and holds
\* the last write of every cell that no store has touched since it began
\* (RebindBuffers after FindBuffers; ObtainBuffer).
BindingsCurrent ==
    op.pc = "record" /\ ~overtaken /\ ~torn =>
       \A i \in DOMAIN op.bound :
          LET bound == op.bound[i]
          IN  /\ bound.id # Streamed => bound.id \in Registered(Index)
              /\ \A c \in Within(bound.range) \ op.touched :
                    latest[c] = IF bound.id = Streamed THEN bound.data[c] ELSE buffer[bound.id].data[c]
=============================================================================
