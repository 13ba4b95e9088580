------------------------------- MODULE GuestMemory -------------------------------
(***************************************************************************)
(* The guest's virtual and direct memory (src/src/kernel/memory.cpp,       *)
(* memoryAddressSpace.inc).  One mutex serialises the calls; what can go   *)
(* wrong is that the records of one page drift apart: VirtualRanges,       *)
(* PhysicalMemory's mappings, FlexibleMemory, PooledMemory, the views of   *)
(* the backing store and the GPU's map are cut, moved and rolled back      *)
(* separately, and host calls in the middle of an operation may fail.      *)
(*                                                                         *)
(* Addresses are pages.  A Direct range and a mapping keep their first     *)
(* page and the physical page behind it, as in the code, so that cutting   *)
(* one has to move its offset; ranges of other types merge when they are   *)
(* alike and need neither.  Every reservation is named "anon" here, and    *)
(* ranges of one type and protection are alike; memory types, private      *)
(* ranges (stacks, code) and alignment are left out.                       *)
(***************************************************************************)
EXTENDS Integers, FiniteSets, FiniteSetsExt

CONSTANTS VirtualPages,   \* number of pages of the guest's address space
          DirectPages,    \* PhysicalMemory::Size(): the backing's first pages
          FlexiblePages,  \* FlexibleMemory::Size(): the pages after them
          Prots,          \* protections
          NoProt,         \* the protection of a reserved range
          HostFails       \* whether host calls (mmap) may fail

GuestMemoryAssumption ==
    /\ VirtualPages \in Nat \ {0} /\ DirectPages \in Nat /\ FlexiblePages \in Nat
    /\ NoProt \notin Prots /\ HostFails \in BOOLEAN

VARIABLES range,          \* g_virtual_ranges
          block,          \* PhysicalMemory's m_physical and m_free
          mapping,        \* PhysicalMemory's m_mappings
          flexible,       \* FlexibleMemory's m_allocated
          flexible_free,  \* ... m_free
          flexible_total, \* ... m_allocated_total
          pooled,         \* PooledMemory's m_mappings
          pool_free,      \* ... m_free
          expansions,     \* ... m_expansions
          view,           \* GuestBackingStore's m_maps
          gpu_mapped             \* pages mapped for the GPU (MapGpuRange)

vars == <<range, block, mapping, flexible, flexible_free, flexible_total,
          pooled, pool_free, expansions, view, gpu_mapped>>

Virtual == 1..VirtualPages
Direct == 1..DirectPages
Flexible == DirectPages + 1..DirectPages + FlexiblePages
Span(a, n) == a..a + n - 1

None == [type |-> "none", prot |-> NoProt, first |-> 0, offset |-> 0]
Reserved(type) == [None EXCEPT !.type = type]
Unmapped == [prot |-> NoProt, first |-> 0, offset |-> 0]

TypeOK ==
    /\ range \in [Virtual -> [type : {"none", "Reserved", "PoolReserved", "Direct",
                                      "Flexible", "Pooled"},
                              prot : Prots \union {NoProt},
                              first : 0..VirtualPages, offset : 0..DirectPages]]
    /\ block \in [Direct -> {"free", "direct", "pool"}]
    /\ mapping \in [Virtual -> [prot : Prots \union {NoProt},
                                first : 0..VirtualPages, offset : 0..DirectPages]]
    /\ flexible \in [Virtual -> Flexible \union {0}] /\ flexible_free \subseteq Flexible
    /\ flexible_total \in 0..FlexiblePages
    /\ pooled \in [Virtual -> 0..DirectPages] /\ pool_free \subseteq Direct
    /\ expansions \subseteq [start : Direct, size : Direct]
    /\ view \in [Virtual -> 0..DirectPages + FlexiblePages] /\ gpu_mapped \subseteq Virtual

Init ==
    /\ range = [v \in Virtual |-> None] /\ mapping = [v \in Virtual |-> Unmapped]
    /\ block = [p \in Direct |-> "free"]
    /\ flexible = [v \in Virtual |-> 0] /\ flexible_free = Flexible /\ flexible_total = 0
    /\ pooled = [v \in Virtual |-> 0] /\ pool_free = {} /\ expansions = {}
    /\ view = [v \in Virtual |-> 0] /\ gpu_mapped = {}

-----------------------------------------------------------------------------
(* Ranges and mappings.                                                    *)

Cut_OffsetKept(f, cuts) ==
    [v \in Virtual |->
        LET behind == {c \in cuts : f[v].first < c /\ c <= v}
        IN  IF f[v].first = 0 \/ behind = {} THEN f[v]
            ELSE [f[v] EXCEPT !.first = Max(behind)]]

\* AddPiece, and the same cut of a mapping: what lies behind a cut begins
\* there, at its own physical page.
Cut(f, cuts) ==
    [v \in Virtual |->
        LET behind == {c \in cuts : f[v].first < c /\ c <= v}
        IN  IF f[v].first = 0 \/ behind = {} THEN f[v]
            ELSE [f[v] EXCEPT !.first = Max(behind),
                              !.offset = @ + Max(behind) - f[v].first]]

\* RemoveUnlocked, PhysicalMemory::Unmap: the pages S become "nothing".
Without(f, S, nothing) ==
    LET kept == Cut(f, {v + 1 : v \in S})
    IN  [v \in Virtual |-> IF v \in S THEN nothing ELSE kept[v]]

\* The physical page behind page v of a range or a mapping.
PhysOf(f, v) == f[v].offset + v - f[v].first

Together(f, u, v) == \A w \in u..v : f[w] = f[u]
Committed(v) == range[v].type \in {"Direct", "Flexible", "Pooled"}

\* The pieces of ranges that lie in the pages S, one after the other.
Chunks(S) == {{v \in S : v >= c /\ Together(range, c, v)} :
                  c \in {u \in S : /\ range[u] # None
                                   /\ u - 1 \in S => range[u - 1] # range[u]}}

\* PhysicalMemory::Unmap finds one mapping that holds the whole chunk.
HasMapping(C) == /\ mapping[Min(C)] # Unmapped /\ Together(mapping, Min(C), Max(C))

\* The chunk can be unmapped if the host does its part.
Unmappable(C) ==
    LET type == range[Min(C)].type
    IN  CASE type \in {"Reserved", "PoolReserved"} -> \A v \in C : view[v] = 0
          [] type = "Direct" -> HasMapping(C) /\ \A v \in C : view[v] # 0
          [] type = "Flexible" -> \A v \in C : flexible[v] # 0 /\ view[v] # 0
          [] type = "Pooled" -> \A v \in C : pooled[v] # 0 /\ view[v] # 0

\* FindGuestFreeRange: the lowest place from "hint" on without views and ranges.
FreePlaces(hint, n) ==
    {a \in Virtual : /\ hint <= a /\ a + n - 1 <= VirtualPages
                     /\ \A v \in Span(a, n) : view[v] = 0 /\ range[v] = None}

AllReserved(S) == \A v \in S : range[v].type = "Reserved"

\* The backing of the pages S is given back by its owners.
GiveBack(S) ==
    /\ flexible_free' = flexible_free \union ({flexible[v] : v \in S} \ {0})
    /\ flexible_total' = flexible_total - Cardinality({v \in S : flexible[v] # 0})
    /\ flexible' = [v \in Virtual |-> IF v \in S THEN 0 ELSE flexible[v]]
    /\ pool_free' = pool_free \union ({pooled[v] : v \in S} \ {0})
    /\ pooled' = [v \in Virtual |-> IF v \in S THEN 0 ELSE pooled[v]]

\* The pages S become "what": nothing, or a reserved range.
Vacate(S, what) ==
    /\ range' = Without(range, S, what)
    /\ mapping' = Without(mapping, S, Unmapped)
    /\ view' = [v \in Virtual |-> IF v \in S THEN 0 ELSE view[v]]
    /\ GiveBack(S)

-----------------------------------------------------------------------------
(* Direct memory.                                                          *)

\* PhysicalMemory::Alloc: the first fit from "lo" on.
AllocPlaces(lo, n) ==
    {p \in Direct : lo <= p /\ p + n - 1 <= DirectPages
                    /\ \A q \in Span(p, n) : block[q] = "free"}
Alloc(lo, n, kind) ==
    LET start == Min(AllocPlaces(lo, n))
    IN  block' = [q \in Direct |-> IF q \in Span(start, n) THEN kind ELSE block[q]]

KernelAllocateDirectMemory(lo, n) ==
    /\ AllocPlaces(lo, n) # {}
    /\ Alloc(lo, n, "direct")
    /\ UNCHANGED <<range, mapping, flexible, flexible_free, flexible_total, pooled,
                   pool_free, expansions, view, gpu_mapped>>

\* What ReleaseDirectMemoryInternal finds mapped of the physical pages P
\* (FindMappings), mapping by mapping.
AliasPages(P) == {v \in Virtual : mapping[v] # Unmapped /\ PhysOf(mapping, v) \in P}
Aliases(P) == {{u \in AliasPages(P) : mapping[u] = mapping[v]} : v \in AliasPages(P)}

\* An alias that is not inside one Direct range ends the emulator (EXIT).
Escapes(P) == \E A \in Aliases(P) :
    \/ range[Min(A)].type # "Direct" \/ ~Together(range, Min(A), Max(A))
    \/ \E v \in A : view[v] = 0

Allocated(P) == \A p \in P : block[p] = "direct"

ReleaseExpansion(p, n) ==
    /\ expansions' = expansions \ {[start |-> p, size |-> n]}
    /\ pool_free' = pool_free \ Span(p, n)
    /\ block' = [q \in Direct |-> IF q \in Span(p, n) THEN "free" ELSE block[q]]
    /\ UNCHANGED <<range, mapping, flexible, flexible_free, flexible_total, pooled,
                   view, gpu_mapped>>

\* A span of direct memory is freed with all its aliases; if the host fails
\* to take a view away, the views taken so far are put back.
ReleaseAliases(P) ==
    \/ /\ range' = Without(range, AliasPages(P), None)
       /\ mapping' = Without(mapping, AliasPages(P), Unmapped)
       /\ view' = [v \in Virtual |-> IF v \in AliasPages(P) THEN 0 ELSE view[v]]
       /\ block' = [q \in Direct |-> IF q \in P THEN "free" ELSE block[q]]
       /\ gpu_mapped' = gpu_mapped \ AliasPages(P)
       /\ UNCHANGED <<flexible, flexible_free, flexible_total, pooled, pool_free, expansions>>
    \/ /\ HostFails /\ AliasPages(P) # {}
       /\ gpu_mapped' = gpu_mapped \union AliasPages(P)
       /\ UNCHANGED <<range, block, mapping, flexible, flexible_free, flexible_total,
                      pooled, pool_free, expansions, view>>

KernelReleaseDirectMemory(p, n) ==
    IF /\ [start |-> p, size |-> n] \in expansions /\ Span(p, n) \subseteq pool_free
    THEN ReleaseExpansion(p, n)
    ELSE /\ Allocated(Span(p, n)) /\ ~Escapes(Span(p, n))
         /\ ReleaseAliases(Span(p, n))

-----------------------------------------------------------------------------
(* Mapping.                                                                *)

\* ReplaceFixedRangeWithReserved: it needs what the ranges promise, and it
\* ends the emulator on pooled memory.
Replaceable(S) == /\ \A v \in S : range[v].type # "Pooled"
                  /\ \A v \in S : range[v] = None => view[v] = 0
                  /\ \A C \in Chunks(S) : Unmappable(C)

\* A chunk is not unmapped by the host: the chunks before it are put back, as
\* pieces of their own.
RollBack(S) ==
    /\ HostFails /\ ~AllReserved(S) /\ Replaceable(S)
    /\ \E C \in Chunks(S) :
          /\ \E v \in C : Committed(v)
          /\ LET undone == {B \in Chunks(S) : Max(B) < Min(C)}
             IN  mapping' = Cut(mapping, UNION {{Min(B), Max(B) + 1} : B \in undone})
    /\ range' = Cut(range, {Min(S), Max(S) + 1})
    /\ gpu_mapped' = (gpu_mapped \ S) \union {v \in S : Committed(v)}
    /\ UNCHANGED <<block, flexible, flexible_free, flexible_total, pooled, pool_free,
                   expansions, view>>

\* The host does not map the backing: the range stays reserved.
MapFails(S) ==
    /\ HostFails
    /\ Vacate(S, Reserved("Reserved"))
    /\ gpu_mapped' = gpu_mapped \ S
    /\ UNCHANGED <<block, expansions>>

\* MapBacking, PhysicalMemory::Map, the new range and the GPU's map.
MapAt(S, p, prot) ==
    LET piece == [prot |-> prot, first |-> Min(S), offset |-> p]
        direct == [type |-> "Direct", prot |-> prot, first |-> Min(S), offset |-> p]
    IN  /\ range' = Without(range, S, direct)
        /\ mapping' = Without(mapping, S, piece)
        /\ view' = [v \in Virtual |-> IF v \in S THEN p + v - Min(S) ELSE view[v]]
        /\ GiveBack(S)
        /\ gpu_mapped' = gpu_mapped \union S
        /\ UNCHANGED <<block, expansions>>

KernelMapDirectMemory(a, n, fixed, p, prot) ==
    /\ Allocated(Span(p, n))
    /\ IF fixed \/ AllReserved(Span(a, n))
       THEN \/ Replaceable(Span(a, n)) /\ MapAt(Span(a, n), p, prot)
            \/ Replaceable(Span(a, n)) /\ MapFails(Span(a, n))
            \/ RollBack(Span(a, n))
       ELSE /\ FreePlaces(a, n) # {}
            /\ MapAt(Span(Min(FreePlaces(a, n)), n), p, prot)

\* FlexibleMemory::Map takes the first free pages of the backing.
Lowest(S, n) == CHOOSE T \in SUBSET S : /\ Cardinality(T) = n
                                        /\ \A x \in T, y \in S \ T : x < y
MapFlexibleAt(S, prot) ==
    LET returned == {flexible[v] : v \in S} \ {0}
        taken == Lowest(flexible_free \union returned, Cardinality(S))
        page == [v \in S |-> CHOOSE q \in taken :
                    Cardinality({r \in taken : r < q}) = v - Min(S)]
    IN  /\ range' = Without(range, S, [None EXCEPT !.type = "Flexible", !.prot = prot])
        /\ mapping' = Without(mapping, S, Unmapped)
        /\ flexible' = [v \in Virtual |-> IF v \in S THEN page[v] ELSE flexible[v]]
        /\ flexible_free' = (flexible_free \union returned) \ taken
        /\ flexible_total' = flexible_total - Cardinality(returned) + Cardinality(S)
        /\ view' = [v \in Virtual |-> IF v \in S THEN page[v] ELSE view[v]]
        /\ gpu_mapped' = gpu_mapped \union S
        /\ UNCHANGED <<block, pooled, pool_free, expansions>>

KernelMapNamedFlexibleMemory(a, n, fixed, prot) ==
    /\ n <= FlexiblePages - flexible_total
    /\ IF fixed
       THEN \/ Replaceable(Span(a, n)) /\ MapFlexibleAt(Span(a, n), prot)
            \/ Replaceable(Span(a, n)) /\ MapFails(Span(a, n))
            \/ RollBack(Span(a, n))
       ELSE /\ FreePlaces(a, n) # {}
            /\ MapFlexibleAt(Span(Min(FreePlaces(a, n)), n), prot)

ReserveAt(S) ==
    /\ Vacate(S, Reserved("Reserved"))
    /\ gpu_mapped' = gpu_mapped \ S
    /\ UNCHANGED <<block, expansions>>

KernelReserveVirtualRange(a, n, fixed) ==
    IF fixed THEN (Replaceable(Span(a, n)) /\ ReserveAt(Span(a, n))) \/ RollBack(Span(a, n))
    ELSE FreePlaces(a, n) # {} /\ ReserveAt(Span(Min(FreePlaces(a, n)), n))

-----------------------------------------------------------------------------
(* Unmapping, protection and names.                                        *)

\* The GPU forgets the whole span first; then the ranges go one by one, until
\* one cannot be unmapped.
KernelMunmap(a, n) ==
    /\ \A v \in Span(a, n) : range[v] # None
    /\ \E stop \in {Min(C) : C \in Chunks(Span(a, n))} \union {a + n} :
          /\ \A C \in Chunks(Span(a, n)) : Max(C) < stop => Unmappable(C)
          /\ stop < a + n =>
                LET C == CHOOSE D \in Chunks(Span(a, n)) : Min(D) = stop
                IN  ~Unmappable(C) \/ (HostFails /\ Committed(stop))
          /\ Vacate(a..stop - 1, None)
    /\ gpu_mapped' = gpu_mapped \ Span(a, n)
    /\ UNCHANGED <<block, expansions>>

\* Ranges, and mappings range by range, are cut and get the protection.
KernelMprotect(a, n, prot) ==
    LET S == Span(a, n)
        protect(f, cuts, pages) == [v \in Virtual |-> IF v \in pages
            THEN [Cut(f, cuts)[v] EXCEPT !.prot = prot] ELSE Cut(f, cuts)[v]]
        direct == {v \in S : range[v].type = "Direct"}
        parts == {C \in Chunks(S) : C \subseteq direct}
    IN  /\ \A v \in S : Committed(v)
        /\ range' = protect(range, {a, a + n}, S)
        /\ mapping' = protect(mapping, UNION {{Min(C), Max(C) + 1} : C \in parts}, direct)
        /\ UNCHANGED <<block, flexible, flexible_free, flexible_total, pooled, pool_free,
                       expansions, view, gpu_mapped>>

\* Rename cuts the ranges; PhysicalMemory::SetVirtualRangeName cuts nothing.
KernelSetVirtualRangeName(a, n) ==
    /\ range' = Cut(range, {a, a + n})
    /\ UNCHANGED <<block, mapping, flexible, flexible_free, flexible_total, pooled,
                   pool_free, expansions, view, gpu_mapped>>

-----------------------------------------------------------------------------
(* Pooled memory.                                                          *)

KernelMemoryPoolExpand(lo, n) ==
    /\ AllocPlaces(lo, n) # {}
    /\ Alloc(lo, n, "pool")
    /\ expansions' = expansions \union {[start |-> Min(AllocPlaces(lo, n)), size |-> n]}
    /\ pool_free' = pool_free \union Span(Min(AllocPlaces(lo, n)), n)
    /\ UNCHANGED <<range, mapping, flexible, flexible_free, flexible_total, pooled, view, gpu_mapped>>

\* A reservation that has merged with its neighbour is left as it is (EBUSY).
PoolReserveAt(S) ==
    LET merged == \E v \in {Min(S) - 1, Max(S) + 1} \intersect Virtual :
                      range[v].type = "Reserved"
    IN  /\ Vacate(S, Reserved(IF merged THEN "Reserved" ELSE "PoolReserved"))
        /\ gpu_mapped' = gpu_mapped \ S
        /\ UNCHANGED <<block, expansions>>
KernelMemoryPoolReserve(a, n, fixed) ==
    IF fixed THEN (Replaceable(Span(a, n)) /\ PoolReserveAt(Span(a, n))) \/ RollBack(Span(a, n))
    ELSE FreePlaces(a, n) # {} /\ PoolReserveAt(Span(Min(FreePlaces(a, n)), n))

\* PooledMemory::Allocate, the views and the range; if the host fails, all is
\* taken back and nothing has changed.
KernelMemoryPoolCommit(a, n, prot) ==
    LET taken == Lowest(pool_free, n)
        page == [v \in Span(a, n) |-> CHOOSE q \in taken :
                    Cardinality({r \in taken : r < q}) = v - a]
    IN  /\ \A v \in Span(a, n) : range[v].type = "PoolReserved"
        /\ Cardinality(pool_free) >= n
        /\ range' = [v \in Virtual |-> IF v \in Span(a, n)
                       THEN [None EXCEPT !.type = "Pooled", !.prot = prot] ELSE range[v]]
        /\ pooled' = [v \in Virtual |-> IF v \in Span(a, n) THEN page[v] ELSE pooled[v]]
        /\ pool_free' = pool_free \ taken
        /\ view' = [v \in Virtual |-> IF v \in Span(a, n) THEN page[v] ELSE view[v]]
        /\ gpu_mapped' = gpu_mapped \union Span(a, n)
        /\ UNCHANGED <<block, mapping, flexible, flexible_free, flexible_total, expansions>>

\* DecommitMemoryPoolRange: a host failure ends the emulator.
KernelMemoryPoolDecommit(a, n) ==
    LET S == {v \in Span(a, n) : range[v].type = "Pooled"}
    IN  /\ \A v \in Span(a, n) : range[v].type \in {"Pooled", "PoolReserved"}
        /\ \A C \in Chunks(Span(a, n)) : Unmappable(C)
        /\ Vacate(S, Reserved("PoolReserved"))
        /\ gpu_mapped' = gpu_mapped \ Span(a, n)
        /\ UNCHANGED <<block, expansions>>

-----------------------------------------------------------------------------
Next ==
    \/ \E p \in Direct : \E n \in 1..DirectPages - p + 1 :
          \/ KernelAllocateDirectMemory(p, n)
          \/ KernelReleaseDirectMemory(p, n)
          \/ KernelMemoryPoolExpand(p, n)
    \/ \E a \in Virtual : \E n \in 1..VirtualPages - a + 1 :
          \/ KernelMunmap(a, n)
          \/ KernelSetVirtualRangeName(a, n)
          \/ KernelMemoryPoolDecommit(a, n)
          \/ \E prot \in Prots : \/ KernelMprotect(a, n, prot)
                                 \/ KernelMemoryPoolCommit(a, n, prot)
          \/ \E fixed \in BOOLEAN :
                \/ KernelReserveVirtualRange(a, n, fixed)
                \/ KernelMemoryPoolReserve(a, n, fixed)
                \/ \E prot \in Prots :
                      \/ KernelMapNamedFlexibleMemory(a, n, fixed, prot)
                      \/ \E p \in 1..DirectPages - n + 1 :
                            KernelMapDirectMemory(a, n, fixed, p, prot)

Spec == Init /\ [][Next]_vars

-----------------------------------------------------------------------------
\* The records of every page agree: a Direct page has one mapping, of the same
\* protection and of the physical page its view shows, and that page is
\* allocated; the others are backed by their owner; a reserved or free page by
\* nothing.
OwnersAgree == \A v \in Virtual :
    /\ (range[v].type = "Direct") = (mapping[v] # Unmapped)
    /\ mapping[v] # Unmapped => /\ mapping[v].prot = range[v].prot
                                /\ PhysOf(mapping, v) = PhysOf(range, v)
                                /\ block[PhysOf(range, v)] = "direct"
    /\ (range[v].type = "Flexible") = (flexible[v] # 0)
    /\ (range[v].type = "Pooled") = (pooled[v] # 0)
    /\ view[v] = CASE range[v].type = "Direct" -> PhysOf(range, v)
                   [] range[v].type = "Flexible" -> flexible[v]
                   [] range[v].type = "Pooled" -> pooled[v]
                   [] OTHER -> 0

\* No page of flexible memory and no page of the pool is lost, counted wrong or
\* given out twice.
NothingLost ==
    LET users(f, p) == {v \in Virtual : f[v] = p}
    IN  /\ \A p \in Flexible : Cardinality(users(flexible, p)) = IF p \in flexible_free THEN 0 ELSE 1
        /\ flexible_total = FlexiblePages - Cardinality(flexible_free)
        /\ \A p \in Direct : Cardinality(users(pooled, p)) =
               IF block[p] = "pool" /\ p \notin pool_free THEN 1 ELSE 0
        /\ pool_free \subseteq {p \in Direct : block[p] = "pool"}
        /\ \A p \in Direct : Cardinality({e \in expansions : p \in Span(e.start, e.size)}) =
               IF block[p] = "pool" THEN 1 ELSE 0

\* Whatever the guest has mapped it can unmap: a range is never larger than the
\* mapping behind it, although both are cut and rolled back separately.
RangesUnmappable == \A C \in Chunks(Virtual) : Unmappable(C)

\* The GPU never keeps a page that is not mapped any more.
GpuSeesMapped == \A v \in gpu_mapped : Committed(v)

\* What the calls keep, together: every page's records agree, no page of the
\* pools is lost, everything mapped can be unmapped, and the GPU sees no page
\* that is gone.
MemorySound == TypeOK /\ OwnersAgree /\ NothingLost /\ RangesUnmappable /\ GpuSeesMapped

\* "direct-memory alias escaped guest address-space ownership" (an EXIT of
\* ReleaseDirectMemoryInternal) is never reached: every alias of an allocated
\* span lies inside one Direct range.
NoAliasEscapes == \A p \in Direct : \A n \in 1..DirectPages - p + 1 :
    Allocated(Span(p, n)) => ~Escapes(Span(p, n))
=============================================================================
