-------------------------------- MODULE GpuMemory --------------------------------
(***************************************************************************)
(* How guest memory and its copies in GPU buffers are kept the same:       *)
(* MemoryTracker and RegionManager (src/src/graphics/host_gpu) with the    *)
(* page protection of PageManager, and the part of BufferCache that        *)
(* uploads, writes and reads back.                                         *)
(*                                                                         *)
(* A page is dirty on the CPU side, dirty on the GPU side or clean.  Guest *)
(* threads touch memory freely while the protection of the page allows it  *)
(* and fault otherwise; one GPU thread does everything else.  A cell is a  *)
(* part of a page that is written as a whole, so that the exact intervals  *)
(* of m_gpu_modified_ranges and the whole pages of the tracker can differ. *)
(* A value is the number of the write that made it.  The pages shown are   *)
(* those of one region, hence one region lock.                             *)
(***************************************************************************)
EXTENDS Integers, FiniteSets

CONSTANTS Pages, Cells, PageOf,
          Window,       \* the pages of the 8 bytes that a fault at a cell reports
          Threads, Gpu, NoOne,
          MaxWrites     \* bound: writes of guest threads and GPU together

ASSUME GpuMemoryAssumption ==
    /\ Cells # {} /\ PageOf \in [Cells -> Pages]
    /\ Window \in [Cells -> SUBSET Pages]
    /\ \A c \in Cells : PageOf[c] \in Window[c]
    /\ Gpu \notin Threads /\ NoOne \notin Threads /\ Gpu # NoOne
    /\ MaxWrites \in Nat

VARIABLES memory, copy,        \* each cell in guest memory and in its buffer
          cpu_dirty, gpu_dirty,
          gpu_modified,        \* m_gpu_modified_ranges, as cells
          registered,          \* pages that have a buffer
          protection,          \* of each page
          lock,                \* the region lock
          access,              \* access[t]: what guest thread t does
          gpu,                 \* what the GPU thread does
          pending,             \* cells its upload still has to copy
          fetched,             \* cells its readback collected
          clock, latest        \* history: writes so far, the last of each cell

memoryVars == <<memory, copy, clock, latest>>
trackerVars == <<cpu_dirty, gpu_dirty>>
cacheVars == <<gpu_modified, registered>>
transferVars == <<pending, fetched>>
vars == <<memoryVars, trackerVars, cacheVars, protection, lock, access, gpu, transferVars>>

CellsOf(pages) == {c \in Cells : PageOf[c] \in pages}

Access == [phase : {"idle", "try", "invalidate", "unprotect", "sync"},
           cell : Cells, store : BOOLEAN]
Idle == [phase |-> "idle", cell |-> CHOOSE c \in Cells : TRUE, store |-> FALSE]

\* For a readback: the thread that asked.  For a buffer: its pages, and the
\* cells the GPU is going to write.
GpuState == [phase : {"idle", "collect", "download", "unmark", "unmarked", "mark",
                      "marked", "answer", "clear", "protect", "copy", "own", "owned", "write"},
             asker : Threads \cup {NoOne}, range : SUBSET Pages, writes : SUBSET Cells]
GpuIdle == [phase |-> "idle", asker |-> NoOne, range |-> {}, writes |-> {}]

Init ==
    /\ memory = [c \in Cells |-> 0] /\ copy = [c \in Cells |-> 0]
    /\ clock = 0 /\ latest = [c \in Cells |-> 0]
    /\ cpu_dirty = Pages /\ gpu_dirty = {}
    /\ gpu_modified = {} /\ registered = {}
    /\ protection = [p \in Pages |-> "ReadWrite"]
    /\ lock = NoOne
    /\ access = [t \in Threads |-> Idle]
    /\ gpu = GpuIdle /\ pending = {} /\ fetched = {}

\* PageState::Perms, with the watchers the dirty bits stand for.
Perms(cpu, gpu_owned, p) ==
    IF p \in gpu_owned THEN "NoAccess" ELSE IF p \in cpu THEN "ReadWrite" ELSE "Read"

\* UpdateCpuProtection and UpdateGpuProtection, then the end of the locked part.
Protect == protection' = [p \in Pages |-> Perms(cpu_dirty, gpu_dirty, p)]
-----------------------------------------------------------------------------
(* Guest threads *)

GoTo(t, phase) == access' = [access EXCEPT ![t].phase = phase]

Begin(t, c, store) ==
    /\ access[t].phase = "idle"
    /\ store => clock < MaxWrites
    /\ access' = [access EXCEPT ![t] = [phase |-> "try", cell |-> c, store |-> store]]
    /\ UNCHANGED <<memoryVars, trackerVars, cacheVars, protection, lock, gpu, transferVars>>

Store(t) ==
    /\ access[t].phase = "try" /\ access[t].store
    /\ LET c == access[t].cell
       IN  /\ protection[PageOf[c]] = "ReadWrite"
           /\ memory' = [memory EXCEPT ![c] = clock + 1]
           /\ latest' = [latest EXCEPT ![c] = clock + 1]
    /\ clock' = clock + 1
    /\ access' = [access EXCEPT ![t] = Idle]
    /\ UNCHANGED <<copy, trackerVars, cacheVars, protection, lock, gpu, transferVars>>

Load(t) ==
    /\ access[t].phase = "try" /\ ~access[t].store
    /\ protection[PageOf[access[t].cell]] # "NoAccess"
    /\ access' = [access EXCEPT ![t] = Idle]
    /\ UNCHANGED <<memoryVars, trackerVars, cacheVars, protection, lock, gpu, transferVars>>

\* HandleFault: a store invalidates, a load reads back.
Fault(t) ==
    /\ access[t].phase = "try"
    /\ LET now == protection[PageOf[access[t].cell]]
       IN  IF access[t].store THEN now # "ReadWrite" /\ GoTo(t, "invalidate")
                              ELSE now = "NoAccess" /\ GoTo(t, "sync")
    /\ UNCHANGED <<memoryVars, trackerVars, cacheVars, protection, lock, gpu, transferVars>>

\* InvalidateRegion, under the region lock: leave GPU pages to the GPU
\* thread, or take the pages for the CPU.
MustFlush_Never(pages) == FALSE
MustFlush(pages) == pages \cap gpu_dirty # {}

InvalidateRegion(t) ==
    /\ access[t].phase = "invalidate" /\ lock = NoOne
    /\ LET pages == Window[access[t].cell]
       IN  IF MustFlush(pages)
             THEN GoTo(t, "sync") /\ UNCHANGED <<cpu_dirty, lock>>
             ELSE /\ cpu_dirty' = cpu_dirty \cup pages
                  /\ lock' = t
                  /\ GoTo(t, "unprotect")
    /\ UNCHANGED <<memoryVars, gpu_dirty, cacheVars, protection, gpu, transferVars>>

Unprotect(t) ==
    /\ access[t].phase = "unprotect"
    /\ Protect
    /\ lock' = NoOne
    /\ GoTo(t, "try")
    /\ UNCHANGED <<memoryVars, trackerVars, cacheVars, gpu, transferVars>>
-----------------------------------------------------------------------------
(* The GPU thread reads back for a thread that waits in SendCommandSync. *)

GpuGoTo(phase) == gpu' = [gpu EXCEPT !.phase = phase]
Asked == Window[access[gpu.asker].cell]
ForStore == access[gpu.asker].store

IsRegionRegistered_Never(pages) == FALSE
IsRegionRegistered(pages) == pages \cap registered # {}

Serve(t) ==
    /\ gpu.phase = "idle" /\ access[t].phase = "sync"
    /\ gpu' = [GpuIdle EXCEPT !.asker = t,
                  !.phase = IF access[t].store /\ ~IsRegionRegistered(Window[access[t].cell])
                              THEN "answer" ELSE "collect"]
    /\ UNCHANGED <<memoryVars, trackerVars, cacheVars, protection, lock, access, transferVars>>

\* Every modified interval of every GPU page asked for, also what lies
\* outside the bytes of the fault.
Collected_CellOnly == {access[gpu.asker].cell} \cap gpu_modified
Collected == gpu_modified \cap CellsOf(Asked \cap gpu_dirty)

Collect ==
    /\ gpu.phase = "collect" /\ lock = NoOne
    /\ fetched' = Collected
    /\ GpuGoTo(IF Collected # {} THEN "download" ELSE IF ForStore THEN "mark" ELSE "answer")
    /\ UNCHANGED <<memoryVars, trackerVars, cacheVars, protection, lock, access, pending>>

Remaining == gpu_modified \ fetched

\* DownloadBufferMemory: wait for the GPU, write to the backing of the pages.
Download ==
    /\ gpu.phase = "download"
    /\ memory' = [c \in Cells |-> IF c \in fetched THEN copy[c] ELSE memory[c]]
    /\ gpu_modified' = Remaining
    /\ fetched' = {}
    /\ GpuGoTo("unmark")
    /\ UNCHANGED <<copy, clock, latest, trackerVars, registered, protection, lock, access, pending>>

UnmarkRegionAsGpuModified ==
    /\ gpu.phase = "unmark" /\ lock = NoOne
    /\ gpu_dirty' = gpu_dirty \ Asked
    /\ lock' = Gpu
    /\ GpuGoTo("unmarked")
    /\ UNCHANGED <<memoryVars, cpu_dirty, cacheVars, protection, access, transferVars>>

MarkRegionAsCpuModified ==
    /\ gpu.phase = "mark" /\ lock = NoOne
    /\ cpu_dirty' = cpu_dirty \cup Asked
    /\ lock' = Gpu
    /\ GpuGoTo("marked")
    /\ UNCHANGED <<memoryVars, gpu_dirty, cacheVars, protection, access, transferVars>>

AfterProtect ==
    CASE gpu.phase = "unmarked" /\ ForStore -> "mark"
      [] gpu.phase = "unmarked" /\ ~ForStore -> "answer"
      [] gpu.phase = "marked" -> "answer"
      [] gpu.phase = "protect" -> "copy"
      [] gpu.phase = "owned" -> "write"

\* An upload for a buffer that will be written keeps the lock.
KeepsLock == gpu.phase = "protect" /\ gpu.writes # {}

GpuProtect_SkipsClear == IF gpu.phase = "protect" THEN UNCHANGED protection ELSE Protect
GpuProtect == Protect

EndLocked ==
    /\ gpu.phase \in {"unmarked", "marked", "protect", "owned"}
    /\ GpuProtect
    /\ lock' = IF KeepsLock THEN lock ELSE NoOne
    /\ GpuGoTo(AfterProtect)
    /\ UNCHANGED <<memoryVars, trackerVars, cacheVars, access, transferVars>>

Answer ==
    /\ gpu.phase = "answer"
    /\ GoTo(gpu.asker, "try")
    /\ gpu' = GpuIdle
    /\ UNCHANGED <<memoryVars, trackerVars, cacheVars, protection, lock, transferVars>>
-----------------------------------------------------------------------------
(* The GPU thread gets a buffer ready, to read it or to write some cells. *)

ObtainBuffer(range, writes) ==
    /\ gpu.phase = "idle"
    /\ writes # {} => clock < MaxWrites
    /\ gpu' = [GpuIdle EXCEPT !.phase = "clear", !.range = range, !.writes = writes]
    /\ registered' = registered \cup range
    /\ UNCHANGED <<memoryVars, trackerVars, gpu_modified, protection, lock, access, transferVars>>

\* ForEachUploadRange: the pages the CPU modified become clean, are protected
\* and only then copied.
ClearCpuDirty ==
    /\ gpu.phase = "clear" /\ lock = NoOne
    /\ pending' = CellsOf(cpu_dirty \cap gpu.range)
    /\ cpu_dirty' = cpu_dirty \ gpu.range
    /\ lock' = Gpu
    /\ GpuGoTo("protect")
    /\ UNCHANGED <<memoryVars, gpu_dirty, cacheVars, protection, access, fetched>>

UploadCopy(c) ==
    /\ gpu.phase = "copy" /\ c \in pending
    /\ copy' = [copy EXCEPT ![c] = memory[c]]
    /\ pending' = pending \ {c}
    /\ UNCHANGED <<memory, clock, latest, trackerVars, cacheVars, protection, lock, access,
                   gpu, fetched>>

UploadEnd ==
    /\ gpu.phase = "copy" /\ pending = {}
    /\ IF gpu.writes = {} THEN gpu' = GpuIdle ELSE GpuGoTo("own")
    /\ UNCHANGED <<memoryVars, trackerVars, cacheVars, protection, lock, access, transferVars>>

\* ChangeState<Gpu, true>, still under the lock.
OwnPages ==
    /\ gpu.phase = "own"
    /\ gpu_dirty' = gpu_dirty \cup gpu.range
    /\ GpuGoTo("owned")
    /\ UNCHANGED <<memoryVars, cpu_dirty, cacheVars, protection, lock, access, transferVars>>

\* Note the exact interval; the recorded commands then write it.
GpuWrite ==
    /\ gpu.phase = "write"
    /\ gpu_modified' = gpu_modified \cup gpu.writes
    /\ copy' = [c \in Cells |-> IF c \in gpu.writes THEN clock + 1 ELSE copy[c]]
    /\ latest' = [c \in Cells |-> IF c \in gpu.writes THEN clock + 1 ELSE latest[c]]
    /\ clock' = clock + 1
    /\ gpu' = GpuIdle
    /\ UNCHANGED <<memory, trackerVars, registered, protection, lock, access, transferVars>>
-----------------------------------------------------------------------------
\* What a buffer is used for: some pages, to be read, or written in a part
\* that touches every one of them.
Uses == {u \in (SUBSET Pages \ {{}}) \X SUBSET Cells :
            u[2] = {} \/ {PageOf[c] : c \in u[2]} = u[1]}

GpuStep ==
    \/ \E t \in Threads : Serve(t)
    \/ Collect \/ Download \/ UnmarkRegionAsGpuModified \/ MarkRegionAsCpuModified
    \/ EndLocked \/ Answer
    \/ ClearCpuDirty \/ (\E c \in Cells : UploadCopy(c)) \/ UploadEnd \/ OwnPages \/ GpuWrite

GuestStep(t) == Store(t) \/ Load(t) \/ Fault(t) \/ InvalidateRegion(t) \/ Unprotect(t)

Next ==
    \/ \E t \in Threads : \/ \E c \in Cells, s \in BOOLEAN : Begin(t, c, s)
                          \/ GuestStep(t)
    \/ GpuStep
    \/ \E u \in Uses : ObtainBuffer(u[1], u[2])

Spec == Init /\ [][Next]_vars

\* The GPU thread runs commands between its packets, and threads go on; a
\* spinning thread gets the region lock if it is free again and again.
Fairness ==
    /\ WF_vars(GpuStep)
    /\ \A t \in Threads : WF_vars(Serve(t)) /\ WF_vars(GuestStep(t))

FairSpec == Spec /\ Fairness
-----------------------------------------------------------------------------
(* Properties *)

TypeOK ==
    /\ memory \in [Cells -> Nat] /\ copy \in [Cells -> Nat]
    /\ latest \in [Cells -> Nat] /\ clock \in Nat
    /\ cpu_dirty \subseteq Pages /\ gpu_dirty \subseteq Pages
    /\ gpu_modified \subseteq Cells /\ registered \subseteq Pages
    /\ protection \in [Pages -> {"ReadWrite", "Read", "NoAccess"}]
    /\ lock \in Threads \cup {Gpu, NoOne}
    /\ access \in [Threads -> Access] /\ gpu \in GpuState
    /\ pending \subseteq Cells /\ fetched \subseteq Cells

\* No page belongs to CPU and GPU at once: RegionManager's EXITs are never
\* reached, however faults and GPU writes race.
OneOwner == cpu_dirty \cap gpu_dirty = {}

\* No write is lost.  Guest memory has the last write of a cell unless the
\* interval is noted as modified by the GPU; the buffer has it unless the page
\* is dirty on the CPU side or about to be copied.
NoWriteLost ==
    \A c \in Cells :
        /\ c \notin gpu_modified => memory[c] = latest[c]
        /\ PageOf[c] \notin cpu_dirty /\ c \notin pending => copy[c] = latest[c]

\* A guest load that does not fault sees the last write, of whichever side.
LoadsLatest ==
    [][\A t \in Threads :
          access[t].phase = "try" /\ ~access[t].store /\ access'[t].phase = "idle"
             => memory[access[t].cell] = latest[access[t].cell]]_vars

\* While nobody is inside the region, the host protection is the one the
\* owner of each page calls for.
ProtectionFollows ==
    lock = NoOne => \A p \in Pages : protection[p] = Perms(cpu_dirty, gpu_dirty, p)

\* Between the operations of the GPU thread, the pages of the tracker and the
\* exact intervals agree (what ValidateGpuDirtyOwnership checks in debug builds).
OwnershipAgrees == gpu.phase = "idle" => gpu_dirty = {PageOf[c] : c \in gpu_modified}

\* Owner, protection and modified intervals of each page, as the tracker, the
\* page manager and the buffer cache keep them.
CoherenceSound == TypeOK /\ OneOwner /\ ProtectionFollows /\ OwnershipAgrees

\* Every access gets through once the GPU thread stops to upload pages, which
\* protects them again under a thread that faults: no fault comes back for ever.
AccessesReturn ==
    <>[](gpu.phase # "clear") =>
        \A t \in Threads : access[t].phase # "idle" ~> access[t].phase = "idle"
=============================================================================
