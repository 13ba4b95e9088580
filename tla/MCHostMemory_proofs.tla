---------------------------- MODULE MCHostMemory_proofs ----------------------------
(***************************************************************************)
(* Proofs about guest memory on the host: the coherence of guest memory    *)
(* and GPU buffers, for any pages, cells, fault windows and guest threads, *)
(* and the watches of images, for any page size, images and stores.        *)
(***************************************************************************)
EXTENDS MCHostMemory, ListLemmas

Answering == {"collect", "download", "unmark", "unmarked", "mark", "marked", "answer"}
Inside == {"unmarked", "marked", "protect", "own", "owned"}
Buffering == {"clear", "protect", "copy", "own", "owned", "write"}

\* Who holds the region lock.
LockOK ==
    /\ \A t \in Threads : lock = t <=> access[t].phase = "unprotect"
    /\ lock = Gpu <=> gpu.phase \in Inside \/ (gpu.phase = "copy" /\ gpu.writes # {})

\* What the GPU thread works on: for a thread that waits, or for a buffer with
\* the pages that its writes touch.
WorkOK ==
    /\ gpu.phase \in Answering =>
          gpu.asker \in Threads /\ access[gpu.asker].phase = "sync"
    /\ gpu.phase \in {"own", "owned", "write"} => gpu.writes # {}
    /\ gpu.phase \in Buffering /\ gpu.writes # {} =>
          /\ \A c \in gpu.writes : PageOf[c] \in gpu.range
          /\ \A p \in gpu.range : \E c \in gpu.writes : PageOf[c] = p
    /\ gpu.phase \notin {"protect", "copy"} => pending = {}

\* A page of the GPU has modified cells and only such pages have them, but for
\* the pages that a readback has emptied or a buffer is about to fill.
OwnersOK ==
    /\ \A c \in gpu_modified : PageOf[c] \in gpu_dirty
    /\ \A p \in gpu_dirty :
          \/ \E c \in gpu_modified : PageOf[c] = p
          \/ gpu.phase = "unmark" /\ p \in Asked
          \/ gpu.phase \in {"owned", "write"} /\ p \in gpu.range
    /\ gpu.phase = "download" =>
          fetched = {c \in gpu_modified : PageOf[c] \in Asked}
    /\ gpu.phase = "unmark" => \A c \in gpu_modified : PageOf[c] \notin Asked
    /\ gpu.phase \in {"unmarked", "mark", "marked"} => Asked \cap gpu_dirty = {}
    /\ gpu.phase \in {"protect", "own", "owned"} \/ (gpu.phase = "copy" /\ gpu.writes # {})
          => gpu.range \cap cpu_dirty = {}
    /\ gpu.phase \in {"owned", "write"} => gpu.range \subseteq gpu_dirty
    /\ \A c \in pending : PageOf[c] \notin gpu_dirty

\* The protection never lets through what it must not, even while it lags.
GuardOK ==
    /\ \A c \in gpu_modified : protection[PageOf[c]] = "NoAccess"
    /\ gpu.phase = "write" => \A p \in gpu.range : protection[p] = "NoAccess"
    /\ \A c \in Cells : protection[PageOf[c]] = "ReadWrite" =>
          PageOf[c] \in cpu_dirty \/ (gpu.phase = "protect" /\ c \in pending)

IInv ==
    /\ TypeOK /\ LockOK /\ WorkOK /\ OwnersOK
    /\ OneOwner /\ ProtectionFollows /\ GuardOK /\ NoWriteLost

USE GpuMemoryAssumption

LEMMA IdleTypes == Idle \in Access /\ GpuIdle \in GpuState
BY DEF Idle, Access, GpuIdle, GpuState

LEMMA InitInv == Init => IInv
<1> SUFFICES ASSUME Init PROVE IInv OBVIOUS
<1>1. TypeOK
  BY IdleTypes DEF Init, TypeOK
<1>2. LockOK /\ WorkOK
  BY DEF Init, LockOK, WorkOK, Idle, GpuIdle, Answering, Inside
<1>3. OwnersOK /\ OneOwner
  BY DEF Init, OwnersOK, OneOwner, GpuIdle
<1>4. ProtectionFollows /\ GuardOK /\ NoWriteLost
  BY DEF Init, ProtectionFollows, GuardOK, NoWriteLost, Perms, GpuIdle
<1> QED BY <1>1, <1>2, <1>3, <1>4 DEF IInv

\* A guest thread goes on to another phase of the same access.
LEMMA GoToEffect ==
    ASSUME TypeOK, NEW t \in Threads,
           NEW ph \in {"idle", "try", "invalidate", "unprotect", "sync"}, GoTo(t, ph)
    PROVE  /\ access' \in [Threads -> Access]
           /\ access'[t] = [access[t] EXCEPT !.phase = ph] /\ access'[t].phase = ph
           /\ \A u \in Threads \ {t} : access'[u] = access[u]
<1>1. access \in [Threads -> Access] /\ access[t] \in Access
    BY DEF TypeOK
<1>2. access' = [access EXCEPT ![t].phase = ph]
    BY DEF GoTo
<1>3. [access[t] EXCEPT !.phase = ph] \in Access /\ [access[t] EXCEPT !.phase = ph].phase = ph
    BY <1>1 DEF Access
<1> QED BY <1>1, <1>2, <1>3

\* The pages that a readback is for.
LEMMA AskedType ==
    ASSUME TypeOK, WorkOK, gpu.phase \in Answering
    PROVE  Asked \subseteq Pages
BY DEF TypeOK, WorkOK, Asked, Access

LEMMA StepInv == IInv /\ [Next]_vars => IInv'
<1> SUFFICES ASSUME IInv, [Next]_vars PROVE IInv' OBVIOUS
<1> USE DEF IInv, TypeOK, memoryVars, trackerVars, cacheVars, transferVars
<1>1. ASSUME NEW t \in Threads, NEW c \in Cells, NEW s \in BOOLEAN, Begin(t, c, s) PROVE IInv'
  <2>1. access' \in [Threads -> Access] /\ gpu' \in GpuState
    BY <1>1 DEF Begin, Access
  <2>2. TypeOK'
    BY <1>1, <2>1 DEF Begin
  <2>3. LockOK' /\ WorkOK'
    BY <1>1 DEF Begin, LockOK, WorkOK
  <2>4. OwnersOK' /\ OneOwner'
    BY <1>1 DEF Begin, Asked, WorkOK, Answering, OwnersOK, OneOwner
  <2>5. ProtectionFollows' /\ GuardOK'
    BY <1>1 DEF Begin, ProtectionFollows, GuardOK
  <2>6. NoWriteLost'
    BY <1>1 DEF Begin, NoWriteLost
  <2> QED BY <2>2, <2>3, <2>4, <2>5, <2>6
<1>2. ASSUME NEW t \in Threads, Store(t) PROVE IInv'
  <2>1. access' \in [Threads -> Access] /\ gpu' \in GpuState
    BY <1>2, IdleTypes DEF Store
  <2>2. TypeOK'
    BY <1>2, <2>1 DEF Store, Access
  <2>3. LockOK' /\ WorkOK'
    BY <1>2 DEF Store, Idle, LockOK, WorkOK
  <2>4. OwnersOK' /\ OneOwner'
    BY <1>2 DEF Store, Asked, WorkOK, Answering, OwnersOK, OneOwner
  <2>5. ProtectionFollows' /\ GuardOK'
    BY <1>2 DEF Store, ProtectionFollows, GuardOK
  <2>6. NoWriteLost'
    BY <1>2 DEF Store, GuardOK, NoWriteLost
  <2> QED BY <2>2, <2>3, <2>4, <2>5, <2>6
<1>3. ASSUME NEW t \in Threads, Load(t) PROVE IInv'
  <2>1. access' \in [Threads -> Access] /\ gpu' \in GpuState
    BY <1>3, IdleTypes DEF Load
  <2>2. TypeOK'
    BY <1>3, <2>1 DEF Load
  <2>3. LockOK' /\ WorkOK'
    BY <1>3 DEF Load, Idle, LockOK, WorkOK
  <2>4. OwnersOK' /\ OneOwner'
    BY <1>3 DEF Load, Asked, WorkOK, Answering, OwnersOK, OneOwner
  <2>5. ProtectionFollows' /\ GuardOK'
    BY <1>3 DEF Load, ProtectionFollows, GuardOK
  <2>6. NoWriteLost'
    BY <1>3 DEF Load, NoWriteLost
  <2> QED BY <2>2, <2>3, <2>4, <2>5, <2>6
<1>4. ASSUME NEW t \in Threads, Fault(t) PROVE IInv'
  <2>0. PICK ph \in {"invalidate", "sync"} : GoTo(t, ph)
    BY <1>4 DEF Fault
  <2>1. access' \in [Threads -> Access] /\ access'[t].phase = ph
        /\ \A u \in Threads \ {t} : access'[u] = access[u]
    BY <2>0, GoToEffect DEF Access
  <2>2. TypeOK'
    BY <1>4, <2>1 DEF Fault
  <2>3. LockOK' /\ WorkOK'
    BY <1>4, <2>1 DEF Fault, LockOK, WorkOK
  <2>4. OwnersOK' /\ OneOwner'
    BY <1>4, <2>1 DEF Fault, Asked, WorkOK, Answering, OwnersOK, OneOwner
  <2>5. ProtectionFollows' /\ GuardOK' /\ NoWriteLost'
    BY <1>4 DEF Fault, ProtectionFollows, GuardOK, NoWriteLost
  <2> QED BY <2>2, <2>3, <2>4, <2>5
<1>5. ASSUME NEW t \in Threads, InvalidateRegion(t) PROVE IInv'
  <2> DEFINE pages == Window[access[t].cell]
  <2>0. pages \subseteq Pages
    BY DEF Access
  <2>1. CASE MustFlush(pages)
    <3>0. GoTo(t, "sync")
      BY <1>5, <2>1 DEF InvalidateRegion
    <3>1. access' \in [Threads -> Access] /\ access'[t].phase = "sync"
          /\ \A u \in Threads \ {t} : access'[u] = access[u]
      BY <3>0, GoToEffect
    <3>2. TypeOK'
      BY <1>5, <2>1, <3>1 DEF InvalidateRegion
    <3>3. LockOK' /\ WorkOK'
      BY <1>5, <2>1, <3>1 DEF InvalidateRegion, LockOK, WorkOK
    <3>4. OwnersOK' /\ OneOwner'
      BY <1>5, <2>1, <3>1 DEF InvalidateRegion, Asked, WorkOK, Answering, OwnersOK, OneOwner
    <3>5. ProtectionFollows' /\ GuardOK' /\ NoWriteLost'
      BY <1>5 DEF InvalidateRegion, ProtectionFollows, GuardOK, NoWriteLost
    <3> QED BY <3>2, <3>3, <3>4, <3>5
  <2>2. CASE ~MustFlush(pages)
    <3>0. GoTo(t, "unprotect")
      BY <1>5, <2>2 DEF InvalidateRegion
    <3>1. access' \in [Threads -> Access] /\ access'[t].phase = "unprotect"
          /\ \A u \in Threads \ {t} : access'[u] = access[u]
      BY <3>0, GoToEffect
    <3>2. TypeOK'
      BY <1>5, <2>0, <3>1 DEF InvalidateRegion
    <3>3. LockOK' /\ WorkOK'
      BY <1>5, <2>2, <3>1 DEF InvalidateRegion, LockOK, WorkOK
    <3>4. OwnersOK' /\ OneOwner'
      BY <1>5, <3>1 DEF InvalidateRegion, MustFlush, Asked, LockOK, WorkOK, Answering,
           Inside, OwnersOK, OneOwner
    <3>5. ProtectionFollows' /\ GuardOK' /\ NoWriteLost'
      BY <1>5 DEF InvalidateRegion, ProtectionFollows, GuardOK, NoWriteLost
    <3> QED BY <3>2, <3>3, <3>4, <3>5
  <2> QED BY <2>1, <2>2
<1>6. ASSUME NEW t \in Threads, Unprotect(t) PROVE IInv'
  <2>1. access' \in [Threads -> Access] /\ gpu' \in GpuState
    BY <1>6 DEF Unprotect, GoTo, Access
  <2>2. TypeOK'
    BY <1>6, <2>1 DEF Unprotect, Protect, Perms
  <2>3. LockOK' /\ WorkOK'
    BY <1>6 DEF Unprotect, GoTo, LockOK, WorkOK
  <2>4. OwnersOK' /\ OneOwner'
    BY <1>6 DEF Unprotect, GoTo, Asked, OwnersOK, OneOwner
  <2>5. ProtectionFollows' /\ GuardOK'
    BY <1>6 DEF Unprotect, Protect, Perms, OwnersOK, ProtectionFollows, GuardOK
  <2>6. NoWriteLost'
    BY <1>6 DEF Unprotect, NoWriteLost
  <2> QED BY <2>2, <2>3, <2>4, <2>5, <2>6
<1>7. ASSUME NEW t \in Threads, Serve(t) PROVE IInv'
  <2>1. gpu' \in GpuState /\ gpu'.phase \in {"collect", "answer"} /\ gpu'.asker = t
        /\ gpu'.writes = {}
    BY <1>7 DEF Serve, GpuIdle, GpuState
  <2>2. TypeOK'
    BY <1>7, <2>1 DEF Serve
  <2>3. LockOK' /\ WorkOK'
    BY <1>7, <2>1 DEF Serve, LockOK, WorkOK, Inside
  <2>4. OwnersOK' /\ OneOwner'
    BY <1>7 DEF Serve, OwnersOK, OneOwner
  <2>5. ProtectionFollows' /\ GuardOK' /\ NoWriteLost'
    BY <1>7 DEF Serve, ProtectionFollows, GuardOK, NoWriteLost
  <2> QED BY <2>2, <2>3, <2>4, <2>5
<1>8. ASSUME Collect PROVE IInv'
  <2>1. gpu' \in GpuState /\ gpu' = [gpu EXCEPT !.phase = gpu'.phase] /\ Asked' = Asked
        /\ gpu'.phase \in {"download", "mark", "answer"} /\ fetched' = Collected
    BY <1>8 DEF Collect, GpuGoTo, GpuState, Asked
  <2>2. gpu'.phase # "download" => Asked \cap gpu_dirty = {}
    BY <1>8 DEF Collect, GpuGoTo, Collected, CellsOf, OwnersOK
  <2>3. Collected = {c \in gpu_modified : PageOf[c] \in Asked}
    BY DEF Collected, CellsOf, OwnersOK
  <2>4. TypeOK'
    BY <1>8, <2>1, <2>3 DEF Collect
  <2>5. LockOK' /\ WorkOK'
    BY <1>8, <2>1 DEF Collect, GpuState, LockOK, WorkOK, Answering, Inside, Buffering
  <2>6. OwnersOK' /\ OneOwner'
    BY <1>8, <2>1, <2>2, <2>3 DEF Collect, OwnersOK, OneOwner
  <2>7. ProtectionFollows' /\ GuardOK' /\ NoWriteLost'
    BY <1>8, <2>1 DEF Collect, ProtectionFollows, GuardOK, NoWriteLost
  <2> QED BY <2>4, <2>5, <2>6, <2>7
<1>9. ASSUME Download PROVE IInv'
  <2>1. access' \in [Threads -> Access] /\ gpu' \in GpuState
    BY <1>9 DEF Download, GpuGoTo, GpuState
  <2>2. TypeOK'
    BY <1>9, <2>1 DEF Download, Remaining
  <2>3. LockOK' /\ WorkOK'
    BY <1>9 DEF Download, GpuGoTo, LockOK, WorkOK, Answering, Inside, Buffering
  <2>4. OwnersOK' /\ OneOwner'
    BY <1>9 DEF Download, Remaining, GpuGoTo, Asked, OwnersOK, OneOwner
  <2>5. ProtectionFollows' /\ GuardOK'
    BY <1>9, <2>4 DEF Download, OwnersOK, ProtectionFollows, GuardOK
  <2>6. NoWriteLost'
    BY <1>9 DEF Download, Remaining, OwnersOK, OneOwner, NoWriteLost
  <2> QED BY <2>2, <2>3, <2>4, <2>5, <2>6
<1>10. ASSUME UnmarkRegionAsGpuModified PROVE IInv'
  <2>1. access' \in [Threads -> Access] /\ gpu' \in GpuState
    BY <1>10 DEF UnmarkRegionAsGpuModified, GpuGoTo, GpuState
  <2>2. TypeOK'
    BY <1>10, <2>1 DEF UnmarkRegionAsGpuModified
  <2>3. LockOK' /\ WorkOK'
    BY <1>10 DEF UnmarkRegionAsGpuModified, GpuGoTo, LockOK, WorkOK, Answering, Inside,
         Buffering
  <2>4. OwnersOK' /\ OneOwner'
    BY <1>10 DEF UnmarkRegionAsGpuModified, GpuGoTo, Asked, OwnersOK, OneOwner
  <2>5. ProtectionFollows' /\ GuardOK'
    BY <1>10, <2>4 DEF UnmarkRegionAsGpuModified, OwnersOK, ProtectionFollows, GuardOK
  <2>6. NoWriteLost'
    BY <1>10 DEF UnmarkRegionAsGpuModified, NoWriteLost
  <2> QED BY <2>2, <2>3, <2>4, <2>5, <2>6
<1>11. ASSUME MarkRegionAsCpuModified PROVE IInv'
  <2>1. access' \in [Threads -> Access] /\ gpu' \in GpuState
    BY <1>11 DEF MarkRegionAsCpuModified, GpuGoTo, GpuState
  <2>7. Asked \subseteq Pages
    BY <1>11, AskedType DEF MarkRegionAsCpuModified, Answering
  <2>2. TypeOK'
    BY <1>11, <2>1, <2>7 DEF MarkRegionAsCpuModified
  <2>3. LockOK' /\ WorkOK'
    BY <1>11 DEF MarkRegionAsCpuModified, GpuGoTo, LockOK, WorkOK, Answering, Inside,
         Buffering
  <2>4. OwnersOK' /\ OneOwner'
    BY <1>11 DEF MarkRegionAsCpuModified, GpuGoTo, Asked, OwnersOK, OneOwner
  <2>5. ProtectionFollows' /\ GuardOK'
    BY <1>11, <2>4 DEF MarkRegionAsCpuModified, OwnersOK, ProtectionFollows, GuardOK
  <2>6. NoWriteLost'
    BY <1>11 DEF MarkRegionAsCpuModified, NoWriteLost
  <2> QED BY <2>2, <2>3, <2>4, <2>5, <2>6
<1>12. ASSUME EndLocked PROVE IInv'
  <2>1. access' \in [Threads -> Access] /\ gpu' \in GpuState
    BY <1>12 DEF EndLocked, AfterProtect, GpuGoTo, GpuState
  <2>2. TypeOK'
    BY <1>12, <2>1 DEF EndLocked, GpuProtect, Protect, Perms
  <2>3. LockOK' /\ WorkOK'
    BY <1>12 DEF EndLocked, KeepsLock, AfterProtect, GpuGoTo, LockOK, WorkOK, Answering,
         Inside, Buffering
  <2>4. OwnersOK' /\ OneOwner'
    BY <1>12 DEF EndLocked, AfterProtect, GpuGoTo, Asked, OwnersOK, OneOwner
  <2>5. ProtectionFollows' /\ GuardOK'
    BY <1>12, <2>4 DEF EndLocked, GpuProtect, Protect, Perms, OwnersOK, ProtectionFollows,
         GuardOK
  <2>6. NoWriteLost'
    BY <1>12 DEF EndLocked, NoWriteLost
  <2> QED BY <2>2, <2>3, <2>4, <2>5, <2>6
<1>13. ASSUME Answer PROVE IInv'
  <2>1. access' \in [Threads -> Access] /\ gpu' \in GpuState
    BY <1>13, IdleTypes DEF Answer, GoTo, Access
  <2>2. TypeOK'
    BY <1>13, <2>1 DEF Answer
  <2>3. LockOK' /\ WorkOK'
    BY <1>13 DEF Answer, GoTo, GpuIdle, LockOK, WorkOK, Answering, Inside
  <2>4. OwnersOK' /\ OneOwner'
    BY <1>13 DEF Answer, GpuIdle, OwnersOK, OneOwner
  <2>5. ProtectionFollows' /\ GuardOK'
    BY <1>13, <2>4 DEF Answer, OwnersOK, ProtectionFollows, GuardOK
  <2>6. NoWriteLost'
    BY <1>13 DEF Answer, NoWriteLost
  <2> QED BY <2>2, <2>3, <2>4, <2>5, <2>6
<1>14. ASSUME ClearCpuDirty PROVE IInv'
  <2>1. access' \in [Threads -> Access] /\ gpu' \in GpuState
    BY <1>14 DEF ClearCpuDirty, GpuGoTo, GpuState
  <2>2. TypeOK'
    BY <1>14, <2>1 DEF ClearCpuDirty, CellsOf
  <2>3. LockOK' /\ WorkOK'
    BY <1>14 DEF ClearCpuDirty, GpuGoTo, LockOK, WorkOK, Answering, Inside, Buffering
  <2>4. OwnersOK' /\ OneOwner'
    BY <1>14 DEF ClearCpuDirty, CellsOf, GpuGoTo, OwnersOK, OneOwner
  <2>5. ProtectionFollows' /\ GuardOK'
    BY <1>14 DEF ClearCpuDirty, CellsOf, GpuGoTo, ProtectionFollows, GuardOK
  <2>6. NoWriteLost'
    BY <1>14 DEF ClearCpuDirty, CellsOf, WorkOK, NoWriteLost
  <2> QED BY <2>2, <2>3, <2>4, <2>5, <2>6
<1>15. ASSUME NEW c \in Cells, UploadCopy(c) PROVE IInv'
  <2>1. access' \in [Threads -> Access] /\ gpu' \in GpuState
    BY <1>15 DEF UploadCopy
  <2>2. TypeOK'
    BY <1>15 DEF UploadCopy
  <2>3. LockOK' /\ WorkOK'
    BY <1>15 DEF UploadCopy, LockOK, WorkOK
  <2>4. OwnersOK' /\ OneOwner'
    BY <1>15 DEF UploadCopy, OwnersOK, OneOwner
  <2>5. ProtectionFollows' /\ GuardOK'
    BY <1>15 DEF UploadCopy, ProtectionFollows, GuardOK
  <2>6. NoWriteLost'
    BY <1>15 DEF UploadCopy, OwnersOK, NoWriteLost
  <2> QED BY <2>2, <2>3, <2>4, <2>5, <2>6
<1>16. ASSUME UploadEnd PROVE IInv'
  <2>1. access' \in [Threads -> Access] /\ gpu' \in GpuState
    BY <1>16, IdleTypes DEF UploadEnd, GpuGoTo, GpuState
  <2>2. TypeOK'
    BY <1>16, <2>1 DEF UploadEnd
  <2>3. LockOK' /\ WorkOK'
    BY <1>16 DEF UploadEnd, GpuIdle, GpuGoTo, GpuState, LockOK, WorkOK, Answering, Inside,
         Buffering
  <2>4. OwnersOK' /\ OneOwner'
    BY <1>16 DEF UploadEnd, GpuIdle, GpuGoTo, GpuState, OwnersOK, OneOwner
  <2>5. ProtectionFollows' /\ GuardOK'
    BY <1>16, <2>4 DEF UploadEnd, OwnersOK, ProtectionFollows, GuardOK
  <2>6. NoWriteLost'
    BY <1>16 DEF UploadEnd, NoWriteLost
  <2> QED BY <2>2, <2>3, <2>4, <2>5, <2>6
<1>17. ASSUME OwnPages PROVE IInv'
  <2>1. access' \in [Threads -> Access] /\ gpu' \in GpuState
    BY <1>17 DEF OwnPages, GpuGoTo, GpuState
  <2>2. TypeOK'
    BY <1>17, <2>1 DEF OwnPages, GpuState
  <2>3. LockOK' /\ WorkOK'
    BY <1>17 DEF OwnPages, GpuGoTo, LockOK, WorkOK, Answering, Inside, Buffering
  <2>4. OwnersOK' /\ OneOwner'
    BY <1>17 DEF OwnPages, GpuGoTo, WorkOK, OwnersOK, OneOwner
  <2>5. ProtectionFollows' /\ GuardOK'
    BY <1>17, <2>3 DEF OwnPages, LockOK, Inside, ProtectionFollows, GuardOK
  <2>6. NoWriteLost'
    BY <1>17 DEF OwnPages, NoWriteLost
  <2> QED BY <2>2, <2>3, <2>4, <2>5, <2>6
<1>18. ASSUME GpuWrite PROVE IInv'
  <2>1. access' \in [Threads -> Access] /\ gpu' \in GpuState
    BY <1>18, IdleTypes DEF GpuWrite
  <2>2. TypeOK'
    BY <1>18, <2>1 DEF GpuWrite, GpuState
  <2>3. LockOK' /\ WorkOK'
    BY <1>18 DEF GpuWrite, GpuIdle, LockOK, WorkOK, Answering, Inside
  <2>4. OwnersOK' /\ OneOwner'
    BY <1>18 DEF GpuWrite, GpuIdle, WorkOK, Buffering, OwnersOK, OneOwner
  <2>5. ProtectionFollows' /\ GuardOK'
    BY <1>18, <2>4 DEF GpuWrite, OwnersOK, ProtectionFollows, GuardOK
  <2>6. NoWriteLost'
    BY <1>18 DEF GpuWrite, NoWriteLost
  <2> QED BY <2>2, <2>3, <2>4, <2>5, <2>6
<1>19. ASSUME NEW u \in Uses, ObtainBuffer(u[1], u[2]) PROVE IInv'
  <2>1. access' \in [Threads -> Access] /\ gpu' \in GpuState
    BY <1>19, IdleTypes DEF ObtainBuffer, Uses, GpuState
  <2>2. TypeOK'
    BY <1>19, <2>1 DEF ObtainBuffer, GpuState
  <2>3. LockOK' /\ WorkOK'
    BY <1>19 DEF ObtainBuffer, Uses, LockOK, WorkOK, Answering, Inside
  <2>4. OwnersOK' /\ OneOwner'
    BY <1>19 DEF ObtainBuffer, OwnersOK, OneOwner
  <2>5. ProtectionFollows' /\ GuardOK'
    BY <1>19 DEF ObtainBuffer, ProtectionFollows, GuardOK
  <2>6. NoWriteLost'
    BY <1>19 DEF ObtainBuffer, NoWriteLost
  <2> QED BY <2>2, <2>3, <2>4, <2>5, <2>6
<1>20. CASE UNCHANGED vars
  BY <1>20 DEF vars, LockOK, WorkOK, OwnersOK, OneOwner, ProtectionFollows, GuardOK,
       NoWriteLost, Asked
<1> QED BY <1>1, <1>2, <1>3, <1>4, <1>5, <1>6, <1>7, <1>8, <1>9, <1>10, <1>11, <1>12, <1>13,
     <1>14, <1>15, <1>16, <1>17, <1>18, <1>19, <1>20 DEF Next, GpuStep, GuestStep

\* The inductive invariant holds in every reachable state.
THEOREM InvariantHolds == Spec => []IInv
<1>1. Init => IInv
  BY InitInv
<1>2. IInv /\ [Next]_vars => IInv'
  BY StepInv
<1> QED BY <1>1, <1>2, PTL DEF Spec

\* Every state of the memory coherence has the types TypeOK gives.
THEOREM TypeCorrectness == Spec => []TypeOK
<1>1. IInv => TypeOK
  BY DEF IInv
<1> QED BY <1>1, InvariantHolds, PTL

\* A page never belongs to CPU and GPU at once, so ChangeState's EXITs are
\* not reached.
THEOREM PagesHaveOneOwner == Spec => []OneOwner
<1>1. IInv => OneOwner
  BY DEF IInv
<1> QED BY <1>1, InvariantHolds, PTL

\* No write of a guest thread or of the GPU is lost.
THEOREM WritesSurvive == Spec => []NoWriteLost
<1>1. IInv => NoWriteLost
  BY DEF IInv
<1> QED BY <1>1, InvariantHolds, PTL

\* Outside the region lock the host protection is that of the pages' owners.
THEOREM ProtectionMatches == Spec => []ProtectionFollows
<1>1. IInv => ProtectionFollows
  BY DEF IInv
<1> QED BY <1>1, InvariantHolds, PTL

\* Between the GPU thread's operations its pages are those of the exact
\* intervals it has modified.
THEOREM OwnershipMatches == Spec => []OwnershipAgrees
<1>1. IInv => OwnershipAgrees
  BY DEF IInv, OwnersOK, OwnershipAgrees
<1> QED BY <1>1, InvariantHolds, PTL

\* Owner, protection and modified intervals at once, for every constant.
THEOREM CoherenceCorrect == Spec => []CoherenceSound
BY TypeCorrectness, PagesHaveOneOwner, ProtectionMatches, OwnershipMatches, PTL
   DEF CoherenceSound

\* A load that does not fault sees the last write.
THEOREM LoadsSeeLatest == Spec => LoadsLatest
<1> DEFINE Step == \A t \in Threads :
        access[t].phase = "try" /\ ~access[t].store /\ access'[t].phase = "idle"
           => memory[access[t].cell] = latest[access[t].cell]
<1>1. IInv /\ [Next]_vars => [Step]_vars
  <2> SUFFICES ASSUME IInv, Next, NEW t \in Threads, access[t].phase = "try",
                      ~access[t].store, access'[t].phase = "idle"
               PROVE  memory[access[t].cell] = latest[access[t].cell]
    OBVIOUS
  <2> USE DEF IInv, TypeOK
  <2>1. CASE Load(t)
    BY <2>1 DEF Load, Access, GuardOK, NoWriteLost
  <2>2. ASSUME NEW u \in Threads, u # t, GuestStep(u) PROVE FALSE
    BY <2>2 DEF GuestStep, Store, Load, Fault, InvalidateRegion, Unprotect, GoTo
  <2>3. ASSUME NEW u \in Threads, NEW c \in Cells, NEW s \in BOOLEAN, Begin(u, c, s) PROVE FALSE
    BY <2>3 DEF Begin
  <2>4. CASE Fault(t)
    BY <2>4, GoToEffect DEF Fault, Access
  <2>5. CASE Store(t) \/ InvalidateRegion(t) \/ Unprotect(t)
    BY <2>5 DEF Store, InvalidateRegion, Unprotect
  <2>6. CASE Answer
    BY <2>6 DEF Answer, GoTo
  <2>7. CASE GpuStep /\ ~Answer
    BY <2>7 DEF GpuStep, Serve, Collect, Download, UnmarkRegionAsGpuModified,
         MarkRegionAsCpuModified, EndLocked, ClearCpuDirty, UploadCopy, UploadEnd, OwnPages,
         GpuWrite
  <2>8. ASSUME NEW u \in Uses, ObtainBuffer(u[1], u[2]) PROVE FALSE
    BY <2>8 DEF ObtainBuffer
  <2> QED BY <2>1, <2>2, <2>3, <2>4, <2>5, <2>6, <2>7, <2>8 DEF Next, GuestStep
<1> QED BY <1>1, InvariantHolds, PTL DEF Spec, LoadsLatest
-----------------------------------------------------------------------------
(* ImageTracking.  Numbers of pages first: after PageEnds the proofs use   *)
(* only how numbers of bytes and of pages compare.                         *)

\* Facts of division and of multiples.
LEMMA Quotients ==
    ASSUME NEW s \in Nat \ {0}, NEW v \in Nat
    PROVE  v = s * (v \div s) + (v % s) /\ v \div s \in Nat
  BY SMT

\* A byte and its page (PageNumber, PageStart and NextPage of pageManager).
LEMMA PageOfByte ==
    ASSUME Track!ImageTrackingAssumption, NEW a \in Nat
    PROVE  /\ Track!PageNumber(a) \in Nat /\ Track!PageStart(a) \in Nat
           /\ Track!PageStart(a) <= a /\ a < Track!NextPage(a)
           /\ Track!NextPage(a) = Track!PageStart(a) + PageSize
           /\ Track!NextPage(a) \in Nat
  <1>1. PageSize \in Nat /\ PageSize > 0
    BY DEF Track!ImageTrackingAssumption
  <1> DEFINE k == a \div PageSize
             r == a % PageSize
  <1>2. a = PageSize * k + r /\ k \in Nat
    BY <1>1, Quotients
  <1>3. r \in 0 .. PageSize - 1
    BY <1>1
  <1> HIDE DEF k, r
  <1>4. k * PageSize = PageSize * k /\ k * PageSize \in Nat
    BY <1>1, <1>2
  <1>5. k * PageSize <= a /\ a < k * PageSize + PageSize
    BY <1>1, <1>2, <1>3, <1>4
  <1> QED
    BY <1>1, <1>2, <1>4, <1>5 DEF Track!PageNumber, Track!PageStart, Track!NextPage, k

LEMMA PageMul ==
    ASSUME NEW s \in Nat, s > 0, NEW x \in Nat, NEW y \in Nat
    PROVE  /\ x * s \in Nat
           /\ x < y => x * s + s <= y * s
           /\ x * s < y * s + s => x <= y
           /\ x <= y => x * s <= y * s
           /\ (x + 1) * s = x * s + s
   <1>1. x < y => x * s + s <= y * s
     <2> SUFFICES ASSUME x < y PROVE x * s + s <= y * s
       OBVIOUS
     <2>1. PICK d \in Nat : y = x + 1 + d
       <3>1. y - x - 1 \in Nat /\ y = x + 1 + (y - x - 1)
         OBVIOUS
       <3> QED BY <3>1
     <2>2. y * s = x * s + s + d * s /\ d * s \in Nat /\ x * s \in Nat
       BY <2>1
     <2> QED BY <2>2
   <1>2. x > y => y * s + s <= x * s
     <2> SUFFICES ASSUME x > y PROVE y * s + s <= x * s
       OBVIOUS
     <2>1. PICK d \in Nat : x = y + 1 + d
       <3>1. x - y - 1 \in Nat /\ x = y + 1 + (x - y - 1)
         OBVIOUS
       <3> QED BY <3>1
     <2>2. x * s = y * s + s + d * s /\ d * s \in Nat /\ y * s \in Nat
       BY <2>1
     <2> QED BY <2>2
   <1>3. x * s \in Nat /\ y * s \in Nat
     OBVIOUS
   <1>4. (x + 1) * s = x * s + s
     OBVIOUS
   <1>5. x = y => x * s = y * s
     OBVIOUS
   <1> QED BY <1>1, <1>2, <1>3, <1>4, <1>5

\* Numbers of pages follow the order of the bytes.
LEMMA PageOrder ==
    ASSUME Track!ImageTrackingAssumption, NEW a \in Nat, NEW b \in Nat
    PROVE  /\ a <= b => Track!PageNumber(a) <= Track!PageNumber(b)
           /\ Track!PageNumber(a) < Track!PageNumber(b) <=> Track!NextPage(a) <= b
           /\ Track!PageNumber(a) < Track!PageNumber(b) <=> a < Track!PageStart(b)
           /\ Track!PageNumber(a) = Track!PageNumber(b) <=> Track!PageStart(a) = Track!PageStart(b)
  <1>1. PageSize \in Nat /\ PageSize > 0
    BY DEF Track!ImageTrackingAssumption
  <1> DEFINE x == Track!PageNumber(a)
             y == Track!PageNumber(b)
  <1>2. /\ x \in Nat /\ y \in Nat
        /\ Track!PageStart(a) = x * PageSize /\ Track!PageStart(b) = y * PageSize
        /\ Track!NextPage(a) = x * PageSize + PageSize /\ Track!NextPage(b) = y * PageSize + PageSize
    BY PageOfByte DEF Track!PageStart, Track!NextPage
  <1>3. x * PageSize <= a /\ a < x * PageSize + PageSize /\ y * PageSize <= b /\ b < y * PageSize + PageSize
    BY PageOfByte, <1>2
  <1> HIDE DEF x, y
  <1>4. x * PageSize \in Nat /\ y * PageSize \in Nat
    BY <1>1, <1>2
  <1>5. /\ x < y => x * PageSize + PageSize <= y * PageSize
        /\ y < x => y * PageSize + PageSize <= x * PageSize
    BY <1>1, <1>2, PageMul
  <1>6. x = y => x * PageSize = y * PageSize
    OBVIOUS
  <1>7. x < y <=> x * PageSize + PageSize <= b
    BY <1>1, <1>2, <1>3, <1>4, <1>5, <1>6
  <1>8. x < y <=> a < y * PageSize
    BY <1>1, <1>2, <1>3, <1>4, <1>5, <1>6
  <1>9. x = y <=> x * PageSize = y * PageSize
    BY <1>1, <1>2, <1>3, <1>4, <1>5, <1>6
  <1>10. a <= b => x <= y
    BY <1>1, <1>2, <1>3, <1>4, <1>5, <1>6
  <1> QED
    BY <1>2, <1>7, <1>8, <1>9, <1>10 DEF x, y

\* Numbers in p * s .. p * s + s - 1 are those of page p.
LEMMA PageBounds ==
    ASSUME Track!ImageTrackingAssumption, NEW a \in Nat, NEW q \in Nat,
           q * PageSize <= a, a < (q + 1) * PageSize
    PROVE  Track!PageNumber(a) = q
  <1>1. PageSize \in Nat /\ PageSize > 0
    BY DEF Track!ImageTrackingAssumption
  <1>2. Track!PageStart(a) = Track!PageNumber(a) * PageSize /\ Track!PageNumber(a) \in Nat
        /\ Track!PageStart(a) <= a /\ a < Track!PageStart(a) + PageSize
    BY PageOfByte DEF Track!PageStart
  <1> DEFINE x == Track!PageNumber(a)
  <1>3. x * PageSize <= a /\ a < x * PageSize + PageSize /\ x \in Nat /\ x * PageSize \in Nat
    BY <1>1, <1>2
  <1>4. a < q * PageSize + PageSize /\ q * PageSize \in Nat
    BY <1>1
  <1> HIDE DEF x
  <1>5. /\ x < q => x * PageSize + PageSize <= q * PageSize
        /\ q < x => q * PageSize + PageSize <= x * PageSize
    BY <1>1, <1>3, PageMul
  <1>6. x = q
    BY <1>1, <1>3, <1>4, <1>5
  <1> QED
    BY <1>6 DEF x

\* The bytes at the ends of a page.
LEMMA PageEnds ==
    ASSUME Track!ImageTrackingAssumption, NEW a \in Nat
    PROVE  /\ Track!PageNumber(Track!PageStart(a)) = Track!PageNumber(a)
           /\ Track!PageNumber(Track!NextPage(a)) = Track!PageNumber(a) + 1
           /\ Track!PageStart(a) > 0 => Track!PageNumber(Track!PageStart(a) - 1) = Track!PageNumber(a) - 1
           /\ Track!PageNumber(Track!NextPage(a) - 1) = Track!PageNumber(a)
           /\ Track!PageStart(a) % PageSize = 0 /\ Track!NextPage(a) % PageSize = 0
  <1>1. PageSize \in Nat /\ PageSize > 0
    BY DEF Track!ImageTrackingAssumption
  <1> DEFINE x == Track!PageNumber(a)
  <1>2. /\ x \in Nat /\ Track!PageStart(a) = x * PageSize 
        /\ Track!NextPage(a) = x * PageSize + PageSize /\ x * PageSize \in Nat
    BY <1>1, PageOfByte DEF Track!PageStart, Track!NextPage
  <1> HIDE DEF x
  <1>3. (x + 1) * PageSize = x * PageSize + PageSize /\ (x + 2) * PageSize = x * PageSize + 2 * PageSize
        /\ (x + 1 + 1) * PageSize = x * PageSize + 2 * PageSize
    BY <1>1, <1>2
  <1>4. Track!PageNumber(Track!PageStart(a)) = x
    BY <1>1, <1>2, <1>3, PageBounds
  <1>5. Track!PageNumber(Track!NextPage(a)) = x + 1
    <2>1. (x + 1) * PageSize <= Track!NextPage(a) /\ Track!NextPage(a) < (x + 1 + 1) * PageSize /\ x + 1 \in Nat
          /\ Track!NextPage(a) \in Nat
      BY <1>1, <1>2, <1>3
    <2> QED
      BY <2>1, PageBounds
  <1>6. Track!PageNumber(Track!NextPage(a) - 1) = x
    <2>1. x * PageSize <= Track!NextPage(a) - 1 /\ Track!NextPage(a) - 1 < (x + 1) * PageSize /\ x \in Nat
          /\ Track!NextPage(a) - 1 \in Nat
      BY <1>1, <1>2, <1>3
    <2> QED
      BY <2>1, PageBounds
  <1>7. ASSUME Track!PageStart(a) > 0 PROVE Track!PageNumber(Track!PageStart(a) - 1) = x - 1
    <2>1. x > 0
      <3>1. x = 0 => x * PageSize = 0
        BY <1>1
      <3> QED
        BY <3>1, <1>2, <1>7
    <2>2. x - 1 \in Nat /\ x - 1 + 1 = x /\ (x - 1) * PageSize = x * PageSize - PageSize
      BY <2>1, <1>1, <1>2
    <2>3. (x - 1) * PageSize <= Track!PageStart(a) - 1 /\ Track!PageStart(a) - 1 < (x - 1 + 1) * PageSize
          /\ Track!PageStart(a) - 1 \in Nat
      BY <2>2, <1>1, <1>2, <1>7
    <2> QED
      BY <2>2, <2>3, PageBounds
  <1>8. (x * PageSize) % PageSize = 0 /\ ((x + 1) * PageSize) % PageSize = 0
    BY <1>1, <1>2
  <1> QED
    BY <1>2, <1>3, <1>4, <1>5, <1>6, <1>7, <1>8 DEF x

\* An image's bytes are on pages that are there, none of them page 0.
LEMMA ByteFacts ==
    ASSUME Track!ImageTrackingAssumption, NEW a \in Track!Bytes
    PROVE  a \in Nat /\ a > 0 /\ Track!PageNumber(a) \in ImagePages
  <1>1. PageSize \in Nat /\ PageSize > 0 /\ ImagePages \subseteq Nat \ {0}
    BY DEF Track!ImageTrackingAssumption
  <1>2. PICK q \in ImagePages : a \in q * PageSize .. (q + 1) * PageSize - 1
    BY DEF Track!Bytes
  <1>3. q \in Nat /\ q > 0
    BY <1>1
  <1>4. q * PageSize \in Nat /\ (q + 1) * PageSize = q * PageSize + PageSize /\ (q + 1) * PageSize \in Nat
    BY <1>1, <1>3
  <1>5. 0 * PageSize + PageSize <= q * PageSize
    BY <1>1, <1>3, PageMul
  <1>6. a \in Nat /\ a >= q * PageSize /\ a < (q + 1) * PageSize
    BY <1>2, <1>4, <1>1
  <1>7. Track!PageNumber(a) = q
    BY <1>3, <1>6, PageBounds
  <1>8. q * PageSize > 0
    BY <1>5, <1>1, <1>4
  <1> QED
    BY <1>6, <1>7, <1>8, <1>4

LEMMA ImageFacts ==
    ASSUME Track!ImageTrackingAssumption, NEW i \in Images
    PROVE  /\ First[i] \in Nat /\ Past[i] \in Nat /\ First[i] > 0 /\ First[i] < Past[i]
           /\ Track!BytesOf(i) \subseteq Track!Bytes
  <1>1. First[i] \in Track!Bytes /\ Past[i] \in Nat /\ First[i] < Past[i] /\ First[i] .. Past[i] - 1 \subseteq Track!Bytes
    BY DEF Track!ImageTrackingAssumption
  <1> QED
    BY <1>1, ByteFacts DEF Track!BytesOf

\* Where a watched range begins and ends: with the image, or where a head or a
\* tail that the image shares with others has been let go.
Ends(i, im) ==
    Track!Tracked(im) =>
        /\ \/ im.lo = First[i]
           \/ im.lo = Track!NextPage(First[i]) /\ Track!PageStart(First[i]) < First[i]
        /\ \/ im.hi = Past[i]
           \/ im.hi = Track!PageStart(Past[i]) /\ Track!PageStart(Past[i]) < Past[i]
        /\ im.lo < im.hi

\* The same in numbers of pages.
LEMMA EndPages ==
    ASSUME Track!ImageTrackingAssumption, NEW i \in Images, NEW im \in Track!ImageState,
           Track!Tracked(im), Ends(i, im)
    PROVE  /\ im.lo \in Nat /\ im.hi \in Nat /\ im.lo < im.hi /\ First[i] <= im.lo /\ im.hi <= Past[i]
           /\ \/ im.lo = First[i]
              \/ /\ First[i] < im.lo /\ Track!PageNumber(im.lo) = Track!PageNumber(First[i]) + 1
                 /\ Track!PageNumber(im.lo - 1) = Track!PageNumber(First[i])
           /\ \/ im.hi = Past[i]
              \/ /\ im.hi < Past[i] /\ Track!PageNumber(im.hi) = Track!PageNumber(Past[i])
                 /\ Track!PageNumber(Past[i] - 1) = Track!PageNumber(Past[i])
                 /\ Track!PageNumber(im.hi - 1) = Track!PageNumber(Past[i]) - 1
           /\ Track!PageNumber(im.lo) <= Track!PageNumber(im.hi - 1)
           /\ Track!PageNumber(First[i]) <= Track!PageNumber(Past[i] - 1)
           /\ \A a \in {im.lo, im.hi, First[i], Past[i], im.lo - 1, im.hi - 1, Past[i] - 1} :
                  a \in Nat /\ Track!PageNumber(a) \in Nat
  <1> DEFINE a == First[i]
             b == Past[i]
             lo == im.lo
             hi == im.hi
  <1>1. lo \in Nat /\ hi \in Nat /\ lo < hi
    BY DEF Ends, Track!ImageState
  <1>2. a \in Nat /\ b \in Nat /\ a > 0 /\ a < b
    BY ImageFacts
  <1>3. /\ lo = a \/ (lo = Track!NextPage(a) /\ Track!PageStart(a) < a)
        /\ hi = b \/ (hi = Track!PageStart(b) /\ Track!PageStart(b) < b)
    BY DEF Ends
  <1> HIDE DEF a, b, lo, hi
  <1>4. /\ Track!PageStart(a) <= a /\ a < Track!NextPage(a)
        /\ Track!PageStart(b) <= b /\ b < Track!NextPage(b)
        /\ Track!PageStart(a) \in Nat /\ Track!PageStart(b) \in Nat /\ Track!NextPage(a) \in Nat
        /\ Track!PageNumber(b) \in Nat /\ Track!PageNumber(a) \in Nat
    BY <1>2, PageOfByte
  <1>5. lo > 0 /\ hi > 0 /\ a <= lo /\ hi <= b /\ lo - 1 \in Nat /\ hi - 1 \in Nat /\ b - 1 \in Nat
    BY <1>1, <1>2, <1>3, <1>4
  <1>6. Track!PageNumber(lo) <= Track!PageNumber(hi - 1) /\ Track!PageNumber(a) <= Track!PageNumber(b - 1)
    <2>1. lo <= hi - 1 /\ a <= b - 1
      BY <1>1, <1>2
    <2> QED
      BY <2>1, <1>1, <1>2, <1>5, PageOrder
  <1>7. \/ lo = a
        \/ a < lo /\ Track!PageNumber(lo) = Track!PageNumber(a) + 1 /\ Track!PageNumber(lo - 1) = Track!PageNumber(a)
    BY <1>2, <1>3, <1>4, PageEnds
  <1>8. ASSUME hi = Track!PageStart(b), hi < b
        PROVE  /\ Track!PageNumber(hi) = Track!PageNumber(b)
               /\ Track!PageNumber(b - 1) = Track!PageNumber(b)
               /\ Track!PageNumber(hi - 1) = Track!PageNumber(b) - 1
    <2>1. Track!PageNumber(hi) = Track!PageNumber(b) /\ Track!PageNumber(hi - 1) = Track!PageNumber(b) - 1
      BY <1>2, <1>5, <1>8, PageEnds
    <2>2. Track!PageNumber(hi) <= Track!PageNumber(b - 1) /\ Track!PageNumber(b - 1) <= Track!PageNumber(b)
      <3>1. hi <= b - 1 /\ b - 1 <= b
        BY <1>8, <1>1, <1>2
      <3> QED
        BY <3>1, <1>1, <1>2, <1>5, PageOrder
    <2>3. Track!PageNumber(b - 1) \in Nat
      BY <1>5, PageOfByte
    <2> QED
      BY <2>1, <2>2, <2>3, <1>4
  <1>9. \A c \in {lo, hi, a, b, lo - 1, hi - 1, b - 1} : c \in Nat /\ Track!PageNumber(c) \in Nat
    BY <1>1, <1>2, <1>5, PageOfByte
  <1>10. \/ hi = b
         \/ /\ hi < b /\ Track!PageNumber(hi) = Track!PageNumber(b)
            /\ Track!PageNumber(b - 1) = Track!PageNumber(b)
            /\ Track!PageNumber(hi - 1) = Track!PageNumber(b) - 1
    BY <1>3, <1>8
  <1> QED
    BY <1>1, <1>5, <1>6, <1>7, <1>9, <1>10 DEF a, b, lo, hi

\* TrackImage watches the rest of the image and no page twice.
LEMMA TrackImagePages ==
    ASSUME Track!ImageTrackingAssumption, NEW i \in Images, image[i] \in Track!ImageState,
           Ends(i, image[i])
    PROVE  /\ Track!TrackImage(i) \in Track!ImageState
           /\ Track!TrackImage(i).lo = First[i] /\ Track!TrackImage(i).hi = Past[i]
           /\ Track!TrackImage(i).registered = image[i].registered
           /\ Track!TrackImage(i).cpu = image[i].cpu
           /\ Track!TrackImage(i).maybe = image[i].maybe
           /\ Track!TrackImage(i).hashed = image[i].hashed
           /\ Track!Tracked(Track!TrackImage(i))
           /\ Ends(i, Track!TrackImage(i))
           /\ Track!UntrackImagePages(Track!TrackImage(i))
                = Track!UntrackImagePages(image[i]) \cup Track!TrackImagePages(i)
           /\ Track!UntrackImagePages(image[i]) \cap Track!TrackImagePages(i) = {}
  <1> DEFINE im == image[i]
             new == Track!TrackImage(i)
             a == First[i]
             b == Past[i]
  <1>1. a \in Nat /\ b \in Nat /\ a > 0 /\ a < b
    BY ImageFacts
  <1>2. /\ new \in Track!ImageState /\ new.lo = a /\ new.hi = b
        /\ new.registered = im.registered /\ new.cpu = im.cpu /\ new.maybe = im.maybe /\ new.hashed = im.hashed
    BY <1>1 DEF Track!ImageState, Track!TrackImage
  <1> HIDE DEF new
  <1>3. Track!Tracked(new)
    BY <1>1, <1>2 DEF Track!Tracked
  <1>4. Ends(i, new)
    BY <1>1, <1>2 DEF Ends
  <1>5. Track!UntrackImagePages(new) = Track!PageNumber(a) .. Track!PageNumber(b - 1)
    BY <1>1, <1>2, <1>3 DEF Track!UntrackImagePages, Track!PagesOf
  <1>6. CASE ~Track!Tracked(im)
    <2>1. Track!UntrackImagePages(im) = {}
      BY <1>6 DEF Track!UntrackImagePages
    <2>2. Track!TrackImagePages(i) = Track!PageNumber(a) .. Track!PageNumber(b - 1)
      BY <1>1, <1>6 DEF Track!PagesOf, Track!TrackImagePages
    <2> QED
      BY <1>2, <1>3, <1>4, <1>5, <2>1, <2>2 DEF new
  <1>7. CASE Track!Tracked(im)
    <2>1. Track!UntrackImagePages(im) = Track!PageNumber(im.lo) .. Track!PageNumber(im.hi - 1)
      BY <1>7, EndPages DEF Track!UntrackImagePages, Track!PagesOf
    <2>2. Track!TrackImagePages(i) = Track!PagesOf(a, im.lo) \cup Track!PagesOf(im.hi, b)
      BY <1>7 DEF Track!TrackImagePages
    <2>3. /\ im.lo \in Nat /\ im.hi \in Nat
          /\ Track!PageNumber(im.lo) <= Track!PageNumber(im.hi - 1)
          /\ Track!PageNumber(a) <= Track!PageNumber(b - 1)
          /\ Track!PageNumber(im.lo) \in Nat /\ Track!PageNumber(im.hi - 1) \in Nat
          /\ Track!PageNumber(a) \in Nat /\ Track!PageNumber(b - 1) \in Nat
      BY <1>7, EndPages
    <2>4. \/ im.lo = a /\ Track!PagesOf(a, im.lo) = {}
          \/ /\ Track!PageNumber(im.lo) = Track!PageNumber(a) + 1
             /\ Track!PagesOf(a, im.lo) = Track!PageNumber(a) .. Track!PageNumber(a)
      BY <1>7, <1>1, <2>3, EndPages DEF Track!PagesOf
    <2>5. \/ im.hi = b /\ Track!PagesOf(im.hi, b) = {}
          \/ /\ Track!PageNumber(im.hi - 1) = Track!PageNumber(b - 1) - 1
             /\ Track!PagesOf(im.hi, b) = Track!PageNumber(b - 1) .. Track!PageNumber(b - 1)
      BY <1>7, <1>1, <2>3, EndPages DEF Track!PagesOf
    <2>6. Track!UntrackImagePages(new) = Track!UntrackImagePages(im) \cup Track!TrackImagePages(i)
      BY <1>5, <2>1, <2>2, <2>3, <2>4, <2>5
    <2>7. Track!UntrackImagePages(im) \cap Track!TrackImagePages(i) = {}
      BY <2>1, <2>2, <2>3, <2>4, <2>5
    <2> QED
      BY <1>2, <1>3, <1>4, <2>6, <2>7 DEF new
  <1> QED
    BY <1>2, <1>3, <1>4, <1>6, <1>7 DEF new

\* A store on the image's first page that is not on the image lies before it; one
\* on its last page behind it; if neither has pages to spare, the image lies
\* within one page, and all its bytes are hashed.
LEMMA StoreBeside ==
    ASSUME Track!ImageTrackingAssumption, NEW i \in Images, NEW a \in Nat, NEW n \in 1 .. 2,
           Track!PagesOverlap(i, a, n), ~Track!Overlaps(i, a, n)
    PROVE  /\ Track!HeadCase(i, a, n) =>
                 /\ Track!PageStart(First[i]) < First[i]
                 /\ Track!NextPage(First[i]) < Past[i]
           /\ ~Track!HeadCase(i, a, n) /\ Track!TailCase(i, a) =>
                 /\ Track!PageStart(Past[i]) < Past[i]
                 /\ First[i] < Track!PageStart(Past[i])
           /\ ~Track!HeadCase(i, a, n) /\ ~Track!TailCase(i, a) =>
                 Track!Guarded(i) \subseteq Track!Edges(i)
  <1> DEFINE f == First[i]
             p == Past[i]
             e == a + n - 1
  <1>1. f \in Nat /\ p \in Nat /\ f > 0 /\ f < p /\ p - 1 \in Nat /\ e \in Nat /\ a \in Nat /\ a <= e
    BY ImageFacts
  <1>2. e < f \/ p <= a
    BY <1>1 DEF Track!Overlaps
  <1>3. Track!PageNumber(f) <= Track!PageNumber(e) /\ Track!PageNumber(a) <= Track!PageNumber(p - 1)
    BY DEF Track!PagesOverlap
  <1> HIDE DEF f, p, e
  <1>4. /\ Track!PageNumber(f) \in Nat /\ Track!PageNumber(e) \in Nat /\ Track!PageNumber(a) \in Nat
        /\ Track!PageNumber(p - 1) \in Nat /\ Track!PageNumber(p) \in Nat
        /\ Track!PageStart(f) \in Nat /\ Track!PageStart(e) \in Nat /\ Track!PageStart(a) \in Nat
        /\ Track!PageStart(p - 1) \in Nat /\ Track!PageStart(p) \in Nat
    BY <1>1, PageOfByte
  <1>5. ASSUME e < f
        PROVE  /\ Track!PageNumber(e) = Track!PageNumber(f) /\ Track!PageStart(e) = Track!PageStart(f)
               /\ Track!PageStart(f) < f /\ Track!NextPage(e) = Track!NextPage(f)
               /\ Track!PageStart(a) < f
    <2>1. Track!PageNumber(e) <= Track!PageNumber(f) /\ Track!PageNumber(a) <= Track!PageNumber(e)
      BY <1>1, <1>5, PageOrder
    <2>2. Track!PageNumber(e) = Track!PageNumber(f)
      BY <2>1, <1>3, <1>4
    <2>3. Track!PageStart(e) = Track!PageStart(f)
      BY <2>2, <1>1, PageOrder
    <2>4. Track!PageStart(e) <= e /\ Track!PageStart(a) <= a
      BY <1>1, PageOfByte
    <2>5. Track!NextPage(e) = Track!NextPage(f)
      BY <2>3 DEF Track!NextPage
    <2> QED
      BY <2>2, <2>3, <2>4, <2>5, <1>5, <1>1, <1>4
  <1>6. ASSUME p <= a
        PROVE  /\ Track!PageNumber(a) = Track!PageNumber(p) /\ Track!PageNumber(p - 1) = Track!PageNumber(p)
               /\ Track!PageStart(a) = Track!PageStart(p) /\ Track!PageStart(p - 1) = Track!PageStart(p)
               /\ Track!PageStart(p) < p /\ ~(Track!NextPage(e) < p) /\ p < Track!NextPage(a)
    <2>1. Track!PageNumber(p) <= Track!PageNumber(a) /\ Track!PageNumber(p - 1) <= Track!PageNumber(p)
      <3>1. p - 1 <= p
        BY <1>1
      <3> QED
        BY <3>1, <1>1, <1>6, PageOrder
    <2>2. Track!PageNumber(a) = Track!PageNumber(p) /\ Track!PageNumber(p - 1) = Track!PageNumber(p)
      BY <2>1, <1>3, <1>4
    <2>3. Track!PageStart(a) = Track!PageStart(p) /\ Track!PageStart(p - 1) = Track!PageStart(p)
      BY <2>2, <1>1, PageOrder
    <2>4. Track!PageStart(p - 1) <= p - 1 /\ e < Track!NextPage(e) /\ a < Track!NextPage(a)
          /\ Track!NextPage(e) \in Nat /\ Track!NextPage(a) \in Nat
      BY <1>1, PageOfByte
    <2> QED
      BY <2>2, <2>3, <2>4, <1>6, <1>1, <1>4
  <1>7. Track!HeadCase(i, a, n) =>
           Track!PageStart(f) < f /\ Track!NextPage(f) < p
    BY <1>2, <1>5, <1>6 DEF Track!HeadCase, e, p
  <1>8. Track!TailCase(i, a) => Track!PageStart(p) < p /\ f < Track!PageStart(p)
    BY <1>1, <1>2, <1>4, <1>5, <1>6 DEF Track!TailCase, f
  <1>9. ASSUME ~Track!HeadCase(i, a, n), ~Track!TailCase(i, a)
        PROVE  Track!Guarded(i) \subseteq Track!Edges(i)
    <2>1. Track!PageNumber(f) <= Track!PageNumber(p - 1)
      <3>1. f <= p - 1
        BY <1>1
      <3> QED
        BY <3>1, <1>1, PageOrder
    <2>2. Track!PageNumber(f) = Track!PageNumber(p - 1)
      <3>1. CASE e < f
        <4>1. Track!NextPage(f) >= p /\ Track!NextPage(f) \in Nat
          <5>1. ~(Track!NextPage(f) < p)
            BY <3>1, <1>5, <1>9 DEF Track!HeadCase, e, p
          <5> QED
            BY <5>1, <1>1, PageOfByte
        <4>2. ~(Track!NextPage(f) <= p - 1)
          BY <4>1, <1>1
        <4>3. ~(Track!PageNumber(f) < Track!PageNumber(p - 1))
          BY <4>2, <1>1, PageOrder
        <4> QED
          BY <4>3, <2>1, <1>4
      <3>2. CASE p <= a
        <4>1. ~(f < Track!PageStart(p - 1))
          BY <3>2, <1>6, <1>9 DEF Track!TailCase, f
        <4>2. ~(Track!PageNumber(f) < Track!PageNumber(p - 1))
          BY <4>1, <1>1, PageOrder
        <4> QED
          BY <4>2, <2>1, <1>4
      <3> QED
        BY <1>2, <3>1, <3>2
    <2>3. SUFFICES ASSUME NEW x \in Track!Guarded(i) PROVE x \in Track!Edges(i)
      OBVIOUS
    <2>4. x \in Track!BytesOf(i)
      BY <2>2 DEF Track!Guarded, f, p
    <2>5. x \in Nat /\ f <= x /\ x <= p - 1
      BY <2>4, <1>1 DEF Track!BytesOf, f, p
    <2>6. Track!PageNumber(x) = Track!PageNumber(f)
      <3>1. Track!PageNumber(f) <= Track!PageNumber(x) /\ Track!PageNumber(x) <= Track!PageNumber(p - 1)
        BY <2>5, <1>1, PageOrder
      <3>2. Track!PageNumber(x) \in Nat
        BY <2>5, PageOfByte
      <3> QED
        BY <3>1, <3>2, <2>2, <1>4
    <2>7. Track!PageStart(x) = Track!PageStart(f) /\ Track!PageStart(x) = Track!PageStart(p - 1)
      BY <2>2, <2>5, <2>6, <1>1, PageOrder
    <2>8. Track!PageStart(x) < f \/ p < Track!NextPage(x)
      <3>1. CASE e < f
        BY <3>1, <1>5, <2>7
      <3>2. CASE p <= a
        BY <3>2, <1>6, <2>7 DEF Track!NextPage
      <3> QED
        BY <1>2, <3>1, <3>2
    <2> QED
      BY <2>4, <2>8 DEF Track!Edges, f, p
  <1> QED
    BY <1>7, <1>8, <1>9 DEF f, p

\* Where only a shared first and a shared last page are left, no byte is guarded.
LEMMA NothingGuarded ==
    ASSUME Track!ImageTrackingAssumption, NEW i \in Images,
           Track!PageStart(First[i]) < First[i], Track!PageStart(Past[i]) < Past[i],
           Track!NextPage(First[i]) = Track!PageStart(Past[i])
    PROVE  Track!Guarded(i) \subseteq Track!Edges(i)
  <1> DEFINE f == First[i]
             p == Past[i]
  <1>1. f \in Nat /\ p \in Nat /\ f > 0 /\ f < p /\ p - 1 \in Nat
    BY ImageFacts
  <1>2. SUFFICES ASSUME NEW x \in Track!BytesOf(i) PROVE x \in Track!Edges(i)
    BY DEF Track!Guarded
  <1>3. x \in Nat /\ f <= x /\ x <= p - 1
    BY <1>1 DEF Track!BytesOf
  <1> HIDE DEF f, p
  <1>4. /\ Track!PageNumber(f) \in Nat /\ Track!PageNumber(x) \in Nat /\ Track!PageNumber(p) \in Nat
        /\ p < Track!NextPage(p)
    BY <1>1, <1>3, PageOfByte
  <1>5. Track!PageNumber(f) <= Track!PageNumber(x) /\ Track!PageNumber(x) <= Track!PageNumber(p)
    <2>1. x <= p
      BY <1>1, <1>3
    <2> QED
      BY <2>1, <1>1, <1>3, PageOrder
  <1>6. CASE Track!PageNumber(f) = Track!PageNumber(x)
    <2>1. Track!PageStart(x) = Track!PageStart(f)
      BY <1>6, <1>1, <1>3, PageOrder
    <2> QED
      BY <2>1 DEF Track!Edges, f
  <1>7. CASE Track!PageNumber(f) < Track!PageNumber(x)
    <2>1. Track!PageStart(p) <= x
      BY <1>1, <1>3, <1>7, PageOrder DEF f, p
    <2>2. Track!PageNumber(Track!PageStart(p)) <= Track!PageNumber(x)
      BY <2>1, <1>1, <1>3, PageOrder, PageOfByte
    <2>3. Track!PageNumber(p) = Track!PageNumber(x)
      BY <2>2, <1>1, <1>4, <1>5, PageEnds
    <2>4. Track!NextPage(p) = Track!NextPage(x)
      BY <2>3, <1>1, <1>3, PageOrder DEF Track!NextPage
    <2> QED
      BY <2>4, <1>4 DEF Track!Edges, p
  <1> QED
    BY <1>4, <1>5, <1>6, <1>7

\* What the flags of an image say of it: clean ones are watched; one that may be
\* dirty has a hash of all bytes whose stores its watches could miss.
Flags(i, im) ==
    /\ im.registered /\ ~Track!Dirty(im) => Track!Tracked(im)
    /\ ~im.registered => ~Track!Tracked(im)
    /\ im.maybe => im.hashed /\ Track!Guarded(i) \subseteq Track!Edges(i)

LEMMA NotWatched ==
    ASSUME NEW i \in Images, NEW im \in Track!ImageState
    PROVE  LET new == Track!UntrackImage(im)
           IN  /\ new \in Track!ImageState /\ new.registered = im.registered
               /\ new.cpu = im.cpu /\ new.maybe = im.maybe /\ new.hashed = im.hashed
               /\ ~Track!Tracked(new) /\ Track!UntrackImagePages(new) = {}
  <1> DEFINE new == Track!UntrackImage(im)
  <1>1. /\ new \in Track!ImageState /\ new.registered = im.registered
        /\ new.cpu = im.cpu /\ new.maybe = im.maybe /\ new.hashed = im.hashed
        /\ new.lo = 0 /\ new.hi = 0
    BY DEF Track!UntrackImage, Track!ImageState
  <1> HIDE DEF new
  <1>2. ~Track!Tracked(new)
    BY <1>1 DEF Track!Tracked
  <1>3. Track!UntrackImagePages(new) = {}
    BY <1>2 DEF Track!UntrackImagePages
  <1> QED
    BY <1>1, <1>2, <1>3 DEF new

LEMMA MaybeDirtyImage ==
    ASSUME NEW i \in Images, NEW im \in Track!ImageState, im.registered,
           Track!Guarded(i) \subseteq Track!Edges(i)
    PROVE  LET new == Track!MarkAsMaybeDirty(im)
           IN  /\ new \in Track!ImageState /\ new.registered = im.registered
               /\ Ends(i, new)
               /\ (Flags(i, new) \/ (im.maybe /\ ~im.hashed))
               /\ Track!UntrackImagePages(new) = {} /\ Track!Dirty(new)
               /\ new.maybe /\ ~im.maybe => ~Track!Dirty(im)
  <1> DEFINE mid == IF im.cpu THEN im ELSE [im EXCEPT !.maybe = TRUE, !.hashed = TRUE]
             new == Track!MarkAsMaybeDirty(im)
  <1>1. /\ mid \in Track!ImageState /\ mid.registered = im.registered
        /\ mid.cpu = im.cpu /\ mid.maybe = (im.maybe \/ ~im.cpu)
        /\ ~im.cpu => mid.hashed
        /\ im.cpu => mid.hashed = im.hashed
    BY DEF Track!ImageState
  <1>2. new = Track!UntrackImage(mid)
    BY DEF Track!MarkAsMaybeDirty
  <1> HIDE DEF mid, new
  <1>3. /\ new \in Track!ImageState /\ new.registered = mid.registered
        /\ new.cpu = mid.cpu /\ new.maybe = mid.maybe /\ new.hashed = mid.hashed
        /\ ~Track!Tracked(new) /\ Track!UntrackImagePages(new) = {}
    BY <1>1, <1>2, NotWatched
  <1>4. im.cpu \in BOOLEAN /\ im.maybe \in BOOLEAN /\ im.hashed \in BOOLEAN /\ im.registered \in BOOLEAN
    BY DEF Track!ImageState
  <1>5. Track!Dirty(new)
    BY <1>1, <1>3, <1>4 DEF Track!Dirty
  <1>6. Ends(i, new)
    BY <1>3 DEF Ends
  <1>7. Flags(i, new) \/ (im.maybe /\ ~im.hashed)
    BY <1>1, <1>3, <1>4, <1>5 DEF Flags
  <1>8. new.maybe /\ ~im.maybe => ~Track!Dirty(im)
    BY <1>1, <1>3, <1>4 DEF Track!Dirty
  <1> QED
    BY <1>1, <1>3, <1>5, <1>6, <1>7, <1>8 DEF new

\* What a call that a store makes for an image leaves: sound ends and flags, and
\* exactly the pages less that it counts as given back.
Settled(i, im, new, given) ==
    /\ new \in Track!ImageState /\ new.registered = im.registered
    /\ Ends(i, new) /\ Flags(i, new)
    /\ given \subseteq Track!UntrackImagePages(im)
    /\ Track!UntrackImagePages(new) = Track!UntrackImagePages(im) \ given
    /\ ~Track!Dirty(new) => ~Track!Dirty(im)
    /\ new.maybe /\ ~im.maybe => ~Track!Dirty(im)

LEMMA HeadSettled ==
    ASSUME Track!ImageTrackingAssumption, NEW i \in Images, image[i] \in Track!ImageState,
           image[i].registered, Ends(i, image[i]), Flags(i, image[i]),
           Track!PageStart(First[i]) < First[i], Track!NextPage(First[i]) < Past[i]
    PROVE  Settled(i, image[i], Track!UntrackImageHead(i), Track!UntrackImageHeadPages(i))
  <1> DEFINE im == image[i]
             f == First[i]
             p == Past[i]
             s == Track!NextPage(f)
             cut == [im EXCEPT !.lo = s]
             pages == Track!UntrackImageHeadPages(i)
             new == Track!UntrackImageHead(i)
  <1>1. /\ f \in Nat /\ p \in Nat /\ f > 0 /\ f < p /\ s \in Nat /\ f < s
        /\ Track!PageNumber(f) \in Nat /\ s < p
    BY ImageFacts, PageOfByte
  <1>2. CASE ~Track!HeadTracked(i)
    BY <1>2 DEF Track!UntrackImageHead, Track!UntrackImageHeadPages, Settled
  <1>3. CASE Track!HeadTracked(i)
    <2>1. Track!Tracked(im) /\ f >= im.lo
      BY <1>3 DEF Track!HeadTracked
    <2>2. /\ im.lo \in Nat /\ im.hi \in Nat /\ im.lo < im.hi /\ im.lo = f
          /\ Track!PageNumber(im.hi - 1) \in Nat /\ Track!PageNumber(f) <= Track!PageNumber(im.hi - 1)
          /\ im.hi - 1 \in Nat
      BY <2>1, <1>1, EndPages
    <2>3. Track!PageNumber(s) = Track!PageNumber(f) + 1 /\ Track!PageNumber(s - 1) = Track!PageNumber(f)
      BY <1>1, PageEnds
    <2>4. Track!UntrackImagePages(im) = Track!PageNumber(f) .. Track!PageNumber(im.hi - 1)
      BY <2>1, <2>2 DEF Track!UntrackImagePages, Track!PagesOf
    <2>5. pages = Track!PageNumber(f) .. Track!PageNumber(f)
      BY <1>1, <1>3, <2>3 DEF Track!UntrackImageHeadPages, Track!PagesOf
    <2>6. /\ cut \in Track!ImageState /\ cut.lo = s /\ cut.hi = im.hi
          /\ cut.registered = im.registered /\ cut.cpu = im.cpu
          /\ cut.maybe = im.maybe /\ cut.hashed = im.hashed
      BY <1>1 DEF Track!ImageState
    <2>7. /\ im.hi = p \/ (im.hi = Track!PageStart(p) /\ Track!PageStart(p) < p)
          /\ s <= im.hi
      <3>1. im.hi = p \/ (im.hi = Track!PageStart(p) /\ Track!PageStart(p) < p)
        BY <2>1 DEF Ends
      <3>2. s <= Track!PageStart(p)
        <4>1. Track!PageNumber(f) < Track!PageNumber(p)
          BY <1>1, PageOrder
        <4>2. Track!PageStart(p) \in Nat
          BY <1>1, PageOfByte
        <4>3. Track!PageNumber(f) < Track!PageNumber(Track!PageStart(p))
          BY <1>1, <4>1, PageEnds
        <4> QED
          BY <1>1, <4>2, <4>3, PageOrder
      <3> QED
        BY <3>1, <3>2, <1>1
    <2>8. new = IF s = im.hi THEN Track!MarkAsMaybeDirty(cut) ELSE cut
      BY <1>3, <2>6 DEF Track!UntrackImageHead, Track!Emptied
    <2> HIDE DEF im, cut, new, pages, f, p, s
    <2>9. pages \subseteq Track!UntrackImagePages(im)
      BY <2>2, <2>4, <2>5, <1>1
    <2>10. CASE s = im.hi
      <3>1. Track!PageStart(p) < p /\ s = Track!PageStart(p)
        BY <1>1, <2>7, <2>10
      <3>2. Track!Guarded(i) \subseteq Track!Edges(i)
        BY <3>1, NothingGuarded DEF s, f, p
      <3>3. cut.registered
        BY <2>6 DEF im
      <3>4. /\ new \in Track!ImageState /\ new.registered = cut.registered
            /\ Ends(i, new)
            /\ (Flags(i, new) \/ (cut.maybe /\ ~cut.hashed))
            /\ Track!UntrackImagePages(new) = {} /\ Track!Dirty(new)
            /\ new.maybe /\ ~cut.maybe => ~Track!Dirty(cut)
        BY <2>6, <2>8, <2>10, <3>2, <3>3, MaybeDirtyImage
      <3>5. ~(im.maybe /\ ~im.hashed)
        BY DEF Flags, im
      <3>6. Track!Dirty(cut) = Track!Dirty(im)
        BY <2>6 DEF Track!Dirty
      <3>7. Track!UntrackImagePages(im) \ pages = {}
        BY <2>3, <2>4, <2>5, <2>10
      <3> QED
        BY <2>6, <2>9, <3>4, <3>5, <3>6, <3>7 DEF Settled, new, pages, im
    <2>11. CASE s # im.hi
      <3>1. new = cut /\ s < im.hi
        BY <2>2, <2>7, <2>8, <2>11, <1>1
      <3>2. Track!Tracked(cut)
        BY <1>1, <2>2, <2>6 DEF Track!Tracked
      <3>3. Ends(i, cut)
        BY <2>6, <2>7, <3>1, <3>2 DEF Ends, f, p, s
      <3>4. Flags(i, cut)
        BY <2>6, <3>2 DEF Flags, im
      <3>5. Track!UntrackImagePages(cut) = Track!PageNumber(f) + 1 .. Track!PageNumber(im.hi - 1)
        BY <2>3, <2>6, <3>1, <3>2 DEF Track!UntrackImagePages, Track!PagesOf
      <3>6. Track!UntrackImagePages(cut) = Track!UntrackImagePages(im) \ pages
        BY <1>1, <2>2, <2>4, <2>5, <3>5
      <3>7. Track!Dirty(cut) = Track!Dirty(im)
        BY <2>6 DEF Track!Dirty
      <3> QED
        BY <2>6, <2>9, <3>1, <3>3, <3>4, <3>6, <3>7 DEF Settled, new, pages, im
    <2> QED
      BY <2>10, <2>11
  <1> QED
    BY <1>2, <1>3

LEMMA TailSettled ==
    ASSUME Track!ImageTrackingAssumption, NEW i \in Images, image[i] \in Track!ImageState,
           image[i].registered, Ends(i, image[i]), Flags(i, image[i]),
           Track!PageStart(Past[i]) < Past[i], First[i] < Track!PageStart(Past[i])
    PROVE  Settled(i, image[i], Track!UntrackImageTail(i), Track!UntrackImageTailPages(i))
  <1> DEFINE im == image[i]
             f == First[i]
             p == Past[i]
             s == Track!PageStart(p)
             cut == [im EXCEPT !.hi = s]
             pages == Track!UntrackImageTailPages(i)
             new == Track!UntrackImageTail(i)
  <1>1. /\ f \in Nat /\ p \in Nat /\ f > 0 /\ f < p /\ s \in Nat /\ s < p /\ f < s
        /\ Track!PageNumber(p) \in Nat /\ p - 1 \in Nat /\ s - 1 \in Nat
    BY ImageFacts, PageOfByte
  <1>2. CASE ~Track!TailTracked(i)
    BY <1>2 DEF Track!UntrackImageTail, Track!UntrackImageTailPages, Settled
  <1>3. CASE Track!TailTracked(i)
    <2>1. Track!Tracked(im) /\ im.hi >= p
      BY <1>3 DEF Track!TailTracked
    <2>2. /\ im.lo \in Nat /\ im.hi \in Nat /\ im.lo < im.hi /\ im.hi = p
          /\ Track!PageNumber(im.lo) \in Nat
      BY <2>1, <1>1, EndPages
    <2>3. Track!PageNumber(s) = Track!PageNumber(p) /\ Track!PageNumber(s - 1) = Track!PageNumber(p) - 1
      BY <1>1, PageEnds
    <2>4. Track!PageNumber(p - 1) = Track!PageNumber(p)
      <3>1. s <= p - 1 /\ p - 1 <= p
        BY <1>1
      <3>2. Track!PageNumber(s) <= Track!PageNumber(p - 1) /\ Track!PageNumber(p - 1) <= Track!PageNumber(p)
        BY <3>1, <1>1, PageOrder
      <3>3. Track!PageNumber(p - 1) \in Nat
        BY <1>1, PageOfByte
      <3> QED
        BY <3>2, <3>3, <2>3, <1>1
    <2>5. Track!UntrackImagePages(im) = Track!PageNumber(im.lo) .. Track!PageNumber(p)
      BY <2>1, <2>2, <2>4 DEF Track!UntrackImagePages, Track!PagesOf
    <2>6. pages = Track!PageNumber(p) .. Track!PageNumber(p)
      BY <1>1, <1>3, <2>3, <2>4 DEF Track!UntrackImageTailPages, Track!PagesOf
    <2>7. /\ cut \in Track!ImageState /\ cut.hi = s /\ cut.lo = im.lo
          /\ cut.registered = im.registered /\ cut.cpu = im.cpu
          /\ cut.maybe = im.maybe /\ cut.hashed = im.hashed
      BY <1>1 DEF Track!ImageState
    <2>8. /\ im.lo = f \/ (im.lo = Track!NextPage(f) /\ Track!PageStart(f) < f)
          /\ im.lo <= s
      <3>1. im.lo = f \/ (im.lo = Track!NextPage(f) /\ Track!PageStart(f) < f)
        BY <2>1 DEF Ends
      <3>2. Track!NextPage(f) <= s
        <4>1. Track!PageNumber(f) < Track!PageNumber(p)
          BY <1>1, PageOrder
        <4>2. Track!PageNumber(f) < Track!PageNumber(s)
          BY <2>3, <4>1
        <4> QED
          BY <1>1, <4>2, PageOrder
      <3> QED
        BY <3>1, <3>2, <1>1
    <2>9. new = IF im.lo = s THEN Track!MarkAsMaybeDirty(cut) ELSE cut
      BY <1>3, <2>7 DEF Track!UntrackImageTail, Track!Emptied
    <2>10. im.lo = s => Track!Guarded(i) \subseteq Track!Edges(i)
      BY <1>1, <2>8, NothingGuarded
    <2>11. im.lo # s =>
               /\ Track!Tracked(cut) /\ Ends(i, cut)
               /\ Track!UntrackImagePages(cut) = Track!PageNumber(im.lo) .. Track!PageNumber(p) - 1
      <3>1. SUFFICES ASSUME im.lo # s
            PROVE /\ Track!Tracked(cut) /\ Ends(i, cut)
                  /\ Track!UntrackImagePages(cut) = Track!PageNumber(im.lo) .. Track!PageNumber(p) - 1
        OBVIOUS
      <3>2. im.lo < s
        BY <3>1, <1>1, <2>2, <2>8
      <3>3. Track!Tracked(cut)
        BY <1>1, <2>1, <2>7 DEF Track!Tracked
      <3>4. Ends(i, cut)
        BY <1>1, <2>7, <2>8, <3>2 DEF Ends
      <3>5. Track!UntrackImagePages(cut) = Track!PageNumber(im.lo) .. Track!PageNumber(p) - 1
        <4> HIDE DEF cut, s, im
        <4>1. Track!UntrackImagePages(cut) = Track!PagesOf(im.lo, s)
          BY <2>7, <3>3 DEF Track!UntrackImagePages
        <4> QED
          BY <4>1, <2>3, <3>2 DEF Track!PagesOf
      <3> QED
        BY <3>3, <3>4, <3>5
    <2> HIDE DEF im, cut, new, pages, f, p, s
    <2>12. pages \subseteq Track!UntrackImagePages(im)
      <3>1. Track!PageNumber(im.lo) <= Track!PageNumber(p)
        BY <1>1, <2>2, PageOrder
      <3> QED
        BY <3>1, <2>2, <2>5, <2>6, <1>1
    <2>13. CASE im.lo = s
      <3>1. cut.registered
        BY <2>7 DEF im
      <3>2. /\ new \in Track!ImageState /\ new.registered = cut.registered
            /\ Ends(i, new)
            /\ (Flags(i, new) \/ (cut.maybe /\ ~cut.hashed))
            /\ Track!UntrackImagePages(new) = {} /\ Track!Dirty(new)
            /\ new.maybe /\ ~cut.maybe => ~Track!Dirty(cut)
        BY <2>7, <2>9, <2>10, <2>13, <3>1, MaybeDirtyImage
      <3>3. ~(im.maybe /\ ~im.hashed)
        BY DEF Flags, im
      <3>4. Track!Dirty(cut) = Track!Dirty(im)
        BY <2>7 DEF Track!Dirty
      <3>5. Track!UntrackImagePages(im) \ pages = {}
        BY <2>3, <2>5, <2>6, <2>13
      <3> QED
        BY <2>7, <2>12, <3>2, <3>3, <3>4, <3>5 DEF Settled, new, pages, im
    <2>14. CASE im.lo # s
      <3>1. new = cut
        BY <2>9, <2>14
      <3>2. Flags(i, cut)
        BY <2>7, <2>11, <2>14 DEF Flags, im
      <3>3. Track!UntrackImagePages(cut) = Track!UntrackImagePages(im) \ pages
        BY <1>1, <2>2, <2>5, <2>6, <2>11, <2>14
      <3>4. Track!Dirty(cut) = Track!Dirty(im)
        BY <2>7 DEF Track!Dirty
      <3> QED
        BY <2>7, <2>11, <2>12, <2>14, <3>1, <3>2, <3>3, <3>4 DEF Settled, new, pages, im
    <2> QED
      BY <2>13, <2>14
  <1> QED
    BY <1>2, <1>3

\* The whole of InvalidateCpuAliases for an image.
LEMMA InvalidatedSettled ==
    ASSUME Track!ImageTrackingAssumption, NEW i \in Images, image[i] \in Track!ImageState,
           image[i].registered, Ends(i, image[i]), Flags(i, image[i]),
           NEW a \in Nat, NEW n \in 1 .. 2, Track!PagesOverlap(i, a, n)
    PROVE  Settled(i, image[i], Track!Invalidated(i, a, n), Track!InvalidatedPages(i, a, n))
  <1>1. CASE Track!Overlaps(i, a, n)
    <2> DEFINE mid == [image[i] EXCEPT !.cpu = TRUE, !.maybe = FALSE, !.hashed = FALSE]
               new == Track!UntrackImage(mid)
    <2>1. /\ mid \in Track!ImageState /\ mid.registered = image[i].registered
          /\ mid.cpu = TRUE /\ mid.maybe = FALSE
      BY DEF Track!ImageState
    <2> HIDE DEF mid
    <2>2. /\ new \in Track!ImageState /\ new.registered = image[i].registered
          /\ new.cpu = TRUE /\ new.maybe = FALSE
          /\ ~Track!Tracked(new) /\ Track!UntrackImagePages(new) = {}
      BY <2>1, NotWatched
    <2>3. Track!Invalidated(i, a, n) = new /\ Track!InvalidatedPages(i, a, n) = Track!UntrackImagePages(image[i])
      BY <1>1 DEF Track!Invalidated, Track!InvalidatedPages, mid
    <2> HIDE DEF new
    <2>4. Ends(i, new) /\ Flags(i, new) /\ Track!Dirty(new)
      BY <2>2 DEF Ends, Flags, Track!Dirty
    <2> QED
      BY <2>2, <2>3, <2>4 DEF Settled
  <1>2. CASE ~Track!Overlaps(i, a, n) /\ Track!HeadCase(i, a, n)
    BY <1>2, StoreBeside, HeadSettled DEF Track!Invalidated, Track!InvalidatedPages
  <1>3. CASE ~Track!Overlaps(i, a, n) /\ ~Track!HeadCase(i, a, n) /\ Track!TailCase(i, a)
    BY <1>3, StoreBeside, TailSettled DEF Track!Invalidated, Track!InvalidatedPages
  <1>4. CASE ~Track!Overlaps(i, a, n) /\ ~Track!HeadCase(i, a, n) /\ ~Track!TailCase(i, a)
    <2> DEFINE new == Track!MarkAsMaybeDirty(image[i])
    <2>1. Track!Guarded(i) \subseteq Track!Edges(i)
      BY <1>4, StoreBeside
    <2>2. /\ new \in Track!ImageState /\ new.registered = image[i].registered
          /\ Ends(i, new)
          /\ (Flags(i, new) \/ (image[i].maybe /\ ~image[i].hashed))
          /\ Track!UntrackImagePages(new) = {} /\ Track!Dirty(new)
          /\ new.maybe /\ ~image[i].maybe => ~Track!Dirty(image[i])
      BY <2>1, MaybeDirtyImage
    <2>3. Track!Invalidated(i, a, n) = new /\ Track!InvalidatedPages(i, a, n) = Track!UntrackImagePages(image[i])
      BY <1>4 DEF Track!Invalidated, Track!InvalidatedPages
    <2> HIDE DEF new
    <2>4. Flags(i, new)
      BY <2>2 DEF Flags
    <2> QED
      BY <2>2, <2>3, <2>4 DEF Settled
  <1> QED
    BY <1>1, <1>2, <1>3, <1>4

Watchers(p) == {i \in Images : p \in Track!UntrackImagePages(image[i])}
Buffered(p) == IF p \in clean THEN 1 ELSE 0

\* Every page is watched by the images whose range lies on it and, clean, by the
\* buffer cache.
Counted == write_watchers = [p \in ImagePages |-> Cardinality(Watchers(p)) + Buffered(p)]

StoreState == [phase : {"idle", "try", "buffers", "images"},
               at : Track!Bytes \cup {0}, size : 1 .. 2]

ImageTypes ==
    /\ image \in [Images -> Track!ImageState]
    /\ clean \subseteq ImagePages
    /\ refreshing \in Images \cup {NoImage} /\ upload \in BOOLEAN
    /\ store \in [Storers -> StoreState]
    /\ stale \subseteq Images /\ unhashed \subseteq Images

\* An image that counts as clean has the last store to its guarded bytes, and the
\* hash of one that may be dirty tells of every store it lacks.
Current(i) ==
    /\ image[i].registered /\ ~Track!Dirty(image[i]) => i \notin stale
    /\ image[i].maybe /\ i \in stale => i \in unhashed

ImagesOK == \A i \in Images : Ends(i, image[i]) /\ Flags(i, image[i]) /\ Current(i)

\* The refresh in progress has watched the whole image, and what it uploads has
\* lost its other marks.
RefreshOK ==
    /\ refreshing # NoImage => /\ image[refreshing].registered
                               /\ image[refreshing].lo = First[refreshing]
                               /\ image[refreshing].hi = Past[refreshing]
    /\ upload => refreshing # NoImage /\ ~image[refreshing].maybe

ImageInv == ImageTypes /\ Counted /\ ImagesOK /\ RefreshOK

LEMMA ImageSets ==
    ASSUME NEW S
    PROVE  (Track!IsFiniteSet(S) <=> IsFiniteSet(S)) /\ Track!Cardinality(S) = Cardinality(S)
  <1>1. Track!IsFiniteSet(S) <=> IsFiniteSet(S)
    BY DEF Track!IsFiniteSet, IsFiniteSet
  <1>2. Track!Cardinality(S) = Cardinality(S)
    BY DEF Track!Cardinality, Cardinality
  <1> QED
    BY <1>1, <1>2

LEMMA WatchersFinite ==
    ASSUME Track!ImageTrackingAssumption, NEW p
    PROVE  /\ IsFiniteSet(Watchers(p)) /\ Cardinality(Watchers(p)) \in Nat
           /\ IsFiniteSet(Watchers(p)') /\ Cardinality(Watchers(p)') \in Nat
  <1>1. IsFiniteSet(Images)
    BY ImageSets DEF Track!ImageTrackingAssumption
  <1>2. Watchers(p) \subseteq Images /\ Watchers(p)' \subseteq Images
    BY DEF Watchers
  <1>3. IsFiniteSet(Watchers(p)) /\ IsFiniteSet(Watchers(p)')
    BY <1>1, <1>2, FS_Subset
  <1> QED
    BY <1>3, FS_CardinalityType

\* What a step that changes one image must count.
LEMMA OneImageWatched ==
    ASSUME Track!ImageTrackingAssumption, image \in [Images -> Track!ImageState], Counted,
           NEW i \in Images, NEW new, image' = [image EXCEPT ![i] = new], NEW pages,
           Track!Watch(pages), clean' = clean,
           Track!UntrackImagePages(new) = Track!UntrackImagePages(image[i]) \cup pages,
           Track!UntrackImagePages(image[i]) \cap pages = {}
    PROVE  Counted'
  <1>1. /\ image'[i] = new
        /\ \A j \in Images : j # i => image'[j] = image[j]
    OBVIOUS
  <1>2. ASSUME NEW p \in ImagePages
        PROVE  write_watchers[p] + (IF p \in pages THEN 1 ELSE 0) = Cardinality(Watchers(p)') + Buffered(p)'
    <2>1. write_watchers[p] = Cardinality(Watchers(p)) + Buffered(p)
      BY DEF Counted
    <2>2. Buffered(p)' = Buffered(p) /\ Buffered(p) \in Nat
      BY DEF Buffered
    <2>3. IsFiniteSet(Watchers(p)) /\ Cardinality(Watchers(p)) \in Nat
      BY WatchersFinite
    <2>4. CASE p \in pages
      <3>1. i \notin Watchers(p) /\ Watchers(p)' = Watchers(p) \cup {i}
        BY <1>1, <2>4 DEF Watchers
      <3>2. Cardinality(Watchers(p) \cup {i}) = Cardinality(Watchers(p)) + 1
        BY <2>3, <3>1, FS_AddElement
      <3> QED
        BY <2>1, <2>2, <2>3, <2>4, <3>1, <3>2
    <2>5. CASE p \notin pages
      <3>1. Watchers(p)' = Watchers(p)
        BY <1>1, <2>5 DEF Watchers
      <3> QED
        BY <2>1, <2>2, <2>3, <2>5, <3>1
    <2> QED
      BY <2>4, <2>5
  <1> QED
    BY <1>2 DEF Counted, Track!Watch

LEMMA OneImageUnwatched ==
    ASSUME Track!ImageTrackingAssumption, image \in [Images -> Track!ImageState], Counted,
           NEW i \in Images, NEW new, image' = [image EXCEPT ![i] = new], NEW pages,
           Track!Unwatch(pages), clean' = clean,
           Track!UntrackImagePages(new) = Track!UntrackImagePages(image[i]) \ pages,
           pages \subseteq Track!UntrackImagePages(image[i])
    PROVE  Counted'
  <1>1. /\ image'[i] = new
        /\ \A j \in Images : j # i => image'[j] = image[j]
    OBVIOUS
  <1>2. ASSUME NEW p \in ImagePages
        PROVE  write_watchers[p] - (IF p \in pages THEN 1 ELSE 0) = Cardinality(Watchers(p)') + Buffered(p)'
    <2>1. write_watchers[p] = Cardinality(Watchers(p)) + Buffered(p)
      BY DEF Counted
    <2>2. Buffered(p)' = Buffered(p) /\ Buffered(p) \in Nat
      BY DEF Buffered
    <2>3. IsFiniteSet(Watchers(p)) /\ Cardinality(Watchers(p)) \in Nat
      BY WatchersFinite
    <2>4. CASE p \in pages
      <3>1. i \in Watchers(p) /\ Watchers(p)' = Watchers(p) \ {i}
        BY <1>1, <2>4 DEF Watchers
      <3>2. Cardinality(Watchers(p) \ {i}) = Cardinality(Watchers(p)) - 1
        BY <2>3, <3>1, FS_RemoveElement
      <3> QED
        BY <2>1, <2>2, <2>3, <2>4, <3>1, <3>2
    <2>5. CASE p \notin pages
      <3>1. Watchers(p)' = Watchers(p)
        BY <1>1, <2>5 DEF Watchers
      <3> QED
        BY <2>1, <2>2, <2>3, <2>5, <3>1
    <2> QED
      BY <2>4, <2>5
  <1> QED
    BY <1>2 DEF Counted, Track!Unwatch

\* What a step that changes no range must count, where it changes the pages that
\* the buffer cache has clean copies of.
LEMMA RangesUnchanged ==
    ASSUME \A i \in Images : Track!UntrackImagePages(image'[i]) = Track!UntrackImagePages(image[i])
    PROVE  \A p : Watchers(p)' = Watchers(p)
  BY DEF Watchers

\* An image that counts as clean has a watch on every page with a guarded byte.
LEMMA GuardedWatched ==
    ASSUME Track!ImageTrackingAssumption, NEW i \in Images, NEW im \in Track!ImageState,
           Track!Tracked(im), Ends(i, im), NEW a \in Track!Guarded(i)
    PROVE  Track!PageNumber(a) \in Track!UntrackImagePages(im)
  <1> DEFINE f == First[i]
             p == Past[i]
  <1>1. f \in Nat /\ p \in Nat /\ f < p /\ p - 1 \in Nat
    BY ImageFacts
  <1>2. a \in Track!BytesOf(i)
    BY DEF Track!Guarded
  <1>3. a \in Nat /\ f <= a /\ a <= p - 1
    BY <1>1, <1>2 DEF Track!BytesOf
  <1>4. /\ im.lo \in Nat /\ im.hi \in Nat /\ im.lo < im.hi /\ im.hi - 1 \in Nat
        /\ Track!PageNumber(im.lo) \in Nat /\ Track!PageNumber(im.hi - 1) \in Nat
        /\ Track!PageNumber(im.lo) <= Track!PageNumber(im.hi - 1)
        /\ Track!PageNumber(f) \in Nat /\ Track!PageNumber(p - 1) \in Nat /\ Track!PageNumber(p) \in Nat
        /\ im.hi <= p /\ f <= im.lo
    BY EndPages
  <1>5. Track!UntrackImagePages(im) = Track!PageNumber(im.lo) .. Track!PageNumber(im.hi - 1)
    BY <1>4 DEF Track!UntrackImagePages, Track!PagesOf
  <1>6. \/ im.lo = f
        \/ Track!PageNumber(im.lo) = Track!PageNumber(f) + 1 /\ Track!PageStart(f) < f
    <2>1. im.lo = f \/ (im.lo = Track!NextPage(f) /\ Track!PageStart(f) < f)
      BY DEF Ends
    <2> QED
      BY <2>1, <1>1, PageEnds
  <1>7. \/ im.hi = p
        \/ /\ Track!PageNumber(im.hi - 1) = Track!PageNumber(p) - 1
           /\ Track!PageNumber(p - 1) = Track!PageNumber(p)
    BY EndPages
  <1>8. /\ Track!PageNumber(a) \in Nat
        /\ Track!PageNumber(f) <= Track!PageNumber(a) /\ Track!PageNumber(a) <= Track!PageNumber(p - 1)
        /\ Track!PageNumber(a) = Track!PageNumber(f) <=> Track!PageStart(a) = Track!PageStart(f)
        /\ Track!PageNumber(a) < Track!PageNumber(p) <=> Track!NextPage(a) <= p
    BY <1>1, <1>3, PageOrder, PageOfByte
  <1>9. CASE Track!PageNumber(f) = Track!PageNumber(p - 1)
    BY <1>4, <1>5, <1>6, <1>7, <1>8, <1>9
  <1>10. CASE Track!PageNumber(f) # Track!PageNumber(p - 1)
    <2>1. a \notin Track!Edges(i)
      BY <1>10 DEF Track!Guarded
    <2>2. ~(Track!PageStart(a) < f) /\ ~(p < Track!NextPage(a))
      BY <2>1, <1>2 DEF Track!Edges
    <2>3. Track!PageStart(a) \in Nat /\ Track!NextPage(a) \in Nat
      BY <1>3, PageOfByte
    <2>4. Track!PageNumber(a) < Track!PageNumber(p)
      BY <2>2, <2>3, <1>1, <1>8
    <2>5. Track!PageStart(f) < f => Track!PageNumber(a) # Track!PageNumber(f)
      BY <2>2, <1>8
    <2> QED
      BY <1>4, <1>5, <1>6, <1>7, <1>8, <2>4, <2>5
  <1> QED
    BY <1>9, <1>10

\* What a step that changes the image new of i must establish.
LEMMA OneImageOK ==
    ASSUME ImageTypes, ImagesOK, NEW i \in Images, NEW new \in Track!ImageState,
           image' = [image EXCEPT ![i] = new],
           Ends(i, new), Flags(i, new),
           new.registered /\ ~Track!Dirty(new) => i \notin stale',
           new.maybe /\ i \in stale' => i \in unhashed',
           \A j \in Images : j # i => /\ j \in stale' => j \in stale
                                      /\ j \in unhashed => j \in unhashed'
    PROVE  ImagesOK' /\ image' \in [Images -> Track!ImageState]
  <1>1. /\ image'[i] = new /\ image' \in [Images -> Track!ImageState]
        /\ \A j \in Images : j # i => image'[j] = image[j]
    BY DEF ImageTypes
  <1>2. ASSUME NEW j \in Images
        PROVE  (Ends(j, image[j]) /\ Flags(j, image[j]) /\ Current(j))'
    <2>1. CASE j = i
      BY <1>1, <2>1 DEF Current, Ends, Flags
    <2>2. CASE j # i
      <3>1. image'[j] = image[j] /\ Ends(j, image[j]) /\ Flags(j, image[j]) /\ Current(j)
        BY <1>1, <2>2 DEF ImagesOK
      <3>2. Ends(j, image[j])' /\ Flags(j, image[j])'
        BY <3>1 DEF Ends, Flags
      <3>3. Current(j)'
        BY <3>1, <2>2 DEF Current
      <3> QED
        BY <3>2, <3>3
    <2> QED
      BY <2>1, <2>2
  <1> QED
    BY <1>1, <1>2 DEF ImagesOK

LEMMA ImageTyped ==
    ASSUME ImageTypes, ImagesOK, NEW i \in Images
    PROVE  /\ image[i] \in Track!ImageState
           /\ image[i].registered \in BOOLEAN /\ image[i].cpu \in BOOLEAN
           /\ image[i].maybe \in BOOLEAN /\ image[i].hashed \in BOOLEAN
           /\ Ends(i, image[i]) /\ Flags(i, image[i]) /\ Current(i)
  BY DEF ImageTypes, ImagesOK, Track!ImageState

LEMMA AbsentFacts ==
    ASSUME NEW i \in Images
    PROVE  /\ Track!Absent \in Track!ImageState /\ ~Track!Tracked(Track!Absent)
           /\ Track!UntrackImagePages(Track!Absent) = {}
           /\ Ends(i, Track!Absent) /\ Flags(i, Track!Absent)
           /\ Track!Absent.registered = FALSE /\ Track!Absent.maybe = FALSE
  <1>1. /\ Track!Absent \in Track!ImageState /\ ~Track!Tracked(Track!Absent)
        /\ Track!Absent.registered = FALSE /\ Track!Absent.maybe = FALSE
    BY DEF Track!Absent, Track!ImageState, Track!Tracked
  <1> QED
    BY <1>1 DEF Track!UntrackImagePages, Ends, Flags

LEMMA RegisterImageKeeps ==
    ASSUME Track!ImageTrackingAssumption, ImageInv, NEW i \in Images, Track!RegisterImage(i)
    PROVE  ImageInv'
  <1> DEFINE new == [Track!Absent EXCEPT !.registered = TRUE, !.cpu = TRUE]
  <1>1. /\ refreshing = NoImage /\ ~image[i].registered
        /\ image' = [image EXCEPT ![i] = new] /\ stale' = stale \cup {i}
        /\ write_watchers' = write_watchers /\ clean' = clean
        /\ refreshing' = refreshing /\ upload' = upload /\ store' = store /\ unhashed' = unhashed
    BY DEF Track!RegisterImage, Track!MutexFree, Track!refreshVars
  <1>2. /\ new \in Track!ImageState /\ ~Track!Tracked(new) /\ new.registered /\ new.cpu /\ ~new.maybe
    BY DEF Track!Absent, Track!ImageState, Track!Tracked
  <1>3. Track!UntrackImagePages(new) = {} /\ Ends(i, new) /\ Flags(i, new) /\ Track!Dirty(new)
    BY <1>2 DEF Track!UntrackImagePages, Ends, Flags, Track!Dirty
  <1> HIDE DEF new
  <1>4. ImagesOK' /\ image' \in [Images -> Track!ImageState]
    BY <1>1, <1>2, <1>3, OneImageOK DEF ImageInv
  <1>5. Track!UntrackImagePages(image[i]) = {}
    BY <1>1, ImageTyped DEF ImageInv, Flags, Track!UntrackImagePages
  <1>6. Counted'
    <2>1. \A j \in Images : image'[j] = IF j = i THEN new ELSE image[j]
      BY <1>1 DEF ImageInv, ImageTypes
    <2>2. \A p : Watchers(p)' = Watchers(p)
      BY <2>1, <1>3, <1>5 DEF Watchers
    <2> QED
      BY <2>2, <1>1 DEF ImageInv, Counted, Buffered
  <1>7. ImageTypes'
    BY <1>1, <1>4 DEF ImageInv, ImageTypes
  <1>8. RefreshOK'
    BY <1>1 DEF ImageInv, RefreshOK
  <1> QED
    BY <1>4, <1>6, <1>7, <1>8 DEF ImageInv

LEMMA RefreshTrackKeeps ==
    ASSUME Track!ImageTrackingAssumption, ImageInv, NEW i \in Images, Track!RefreshTrack(i)
    PROVE  ImageInv'
  <1> DEFINE new == Track!TrackImage(i)
             pages == Track!TrackImagePages(i)
  <1>1. /\ refreshing = NoImage /\ image[i].registered
        /\ image' = [image EXCEPT ![i] = new] /\ stale' = stale
        /\ Track!Watch(pages) /\ clean' = clean
        /\ refreshing' = i /\ upload' = upload /\ store' = store /\ unhashed' = unhashed
    BY DEF Track!RefreshTrack, Track!MutexFree, Track!historyVars
  <1>2. ImageTypes /\ ImagesOK /\ Counted /\ RefreshOK
    BY DEF ImageInv
  <1>3. /\ image[i] \in Track!ImageState /\ Ends(i, image[i]) /\ Flags(i, image[i]) /\ Current(i)
    BY <1>2, ImageTyped
  <1>4. /\ new \in Track!ImageState /\ new.lo = First[i] /\ new.hi = Past[i]
        /\ new.registered = image[i].registered /\ new.cpu = image[i].cpu
        /\ new.maybe = image[i].maybe /\ new.hashed = image[i].hashed
        /\ Track!Tracked(new) /\ Ends(i, new)
        /\ Track!UntrackImagePages(new) = Track!UntrackImagePages(image[i]) \cup pages
        /\ Track!UntrackImagePages(image[i]) \cap pages = {}
    BY <1>3, TrackImagePages
  <1> HIDE DEF new, pages
  <1>5. Flags(i, new) /\ (Track!Dirty(new) <=> Track!Dirty(image[i]))
    BY <1>1, <1>3, <1>4 DEF Flags, Track!Dirty
  <1>6. ImagesOK' /\ image' \in [Images -> Track!ImageState]
    <2>1. new.registered /\ ~Track!Dirty(new) => i \notin stale'
      BY <1>1, <1>3, <1>4, <1>5 DEF Current
    <2>2. new.maybe /\ i \in stale' => i \in unhashed'
      BY <1>1, <1>3, <1>4 DEF Current
    <2> QED
      BY <1>1, <1>2, <1>4, <1>5, <2>1, <2>2, OneImageOK
  <1>7. Counted'
    <2>1. image \in [Images -> Track!ImageState]
      BY <1>2 DEF ImageTypes
    <2> QED
      BY <1>1, <1>2, <1>4, <2>1, OneImageWatched
  <1>8. ImageTypes'
    BY <1>1, <1>2, <1>6 DEF ImageTypes
  <1>9. RefreshOK'
    <2>1. image'[i] = new /\ i # NoImage /\ ~upload
      BY <1>1, <1>2 DEF ImageTypes, RefreshOK, Track!ImageTrackingAssumption
    <2> QED
      BY <1>1, <1>4, <2>1 DEF RefreshOK
  <1> QED
    BY <1>6, <1>7, <1>8, <1>9 DEF ImageInv

LEMMA RefreshDecideKeeps ==
    ASSUME Track!ImageTrackingAssumption, ImageInv, Track!RefreshDecide
    PROVE  ImageInv'
  <1> DEFINE i == refreshing
             im == image[i]
             cpu == im.cpu \/ (im.maybe /\ i \in unhashed)
             new == [im EXCEPT !.cpu = cpu, !.maybe = FALSE, !.hashed = FALSE]
  <1>1. ImageTypes /\ ImagesOK /\ Counted /\ RefreshOK
    BY DEF ImageInv
  <1>2. i \in Images /\ i # NoImage
    BY <1>1 DEF Track!RefreshDecide, Track!MutexFree, ImageTypes
  <1>3. /\ im \in Track!ImageState /\ Ends(i, im) /\ Flags(i, im) /\ Current(i)
        /\ im.registered /\ im.lo = First[i] /\ im.hi = Past[i]
    BY <1>1, <1>2, ImageTyped DEF RefreshOK
  <1>4. image' = [image EXCEPT ![i] = new]
    <2>1. image' = [image EXCEPT ![i].cpu = cpu, ![i].maybe = FALSE, ![i].hashed = FALSE]
      BY DEF Track!RefreshDecide, Track!HashChanged
    <2>2. image \in [Images -> Track!ImageState]
      BY <1>1 DEF ImageTypes
    <2> QED
      BY <1>2, <2>1, <2>2 DEF Track!ImageState
  <1>5. /\ ~upload /\ upload' = cpu /\ refreshing' = (IF cpu THEN i ELSE NoImage)
        /\ unhashed' = unhashed \ {i}
        /\ write_watchers' = write_watchers /\ clean' = clean /\ store' = store /\ stale' = stale
    BY DEF Track!RefreshDecide, Track!HashChanged
  <1>6. /\ new \in Track!ImageState /\ new.registered /\ new.lo = First[i] /\ new.hi = Past[i]
        /\ new.cpu = cpu /\ ~new.maybe
    <2>1. cpu \in BOOLEAN
      BY <1>3 DEF Track!ImageState
    <2> HIDE DEF cpu
    <2> QED
      BY <1>3, <2>1 DEF Track!ImageState
  <1> HIDE DEF new
  <1>7. Track!Tracked(new)
    BY <1>2, <1>6, ImageFacts DEF Track!Tracked
  <1>8. Ends(i, new)
    BY <1>2, <1>6, ImageFacts DEF Ends
  <1>9. Flags(i, new)
    BY <1>6, <1>7 DEF Flags
  <1>10. Track!Tracked(im) /\ Track!UntrackImagePages(new) = Track!UntrackImagePages(im)
    <2>1. Track!Tracked(im)
      BY <1>2, <1>3, ImageFacts DEF Track!Tracked
    <2> QED
      BY <2>1, <1>3, <1>6, <1>7 DEF Track!UntrackImagePages
  <1>11. ImagesOK' /\ image' \in [Images -> Track!ImageState]
    <2>1. ~Track!Dirty(new) => i \notin stale
      <3>1. SUFFICES ASSUME ~Track!Dirty(new) PROVE i \notin stale
        OBVIOUS
      <3>2. ~im.cpu /\ ~(im.maybe /\ i \in unhashed)
        BY <3>1, <1>6 DEF Track!Dirty
      <3>3. CASE im.maybe
        BY <3>2, <3>3, <1>3 DEF Current
      <3>4. CASE ~im.maybe
        BY <3>2, <3>4, <1>3 DEF Current, Track!Dirty
      <3> QED
        BY <3>3, <3>4
    <2>2. \A j \in Images : j # i => (j \in stale' => j \in stale) /\ (j \in unhashed => j \in unhashed')
      BY <1>5
    <2> HIDE DEF i
    <2> QED
      BY <1>1, <1>2, <1>4, <1>5, <1>6, <1>8, <1>9, <2>1, <2>2, OneImageOK
  <1>12. Counted'
    <2>1. \A j \in Images : image'[j] = IF j = i THEN new ELSE image[j]
      BY <1>1, <1>2, <1>4 DEF ImageTypes
    <2>2. \A p : Watchers(p)' = Watchers(p)
      BY <2>1, <1>10 DEF Watchers
    <2> QED
      BY <2>2, <1>1, <1>5 DEF Counted, Buffered
  <1>13. ImageTypes'
    <2>1. cpu \in BOOLEAN
      BY <1>3 DEF Track!ImageState
    <2> QED
      BY <1>1, <1>2, <1>5, <1>11, <2>1 DEF ImageTypes
  <1>14. RefreshOK'
    <2>1. image'[i] = new
      BY <1>1, <1>2, <1>4 DEF ImageTypes
    <2> QED
      BY <1>2, <1>5, <1>6, <2>1 DEF RefreshOK
  <1> QED
    BY <1>11, <1>12, <1>13, <1>14 DEF ImageInv

LEMMA UploadImageKeeps ==
    ASSUME Track!ImageTrackingAssumption, ImageInv, Track!UploadImage
    PROVE  ImageInv'
  <1> DEFINE i == refreshing
             im == image[i]
             new == [im EXCEPT !.cpu = FALSE]
  <1>1. ImageTypes /\ ImagesOK /\ Counted /\ RefreshOK
    BY DEF ImageInv
  <1>2. i \in Images /\ i # NoImage
    BY <1>1 DEF Track!UploadImage, ImageTypes, RefreshOK
  <1>3. /\ im \in Track!ImageState /\ Ends(i, im) /\ Flags(i, im) /\ Current(i)
        /\ im.registered /\ im.lo = First[i] /\ im.hi = Past[i] /\ ~im.maybe
    BY <1>1, <1>2, ImageTyped DEF RefreshOK, Track!UploadImage
  <1>4. image' = [image EXCEPT ![i] = new]
    BY DEF Track!UploadImage
  <1>5. /\ upload' = FALSE /\ refreshing' = NoImage /\ stale' = stale \ {i}
        /\ write_watchers' = write_watchers /\ clean' = clean /\ store' = store /\ unhashed' = unhashed
    BY DEF Track!UploadImage
  <1>6. /\ new \in Track!ImageState /\ new.registered /\ new.lo = im.lo /\ new.hi = im.hi
        /\ ~new.maybe
    BY <1>3 DEF Track!ImageState
  <1> HIDE DEF new
  <1>7. Track!Tracked(im) /\ Track!Tracked(new)
    BY <1>2, <1>3, <1>6, ImageFacts DEF Track!Tracked
  <1>8. Ends(i, new) /\ Flags(i, new)
    BY <1>2, <1>3, <1>6, <1>7 DEF Ends, Flags
  <1>9. Track!UntrackImagePages(new) = Track!UntrackImagePages(im)
    BY <1>6, <1>7 DEF Track!UntrackImagePages
  <1>10. ImagesOK' /\ image' \in [Images -> Track!ImageState]
    <2>1. i \notin stale' /\ \A j \in Images : j # i => (j \in stale' => j \in stale) /\ (j \in unhashed => j \in unhashed')
      BY <1>5
    <2> HIDE DEF i
    <2> QED
      BY <1>1, <1>2, <1>4, <1>6, <1>8, <2>1, OneImageOK
  <1>11. Counted'
    <2>1. \A j \in Images : image'[j] = IF j = i THEN new ELSE image[j]
      BY <1>1, <1>2, <1>4 DEF ImageTypes
    <2>2. \A p : Watchers(p)' = Watchers(p)
      BY <2>1, <1>9 DEF Watchers
    <2> QED
      BY <2>2, <1>1, <1>5 DEF Counted, Buffered
  <1>12. ImageTypes'
    BY <1>1, <1>5, <1>10 DEF ImageTypes
  <1>13. RefreshOK'
    BY <1>5 DEF RefreshOK
  <1> QED
    BY <1>10, <1>11, <1>12, <1>13 DEF ImageInv

LEMMA MarkGpuWrittenKeeps ==
    ASSUME Track!ImageTrackingAssumption, ImageInv, NEW i \in Images, Track!MarkGpuWritten(i)
    PROVE  ImageInv'
  <1> DEFINE mid == Track!TrackImage(i)
             new == [mid EXCEPT !.cpu = FALSE, !.maybe = FALSE, !.hashed = FALSE]
             pages == Track!TrackImagePages(i)
  <1>1. /\ refreshing = NoImage /\ image[i].registered
        /\ image' = [image EXCEPT ![i] = new] /\ stale' = stale \ {i}
        /\ Track!Watch(pages) /\ clean' = clean /\ unhashed' = unhashed \ {i}
        /\ refreshing' = refreshing /\ upload' = upload /\ store' = store
    BY DEF Track!MarkGpuWritten, Track!MutexFree, Track!refreshVars
  <1>2. ImageTypes /\ ImagesOK /\ Counted /\ RefreshOK
    BY DEF ImageInv
  <1>3. /\ image[i] \in Track!ImageState /\ Ends(i, image[i])
    BY <1>2, ImageTyped
  <1>4. /\ mid \in Track!ImageState /\ mid.registered = image[i].registered
        /\ Track!Tracked(mid) /\ Ends(i, mid)
        /\ Track!UntrackImagePages(mid) = Track!UntrackImagePages(image[i]) \cup pages
        /\ Track!UntrackImagePages(image[i]) \cap pages = {}
    BY <1>3, TrackImagePages
  <1> HIDE DEF mid, pages
  <1>5. /\ new \in Track!ImageState /\ new.registered = mid.registered /\ ~new.maybe
        /\ new.lo = mid.lo /\ new.hi = mid.hi
    BY <1>4 DEF Track!ImageState
  <1> HIDE DEF new
  <1>6. /\ Track!Tracked(new) /\ Ends(i, new)
        /\ Track!UntrackImagePages(new) = Track!UntrackImagePages(mid)
    BY <1>4, <1>5 DEF Track!Tracked, Ends, Track!UntrackImagePages
  <1>7. Flags(i, new)
    BY <1>1, <1>4, <1>5, <1>6 DEF Flags
  <1>8. ImagesOK' /\ image' \in [Images -> Track!ImageState]
    <2>1. i \notin stale' /\ \A j \in Images : j # i => (j \in stale' => j \in stale) /\ (j \in unhashed => j \in unhashed')
      BY <1>1
    <2> QED
      BY <1>1, <1>2, <1>5, <1>6, <1>7, <2>1, OneImageOK
  <1>9. Counted'
    <2>1. image \in [Images -> Track!ImageState]
      BY <1>2 DEF ImageTypes
    <2> QED
      BY <1>1, <1>2, <1>4, <1>6, <2>1, OneImageWatched
  <1>10. ImageTypes'
    BY <1>1, <1>2, <1>8 DEF ImageTypes
  <1>11. RefreshOK'
    BY <1>1, <1>2 DEF RefreshOK
  <1> QED
    BY <1>8, <1>9, <1>10, <1>11 DEF ImageInv

LEMMA UnregisterImageKeeps ==
    ASSUME Track!ImageTrackingAssumption, ImageInv, NEW i \in Images, Track!UnregisterImage(i)
    PROVE  ImageInv'
  <1> DEFINE pages == Track!UntrackImagePages(image[i])
  <1>1. /\ refreshing = NoImage
        /\ image' = [image EXCEPT ![i] = Track!Absent] /\ stale' = stale \ {i}
        /\ Track!Unwatch(pages) /\ clean' = clean /\ unhashed' = unhashed \ {i}
        /\ refreshing' = refreshing /\ upload' = upload /\ store' = store
    BY DEF Track!UnregisterImage, Track!MutexFree, Track!refreshVars
  <1>2. ImageTypes /\ ImagesOK /\ Counted /\ RefreshOK
    BY DEF ImageInv
  <1>3. /\ Track!Absent \in Track!ImageState
        /\ Track!UntrackImagePages(Track!Absent) = {}
        /\ Ends(i, Track!Absent) /\ Flags(i, Track!Absent)
        /\ ~Track!Absent.registered /\ ~Track!Absent.maybe
    BY AbsentFacts
  <1>4. ImagesOK' /\ image' \in [Images -> Track!ImageState]
    <2>1. \A j \in Images : j # i => (j \in stale' => j \in stale) /\ (j \in unhashed => j \in unhashed')
      BY <1>1
    <2> QED
      BY <1>1, <1>2, <1>3, <2>1, OneImageOK
  <1>5. Counted'
    <2>1. image \in [Images -> Track!ImageState]
      BY <1>2 DEF ImageTypes
    <2>2. Track!UntrackImagePages(Track!Absent) = Track!UntrackImagePages(image[i]) \ pages
      BY <1>3
    <2>3. pages \subseteq Track!UntrackImagePages(image[i])
      OBVIOUS
    <2> QED
      BY <1>1, <1>2, <2>1, <2>2, <2>3, OneImageUnwatched
  <1>6. ImageTypes'
    BY <1>1, <1>2, <1>4 DEF ImageTypes
  <1>7. RefreshOK'
    BY <1>1, <1>2 DEF RefreshOK
  <1> QED
    BY <1>4, <1>5, <1>6, <1>7 DEF ImageInv

\* The images stay what they are.
LEMMA SameImages ==
    ASSUME ImageInv, image' = image, refreshing' = refreshing, upload' = upload,
           stale' = stale, unhashed' = unhashed
    PROVE  ImagesOK' /\ RefreshOK' /\ \A p : Watchers(p)' = Watchers(p)
  <1>1. ImagesOK'
    BY DEF ImageInv, ImagesOK, Ends, Flags, Current
  <1>2. RefreshOK'
    BY DEF ImageInv, RefreshOK
  <1>3. \A p : Watchers(p)' = Watchers(p)
    BY DEF Watchers
  <1> QED
    BY <1>1, <1>2, <1>3

LEMMA CleanBufferPageKeeps ==
    ASSUME Track!ImageTrackingAssumption, ImageInv, NEW q \in ImagePages, Track!CleanBufferPage(q)
    PROVE  ImageInv'
  <1>1. /\ q \notin clean /\ clean' = clean \cup {q} /\ Track!Watch({q})
        /\ image' = image /\ refreshing' = refreshing /\ upload' = upload /\ store' = store
        /\ stale' = stale /\ unhashed' = unhashed
    BY DEF Track!CleanBufferPage, Track!refreshVars, Track!historyVars
  <1>2. ImagesOK' /\ RefreshOK' /\ \A p : Watchers(p)' = Watchers(p)
    BY <1>1, SameImages
  <1>3. Counted'
    <2>1. ASSUME NEW p \in ImagePages
          PROVE  write_watchers[p] + (IF p \in {q} THEN 1 ELSE 0) = Cardinality(Watchers(p)') + Buffered(p)'
      <3>1. write_watchers[p] = Cardinality(Watchers(p)) + Buffered(p)
        BY DEF ImageInv, Counted
      <3>2. Cardinality(Watchers(p)) \in Nat
        BY WatchersFinite
      <3>3. Buffered(p) \in Nat /\ Buffered(p)' = Buffered(p) + (IF p \in {q} THEN 1 ELSE 0)
        BY <1>1 DEF Buffered
      <3> QED
        BY <3>1, <3>2, <3>3, <1>2
    <2> QED
      BY <1>1, <2>1 DEF Counted, Track!Watch
  <1>4. ImageTypes'
    BY <1>1 DEF ImageInv, ImageTypes
  <1> QED
    BY <1>2, <1>3, <1>4 DEF ImageInv

LEMMA StoreTyped ==
    ASSUME Track!ImageTrackingAssumption, ImageTypes, NEW t \in Storers
    PROVE  /\ store[t] \in StoreState /\ store[t].at \in Track!Bytes \cup {0}
           /\ store[t].at \in Nat /\ store[t].size \in 1 .. 2
  <1>1. store[t] \in StoreState
    BY DEF ImageTypes
  <1>2. store[t].at \in Track!Bytes \cup {0} /\ store[t].size \in 1 .. 2
    BY <1>1 DEF StoreState
  <1> QED
    BY <1>1, <1>2, ByteFacts

LEMMA BeginStoreKeeps ==
    ASSUME Track!ImageTrackingAssumption, ImageInv, NEW t \in Storers,
           NEW a \in Track!Bytes, NEW n \in 1 .. 2, Track!BeginStore(t, a, n)
    PROVE  ImageInv'
  <1>1. /\ store' = [store EXCEPT ![t] = [phase |-> "try", at |-> a, size |-> n]]
        /\ image' = image /\ refreshing' = refreshing /\ upload' = upload /\ clean' = clean
        /\ stale' = stale /\ unhashed' = unhashed /\ write_watchers' = write_watchers
    BY DEF Track!BeginStore, Track!refreshVars, Track!historyVars
  <1>2. ImagesOK' /\ RefreshOK' /\ \A p : Watchers(p)' = Watchers(p)
    BY <1>1, SameImages
  <1>3. Counted'
    BY <1>1, <1>2 DEF ImageInv, Counted, Buffered
  <1>4. store' \in [Storers -> StoreState]
    <2>1. [phase |-> "try", at |-> a, size |-> n] \in StoreState
      BY DEF StoreState
    <2> QED
      BY <1>1, <2>1 DEF ImageInv, ImageTypes
  <1>5. ImageTypes'
    BY <1>1, <1>4 DEF ImageInv, ImageTypes
  <1> QED
    BY <1>2, <1>3, <1>5 DEF ImageInv

LEMMA GoToTyped ==
    ASSUME ImageTypes, NEW t \in Storers, NEW phase \in {"idle", "try", "buffers", "images"},
           Track!GoTo(t, phase)
    PROVE  store' \in [Storers -> StoreState]
  <1>1. store \in [Storers -> StoreState] /\ store' = [store EXCEPT ![t].phase = phase]
    BY DEF ImageTypes, Track!GoTo
  <1>2. store[t] \in StoreState
    BY <1>1
  <1>3. [store[t] EXCEPT !.phase = phase] \in StoreState
    BY <1>2 DEF StoreState
  <1> QED
    BY <1>1, <1>3

LEMMA FaultKeeps ==
    ASSUME Track!ImageTrackingAssumption, ImageInv, NEW t \in Storers, Track!Fault(t)
    PROVE  ImageInv'
  <1>1. /\ Track!GoTo(t, "buffers")
        /\ image' = image /\ refreshing' = refreshing /\ upload' = upload /\ clean' = clean
        /\ stale' = stale /\ unhashed' = unhashed /\ write_watchers' = write_watchers
    BY DEF Track!Fault, Track!refreshVars, Track!historyVars
  <1>2. ImagesOK' /\ RefreshOK' /\ \A p : Watchers(p)' = Watchers(p)
    BY <1>1, SameImages
  <1>3. Counted'
    BY <1>1, <1>2 DEF ImageInv, Counted, Buffered
  <1>4. ImageTypes'
    <2>1. store' \in [Storers -> StoreState]
      BY <1>1, GoToTyped DEF ImageInv
    <2> QED
      BY <1>1, <2>1 DEF ImageInv, ImageTypes
  <1> QED
    BY <1>2, <1>3, <1>4 DEF ImageInv

LEMMA InvalidateBuffersKeeps ==
    ASSUME Track!ImageTrackingAssumption, ImageInv, NEW t \in Storers, Track!InvalidateBuffers(t)
    PROVE  ImageInv'
  <1> DEFINE pages == clean \cap Track!PagesOf(store[t].at, store[t].at + store[t].size)
  <1>1. /\ Track!GoTo(t, "images") /\ clean' = clean \ pages /\ Track!Unwatch(pages)
        /\ image' = image /\ refreshing' = refreshing /\ upload' = upload
        /\ stale' = stale /\ unhashed' = unhashed
    BY DEF Track!InvalidateBuffers, Track!refreshVars, Track!historyVars
  <1>2. ImagesOK' /\ RefreshOK' /\ \A p : Watchers(p)' = Watchers(p)
    BY <1>1, SameImages
  <1>3. Counted'
    <2>1. ASSUME NEW p \in ImagePages
          PROVE  write_watchers[p] - (IF p \in pages THEN 1 ELSE 0) = Cardinality(Watchers(p)') + Buffered(p)'
      <3>1. write_watchers[p] = Cardinality(Watchers(p)) + Buffered(p)
        BY DEF ImageInv, Counted
      <3>2. Cardinality(Watchers(p)) \in Nat
        BY WatchersFinite
      <3>3. Buffered(p)' \in Nat /\ Buffered(p) = Buffered(p)' + (IF p \in pages THEN 1 ELSE 0)
        BY <1>1 DEF Buffered
      <3> QED
        BY <3>1, <3>2, <3>3, <1>2
    <2> QED
      BY <1>1, <2>1 DEF Counted, Track!Unwatch
  <1>4. ImageTypes'
    <2>1. store' \in [Storers -> StoreState]
      BY <1>1, GoToTyped DEF ImageInv
    <2> QED
      BY <1>1, <2>1 DEF ImageInv, ImageTypes
  <1> QED
    BY <1>2, <1>3, <1>4 DEF ImageInv

LEMMA StoreKeeps ==
    ASSUME Track!ImageTrackingAssumption, ImageInv, NEW t \in Storers, Track!Store(t)
    PROVE  ImageInv'
  <1> DEFINE at == store[t].at
  <1>1. /\ write_watchers[Track!PageNumber(at)] = 0
        /\ stale' = stale \cup {i \in Images : image[i].registered /\ at \in Track!Guarded(i)}
        /\ unhashed' = unhashed \cup {i \in Images : image[i].maybe /\ at \in Track!Edges(i)}
        /\ store' = [store EXCEPT ![t] = Track!NoAccess]
        /\ image' = image /\ write_watchers' = write_watchers /\ clean' = clean
        /\ refreshing' = refreshing /\ upload' = upload
    BY DEF Track!Store, Track!refreshVars
  <1>2. ImageTypes /\ ImagesOK /\ Counted /\ RefreshOK
    BY DEF ImageInv
  <1>3. ASSUME NEW i \in Images, image[i].registered, at \in Track!Guarded(i)
        PROVE  Track!Dirty(image[i])
    <2>1. SUFFICES ASSUME ~Track!Dirty(image[i]) PROVE FALSE
      OBVIOUS
    <2>2. image[i] \in Track!ImageState /\ Ends(i, image[i]) /\ Track!Tracked(image[i])
      BY <1>2, <1>3, <2>1, ImageTyped DEF Flags
    <2>3. Track!PageNumber(at) \in Track!UntrackImagePages(image[i])
      BY <1>3, <2>2, GuardedWatched
    <2>4. at \in Track!BytesOf(i)
      BY <1>3 DEF Track!Guarded
    <2>5. at \in Track!Bytes
      BY <2>4, ImageFacts
    <2>6. Track!PageNumber(at) \in ImagePages
      BY <2>5, ByteFacts
    <2> DEFINE p == Track!PageNumber(at)
    <2>7. i \in Watchers(p)
      BY <2>3 DEF Watchers
    <2>8. Cardinality(Watchers(p)) + Buffered(p) = 0
      BY <1>1, <1>2, <2>6 DEF Counted
    <2> HIDE DEF p, at
    <2>9. IsFiniteSet(Watchers(p)) /\ Cardinality(Watchers(p)) \in Nat
      BY WatchersFinite
    <2>10. Cardinality(Watchers(p)) = 0
      BY <2>8, <2>9 DEF Buffered
    <2>11. Watchers(p) = {}
      BY <2>9, <2>10, FS_EmptySet
    <2> QED
      BY <2>7, <2>11
  <1>4. ImagesOK'
    <2>1. ASSUME NEW i \in Images
          PROVE  (Ends(i, image[i]) /\ Flags(i, image[i]) /\ Current(i))'
      <3>1. Ends(i, image[i]) /\ Flags(i, image[i]) /\ Current(i)
        BY <1>2 DEF ImagesOK
      <3>2. Ends(i, image[i])' /\ Flags(i, image[i])'
        BY <1>1, <3>1 DEF Ends, Flags
      <3>3. image'[i].registered /\ ~Track!Dirty(image'[i]) => i \notin stale'
        BY <1>1, <1>3, <3>1 DEF Current
      <3>4. ASSUME image[i].maybe, i \in stale' PROVE i \in unhashed'
        <4>1. CASE i \in stale
          BY <1>1, <3>1, <3>4, <4>1 DEF Current
        <4>2. CASE i \notin stale
          <5>1. at \in Track!Guarded(i)
            BY <1>1, <3>4, <4>2
          <5>2. at \in Track!Edges(i)
            BY <3>1, <3>4, <5>1 DEF Flags
          <5> QED
            BY <1>1, <3>4, <5>2
        <4> QED
          BY <4>1, <4>2
      <3>5. Current(i)'
        BY <1>1, <3>3, <3>4 DEF Current
      <3> QED
        BY <3>2, <3>5
    <2> QED
      BY <2>1 DEF ImagesOK
  <1>5. Counted'
    <2>1. \A p : Watchers(p)' = Watchers(p)
      BY <1>1 DEF Watchers
    <2> QED
      BY <1>1, <1>2, <2>1 DEF Counted, Buffered
  <1>6. store' \in [Storers -> StoreState]
    <2>1. Track!NoAccess \in StoreState
      BY DEF Track!NoAccess, StoreState
    <2> QED
      BY <1>1, <1>2, <2>1 DEF ImageTypes
  <1>7. ImageTypes'
    BY <1>1, <1>2, <1>6 DEF ImageTypes
  <1>8. RefreshOK'
    BY <1>1, <1>2 DEF RefreshOK
  <1> QED
    BY <1>4, <1>5, <1>7, <1>8 DEF ImageInv

LEMMA InvalidateImagesKeeps ==
    ASSUME Track!ImageTrackingAssumption, ImageInv, NEW t \in Storers, Track!InvalidateImages(t)
    PROVE  ImageInv'
  <1> DEFINE a == store[t].at
             n == store[t].size
             hit == Track!FindImagesInRegion(a, n)
             given == [i \in Images |-> IF i \in hit THEN Track!InvalidatedPages(i, a, n) ELSE {}]
  <1>1. /\ refreshing = NoImage /\ Track!GoTo(t, "try")
        /\ image' = [i \in Images |-> IF i \in hit THEN Track!Invalidated(i, a, n) ELSE image[i]]
        /\ write_watchers' = [p \in ImagePages |-> write_watchers[p]
                - Track!Cardinality({i \in hit : p \in Track!InvalidatedPages(i, a, n)})]
        /\ unhashed' = {i \in unhashed : image'[i].maybe /\ (i \in hit => ~Track!TakesHash(image[i]))}
        /\ clean' = clean /\ refreshing' = refreshing /\ upload' = upload /\ stale' = stale
    BY DEF Track!InvalidateImages, Track!MutexFree, Track!refreshVars
  <1>2. ImageTypes /\ ImagesOK /\ Counted /\ RefreshOK
    BY DEF ImageInv
  <1>3. a \in Nat /\ n \in 1 .. 2
    BY <1>2, StoreTyped
  <1>4. hit \subseteq Images /\ \A i \in hit : image[i].registered /\ Track!PagesOverlap(i, a, n)
    BY DEF Track!FindImagesInRegion
  <1>5. ASSUME NEW i \in Images
        PROVE  Settled(i, image[i], image'[i], given[i])
    <2>1. image[i] \in Track!ImageState /\ Ends(i, image[i]) /\ Flags(i, image[i])
      BY <1>2, ImageTyped
    <2>2. CASE i \in hit
      <3>1. Settled(i, image[i], Track!Invalidated(i, a, n), Track!InvalidatedPages(i, a, n))
        BY <1>3, <1>4, <2>1, <2>2, InvalidatedSettled
      <3>2. image'[i] = Track!Invalidated(i, a, n) /\ given[i] = Track!InvalidatedPages(i, a, n)
        BY <1>1, <2>2
      <3> QED
        BY <3>1, <3>2
    <2>3. CASE i \notin hit
      <3>1. image'[i] = image[i] /\ given[i] = {}
        BY <1>1, <2>3
      <3> QED
        BY <2>1, <3>1 DEF Settled
    <2> QED
      BY <2>2, <2>3
  <1>6. ASSUME NEW i \in Images
        PROVE  i \in unhashed /\ image'[i].maybe /\ image[i].maybe => i \in unhashed'
    <2>1. image[i].maybe => ~Track!TakesHash(image[i])
      BY <1>2, ImageTyped DEF Flags, Track!TakesHash
    <2> QED
      BY <1>1, <2>1
  <1>7. \A p : \A i \in Images : p \in given[i] <=> i \in hit /\ p \in Track!InvalidatedPages(i, a, n)
    OBVIOUS
  <1>8. \A p : {i \in hit : p \in Track!InvalidatedPages(i, a, n)} = {i \in Images : p \in given[i]}
    BY <1>4, <1>7
  <1>9. image' \in [Images -> Track!ImageState]
    <2>1. \A i \in Images : image'[i] \in Track!ImageState
      BY <1>5 DEF Settled
    <2>2. image' = [i \in Images |-> image'[i]]
      BY <1>1
    <2> QED
      BY <2>1, <2>2
  <1> HIDE DEF given, hit
  <1>10. ImagesOK'
    <2>1. ASSUME NEW i \in Images
          PROVE  (Ends(i, image[i]) /\ Flags(i, image[i]) /\ Current(i))'
      <3>1. Settled(i, image[i], image'[i], given[i]) /\ Current(i)
        BY <1>2, <1>5 DEF ImagesOK
      <3>2. Ends(i, image[i])' /\ Flags(i, image[i])'
        <4>1. Ends(i, image'[i]) /\ Flags(i, image'[i])
          BY <3>1 DEF Settled
        <4> QED
          BY <4>1 DEF Ends, Flags
      <3>3. image'[i].registered /\ ~Track!Dirty(image'[i]) => i \notin stale
        BY <3>1 DEF Settled, Current
      <3>4. ASSUME image'[i].maybe, i \in stale PROVE i \in unhashed'
        <4>1. CASE i \in hit
          <5>1. image[i].registered
            BY <4>1, <1>4
          <5>2. image[i].maybe
            BY <3>1, <3>4, <5>1 DEF Settled, Current
          <5> QED
            BY <3>1, <3>4, <5>2, <1>6 DEF Current
        <4>2. CASE i \notin hit
          <5>1. image'[i] = image[i]
            BY <1>1, <4>2
          <5> QED
            BY <3>1, <3>4, <5>1, <1>6 DEF Current
        <4> QED
          BY <4>1, <4>2
      <3>5. Current(i)'
        BY <1>1, <3>3, <3>4 DEF Current
      <3> QED
        BY <3>2, <3>5
    <2> QED
      BY <2>1 DEF ImagesOK
  <1>11. Counted'
    <2>1. ASSUME NEW p \in ImagePages
          PROVE  write_watchers'[p] = Cardinality(Watchers(p)') + Buffered(p)'
      <3> DEFINE D == {i \in Images : p \in given[i]}
      <3>1. D \subseteq Watchers(p) /\ Watchers(p)' = Watchers(p) \ D
        BY <1>5 DEF Settled, Watchers
      <3>2. IsFiniteSet(Watchers(p)) /\ Cardinality(Watchers(p)) \in Nat /\ Cardinality(Watchers(p)') \in Nat
        BY WatchersFinite
      <3>3. write_watchers'[p] = write_watchers[p] - Cardinality(D)
        BY <1>1, <1>8, ImageSets
      <3>4. write_watchers[p] = Cardinality(Watchers(p)) + Buffered(p)
        BY <1>2 DEF Counted
      <3>5. Buffered(p)' = Buffered(p) /\ Buffered(p) \in Nat
        BY <1>1 DEF Buffered
      <3> HIDE DEF D
      <3>6. IsFiniteSet(D)
        BY <3>1, <3>2, FS_Subset
      <3>7. Watchers(p) \cap D = D
        BY <3>1
      <3>8. Cardinality(Watchers(p) \ D) = Cardinality(Watchers(p)) - Cardinality(D) /\ Cardinality(D) \in Nat
        BY <3>2, <3>6, <3>7, FS_Difference, FS_CardinalityType
      <3> QED
        BY <3>1, <3>2, <3>3, <3>4, <3>5, <3>8
    <2>2. write_watchers' = [p \in ImagePages |-> write_watchers'[p]]
      BY <1>1
    <2> QED
      BY <2>1, <2>2 DEF Counted
  <1>12. ImageTypes'
    <2>1. store' \in [Storers -> StoreState]
      BY <1>1, <1>2, GoToTyped
    <2>2. unhashed' \subseteq Images
      BY <1>1, <1>2 DEF ImageTypes
    <2> QED
      BY <1>1, <1>2, <1>9, <2>1, <2>2 DEF ImageTypes
  <1>13. RefreshOK'
    BY <1>1, <1>2 DEF RefreshOK
  <1> QED
    BY <1>10, <1>11, <1>12, <1>13 DEF ImageInv

LEMMA ImagesStart == Track!ImageTrackingAssumption /\ Track!Init => ImageInv
  <1> SUFFICES ASSUME Track!ImageTrackingAssumption, Track!Init PROVE ImageInv
    OBVIOUS
  <1>1. /\ image = [i \in Images |-> Track!Absent] /\ write_watchers = [p \in ImagePages |-> 0]
        /\ clean = {} /\ refreshing = NoImage /\ upload = FALSE
        /\ store = [t \in Storers |-> Track!NoAccess] /\ stale = {} /\ unhashed = {}
    BY DEF Track!Init
  <1>2. ImageTypes
    <2>1. Track!NoAccess \in StoreState
      BY DEF Track!NoAccess, StoreState
    <2>2. Images = {} \/ Track!Absent \in Track!ImageState
      BY AbsentFacts
    <2>3. image \in [Images -> Track!ImageState]
      BY <1>1, <2>2
    <2> QED
      BY <1>1, <2>1, <2>3 DEF ImageTypes
  <1>3. ImagesOK
    <2>1. ASSUME NEW i \in Images PROVE Ends(i, image[i]) /\ Flags(i, image[i]) /\ Current(i)
      <3>1. image[i] = Track!Absent
        BY <1>1
      <3> QED
        BY <1>1, <3>1, AbsentFacts DEF Current
    <2> QED
      BY <2>1 DEF ImagesOK
  <1>4. Counted
    <2>1. ASSUME NEW p \in ImagePages PROVE Cardinality(Watchers(p)) + Buffered(p) = 0
      <3>1. Watchers(p) = {}
        BY <1>1, AbsentFacts DEF Watchers
      <3>2. Cardinality(Watchers(p)) = 0 /\ Buffered(p) = 0
        BY <1>1, <3>1, FS_EmptySet DEF Buffered
      <3> QED
        BY <3>2
    <2> QED
      BY <1>1, <2>1 DEF Counted
  <1>5. RefreshOK
    BY <1>1 DEF RefreshOK
  <1> QED
    BY <1>2, <1>3, <1>4, <1>5 DEF ImageInv

LEMMA ImagesKeep ==
    Track!ImageTrackingAssumption /\ ImageInv /\ [Track!Next]_(Track!vars) => ImageInv'
  <1> SUFFICES ASSUME Track!ImageTrackingAssumption, ImageInv, [Track!Next]_(Track!vars) PROVE ImageInv'
    OBVIOUS
  <1>1. CASE UNCHANGED Track!vars
    <2>1. /\ image' = image /\ write_watchers' = write_watchers /\ clean' = clean /\ refreshing' = refreshing
          /\ upload' = upload /\ store' = store /\ stale' = stale /\ unhashed' = unhashed
      BY <1>1 DEF Track!vars, Track!refreshVars, Track!historyVars
    <2>2. ImagesOK' /\ RefreshOK' /\ \A p : Watchers(p)' = Watchers(p)
      BY <2>1, SameImages
    <2>3. Counted'
      BY <2>1, <2>2 DEF ImageInv, Counted, Buffered
    <2>4. ImageTypes'
      BY <2>1 DEF ImageInv, ImageTypes
    <2> QED
      BY <2>2, <2>3, <2>4 DEF ImageInv
  <1>2. CASE Track!Next
    BY <1>2, RegisterImageKeeps, RefreshTrackKeeps, RefreshDecideKeeps, UploadImageKeeps, MarkGpuWrittenKeeps,
       UnregisterImageKeeps, CleanBufferPageKeeps, BeginStoreKeeps, StoreKeeps, FaultKeeps,
       InvalidateBuffersKeeps, InvalidateImagesKeeps
       DEF Track!Next, Track!TakesWatch, Track!GuestStep
  <1> QED
    BY <1>1, <1>2

LEMMA ImagesImplied == Track!ImageTrackingAssumption /\ ImageInv => ImagesSound
  <1> SUFFICES ASSUME Track!ImageTrackingAssumption, ImageInv PROVE ImagesSound
    OBVIOUS
  <1>1. ImageTypes /\ ImagesOK /\ Counted
    BY DEF ImageInv
  <1>2. Track!WatchersExact
    <2>1. ASSUME NEW p \in ImagePages
          PROVE  write_watchers[p] = Track!Cardinality({i \in Images : p \in Track!UntrackImagePages(image[i])})
                                       + IF p \in clean THEN 1 ELSE 0
      BY <1>1, ImageSets DEF Counted, Watchers, Buffered
    <2> QED
      BY <2>1 DEF Track!WatchersExact
  <1>3. Track!TypeOK
    <2>1. write_watchers \in [ImagePages -> Nat]
      <3>1. \A p \in ImagePages : Cardinality(Watchers(p)) + Buffered(p) \in Nat
        BY WatchersFinite DEF Buffered
      <3> QED
        BY <1>1, <3>1 DEF Counted
    <2> QED
      BY <1>1, <2>1 DEF Track!TypeOK, ImageTypes, StoreState
  <1>4. Track!RangesSound
    <2>1. ASSUME NEW i \in Images, Track!Tracked(image[i])
          PROVE  /\ First[i] <= image[i].lo /\ image[i].lo < image[i].hi /\ image[i].hi <= Past[i]
                 /\ image[i].lo = First[i] \/ image[i].lo % PageSize = 0
                 /\ image[i].hi = Past[i] \/ image[i].hi % PageSize = 0
      <3>1. image[i] \in Track!ImageState /\ Ends(i, image[i])
        BY <1>1, ImageTyped
      <3>2. First[i] <= image[i].lo /\ image[i].lo < image[i].hi /\ image[i].hi <= Past[i]
        BY <2>1, <3>1, EndPages
      <3>3. /\ image[i].lo = First[i] \/ image[i].lo = Track!NextPage(First[i])
            /\ image[i].hi = Past[i] \/ image[i].hi = Track!PageStart(Past[i])
        BY <2>1, <3>1 DEF Ends
      <3>4. Track!NextPage(First[i]) % PageSize = 0 /\ Track!PageStart(Past[i]) % PageSize = 0
        BY ImageFacts, PageEnds
      <3> QED
        BY <3>2, <3>3, <3>4
    <2> QED
      BY <2>1 DEF Track!RangesSound
  <1>5. Track!CleanMeansCurrent
    BY <1>1 DEF ImagesOK, Flags, Current, Track!CleanMeansCurrent, Track!HashChanged
  <1> QED
    BY <1>2, <1>3, <1>4, <1>5 DEF ImagesSound, Track!TrackingSound, Track!TrackingExact

\* For any page size, images and guest threads: every page is watched as often as
\* its users watch it, watched ranges are sound, and an image that counts as clean
\* has the last store to its bytes (TextureCache: TrackImage, UntrackImage and
\* their halves, InvalidateCpuAliases, the refresh).
THEOREM ImagesCorrect ==
    ASSUME Track!ImageTrackingAssumption
    PROVE  Track!Spec => []ImagesSound
  <1>1. Track!Init => ImageInv
    BY ImagesStart
  <1>2. ImageInv /\ [Track!Next]_(Track!vars) => ImageInv'
    BY ImagesKeep
  <1>3. ImageInv => ImagesSound
    BY ImagesImplied
  <1> QED
    BY <1>1, <1>2, <1>3, PTL DEF Track!Spec
=============================================================================
