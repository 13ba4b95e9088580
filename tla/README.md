# TLA+ models of PKG_DoW

PKG_DoW is a PS4/PS5 user-mode emulator derived from KytyPS5. Guest code runs
natively on host threads; the emulator supplies the guest's kernel (threads,
synchronisation, memory, files), its GPU (command processor, memory coherence,
translation to Vulkan) and its system libraries. This directory holds TLA+
models of the parts whose correctness depends on the order in which things
happen, the TLC configurations that check them and the proofs that TLAPS checks.

Contents: [Inventory](#inventory), [Modules](#modules), [Runs](#runs-and-their-bounds),
[Disagreements](#disagreements-between-the-code-and-its-comments),
[Fairness](#fairness), [Proofs](#proofs), [Not modelled](#what-is-not-modelled),
[Plan](#plan). `PROJECT.json` maps every definition to the lines it stands for.
Paths below are under `src/src`.

## Inventory

The system is one process. Guest threads are host threads that call into the
emulator; one *GPU thread* executes what guest threads submit; every command
scheduler has a *priority thread* for end-of-pipe callbacks; the host's GPU (the
*device*) completes submissions in its own time.

| component | state | operations | interacts with | what is hard | what makes it correct |
| --- | --- | --- | --- | --- | --- |
| read/write locks, `kernel/pthread.cpp` | writer, per-thread read holds, totals, registered writers | rdlock, wrlock, timed and try forms, unlock | guest threads only | writer preference, recursion, timeouts that must withdraw a registration | exclusion, exact counters, every call returns |
| mutexes and condition variables, `kernel/pthread.cpp` | owner and count; sequence, waiter list, per-thread sequence | lock, unlock, wait, timed wait, signal, signal-to, broadcast | each other | wakeup racing a timeout, recursion levels given back and taken up | no wakeup lost or doubled, levels survive a wait |
| kernel semaphores, `kernel/semaphore.cpp` | count, list of waiters, status | wait, poll, signal, cancel, delete | guest threads only | several units at once, two orders, deletion under waiters | units conserved, nobody overlooked, order kept |
| guest GPU, `graphics/guest_gpu/graphicsRun.cpp` | queues, commands, flags of the GPU thread | submit, flip, done, command, shutdown; select, process, suspend, re-poll | guest threads; wait registry; schedulers | suspension and requeue, two mutexes, idle detection | nothing lost or reordered, `Done` means executed |
| wait registry, `graphics/guest_gpu/waitRegistry.cpp` | waiters with latches, frame number | register, record produced value, collect, break deadlocks | guest GPU | a label set and reset between two polls | a wait passes exactly if its label was right |
| memory coherence, `graphics/host_gpu/{memoryTracker,regionManager,pageManager}`, `renderer/cache/{bufferCache,gpuResourceManager}` | dirty bits of both sides, protections, exact modified intervals, fault hand-over | fault, invalidate, upload, GPU write, read back | guest threads by page faults; GPU thread by commands | faults racing uploads, pages against intervals | no write lost, loads see the latest, protections match owners |
| image tracking, `renderer/cache/textureCache.cpp`, `image/` | watched range and dirty flags of each image, watcher counts | register, track, invalidate, refresh, mark written, unregister | page manager; buffer cache by shared counts | images that share pages, partial watches, hashes | counts exact, clean images current |
| command schedulers, `renderer/{commandScheduler,masterSemaphore,renderContext}.cpp` | timeline, open command buffer, pool, two queues of callbacks | submit, flush, finish, defer, pop, run, shutdown | GPU thread, priority threads, device | callbacks against completion, two schedulers on one timeline, shutdown | nothing runs before its submission is complete, every wait ends |
| event flags, `kernel/eventFlag.cpp` | bits, status, waiters | set, clear, wait, poll, cancel, delete | guest threads | cancellation drains the waiters while others begin to wait | whom a cancel or a delete finds is released, single waits one at a time |
| event queues, `kernel/eventQueue.cpp` | list of events, closed flag | add, delete, trigger, wait, poll, close | video out, GPU, timers | level, edge, one-shot events; triggers before a collection | every trigger handed out once, in order |
| sync on address, `kernel/syncOnAddress.cpp` | registry of entries with waiters; on Linux the host's futex | wait, timed wait, wake one, wake all | guest threads | entry removed while others enter it; slices of the host's wait | a wake releases whoever waits, nobody sleeps in an entry that no wake finds |
| POSIX semaphores, `kernel/semaphore.cpp` | count, waiting threads, the copy in the guest's `sem_t` | init, destroy, wait, timed wait, post | guest threads | guest code reads the copy without a lock | no post lost, copy exact |
| thread life cycle, `kernel/pthread.cpp` | pool of records, cache of stacks, flags of each thread | create, join, detach, cancel, exit, reclaim | host threads | a detached thread ends while it is reclaimed and its record is reused | no record or stack has two threads |
| thread-specific data and `pthread_once`, `kernel/pthread.cpp` | keys with values and destructors; the control's state | key create, delete, set, get, destructors; once | thread exit | keys deleted and created while a thread ends | a destructor gets its own key's value, the routine runs once |
| virtual and direct memory, `kernel/memory.cpp` | virtual ranges, physical blocks and mappings, pools, views of the backing store, the GPU's map | map, reserve, unmap, protect, allocate, release, name, commit, decommit | memory coherence | six records of one page cut, moved and rolled back separately; host calls that fail in the middle | the records agree, nothing of a pool is lost |
| files, `kernel/fileSystem.cpp` | mounts, descriptors | open, read, write, seek, close | host files | descriptor reuse | a descriptor names the file it was opened for |
| PM4 interpreter, `graphics/guest_gpu/` | registers, stack of indirect buffers | one handler per packet | renderer, wait registry | nested buffers, resumption | packets run once, in order |
| stream buffers, `renderer/cache/streamBuffer.cpp` | ring offset, watches of this lap and the last | map, commit, wait for watches | schedulers, buffer cache | reuse of a region in flight, waits that submit | a region is free when it is handed out |
| buffer cache, `renderer/cache/{bufferCache,faultManager}.cpp`, `common/lruCache.h` | buffers, page table, list by age, faulted pages | find, create by joining, obtain, read back, write, collect | draws and dispatches, tracker, deferred operations | a lookup joins what is already bound; a collection runs other operations | one buffer for each page, no write lost, bindings current |
| movie player, `libs/avPlayer.cpp` | flags of a source, queues of packets, buffers and frames | start, stop, jump, pause, resume, change of stream, frames | demuxer and decoder threads | flags set outside the queues' mutexes, bounded queues in a ring | no buffer in two places, frames in order, every play ends |
| fibers, `libs/libKernel.cpp` | state and owner of each fiber, per-thread variables | initialise, run, switch, return, finalise | host threads | state and owner change one after the other, a fiber's stack is left late | one thread on a fiber's stack |
| presentation, `graphics/presentation/` | ports, flip queue, frame pool, pending counts | open, close, submit flip, flip packets, register events, present, vblank | guest GPU, priority threads, event queues | flips against rendering, a close against flips in every stage | flips in order, each shown or given up, each reported once to whom it belongs |
| renderer, pipelines, shader recompiler | caches of Vulkan objects | draw, dispatch, translate | schedulers, caches | translation | out of reach here |
| loader, system libraries, package parser, launcher, tools | various | start-up, adapters, user interface | kernel | parsing, I/O | out of reach here |

How they interact: a guest store or load that hits a protected page faults into
`GpuResourceManager::HandleFault`, which settles a store under the region's lock
or sends a command to the GPU thread and waits (`SendCommandSync`). The GPU
thread takes commands between packets and between submissions. While it
executes packets it obtains buffers and images (uploads, watches, GPU ownership
of pages), records into the open buffer of the scheduler that is *recording*,
and hands callbacks to that scheduler. Those run on the GPU thread (deferred
operations) or the scheduler's priority thread (end of pipe) when the device
has completed a tick of the shared timeline.

## Modules

Every module names the source's functions; its comments say what it abstracts.
`X_proofs` extends `X` with theorems; where `X` is an `MC` module, its constants are still
any constants, and a proof is of the specification of a component it instantiates or of the
module's own, as its theorem says.
An operator `Name_Suffix` in front of `Name` is a plausible error in `Name`; the mutants
of `PROJECT.json` put it in the place of `Name` and expect a property to fail.

The `MC` modules give the constants of one or several components their values.
Components that have nothing to do with each other share a run: `MCGuestLocks`,
`MCGuestSemas`, `MCGuestThreads`, `MCHostMemory`, `MCCommandScheduler` and
`MCGuestDevices` have a variable
`part` that the initial state chooses and no step changes, and a step of a
component needs its `part`. Such a run is the disjoint union of its components'
behaviours; a property of one component says nothing of the other parts.

The guest's kernel:

- **PthreadRwlock** - a pass of the loop of `RwlockLockCooperative` under
  `rwlock->m` is one action; `writer`, `readers`, `reader_count` and
  `waiting_writers` are the fields of the lock. A caller that finds nothing to
  do sleeps 10 ms and looks again, so "still in the call" is all that remains of
  the sleep. Not shown: `Destroy`, which ignores waiting writers. A write call
  that times out notifies no readers; they find out at their next poll.
- **PthreadCond** - mutexes and condition variables together, because a wait
  releases and retakes the mutex. `cond_lock` is `cond.m`, which a wait keeps
  from registering to sleeping. Guest signal handlers that run inside a wait
  are not shown.
- **PthreadOnce** - `pthread_once`: the control's state, the mark that waiting
  threads leave on it, the notification or the end of a slice.
- **PthreadKeys** - keys, values and destructors. `PthreadKeys::Destruct` copies
  the values under the mutex and calls the destructors without it, so other
  threads' deletions and creations fall between the two.
- **GuestThreads** - creation, join, detach, cancellation and reclaiming of
  threads. `record` is the entry of the pool, `host` the host thread behind it,
  `handle` what the guest may still do with the thread; stacks are intervals that
  go back to a cache by size and are handed out again.
- **Fibers** - `FiberRun`, `FiberSwitch`, `FiberReturnToThread` and their helpers. The
  state of a fiber is an atomic and its owner an entry of a map, so every change of
  one of them is a step; so is `FiberCommitDeferredIdle`, which gives a fiber back when
  the thread has left its stack. `repaired` is a history: a repair has taken a fiber.
- **AvPlayer** - a source of the movie player with its demuxer and decoders. A queue is a
  sequence and every wait for it a place in a thread; `missed` is a history: a thread was
  between its check and its sleep when a flag was set and the queue notified without the
  mutex. Opening of files, subtitles and trick speeds are not shown.
- **KernelSema** - `KernelSemaPrivate`: the list is a set with an order
  (`ahead`), the walk of `WakeWaiters` is stepwise, everything else is one action
  under the mutex. `KernelSignalSema` accepts counts that are not positive; the
  model signals positive ones only.
- **PosixSema** - `PosixSemPrivate` with `guest`, the copy of the count and of
  "has waiters" that inlined code of the guest reads from its `sem_t`.
- **EventFlag** - `KernelEventFlagPrivate`: a call is a sequence of sections under
  the mutex; `Cancel` and the destructor drain the waiters in naps of 10 us. `owed` is
  a history: the waiters that such a call found and has to release.
- **EventQueue** - `KernelEqueuePrivate`: each queue is its list of events; a waiting
  thread looks again within 10 ms, so the condition variable is not shown. Timers
  have one pending expiry. `history` is what was sent and collected of each event.
- **AddressWait**, **SyncOnAddress**, **FutexWait** - what waiting on an address
  promises, the portable registry that provides it, and the Linux path. In
  `AddressWait` a wake releases the threads that wait, the longest waiting first, and
  those return success; a wait may also end by itself, when the word differs or its
  time is up. The comparison with the word is not part of the promise.
  `SyncOnAddress` looks up an entry, locks it, waits, leaves it and
  removes it in separate steps, with entries that are no longer registered still in
  use. `KeepsPromise` is the refinement: a thread waits in the abstract when it is in
  the list of the entry that the registry has for its address. `FutexWait` is the same
  promise as the Linux path keeps it, with slices of 10 ms between which a thread
  is in no queue.
- **GuestMemory** - `memory.cpp` page by page: one mutex serialises the calls, so a call
  is an action; inside it the records are changed in the code's order with every
  failure of the host as an alternative, and what a failure leaves behind is what
  the rollback of the code leaves behind. `range` are the virtual ranges with their
  types, `block` and `mapping` the physical memory's lists, `flexible...` and `pool...`
  the two pools, `view` what is really mapped and `gpu_mapped` what the GPU was told.

The GPU and the screen:

- **WaitRegistry** and **GuestGpu** - the registry is a set of operators on sets
  of waiters; `GuestGpu` extends it with queues, the GPU thread (`gpu` is the
  place in `ThreadRun`) and guest threads. Packets are waits, label writes
  (recorded in the registry or not) and others. `AdvanceFrame` belongs to flip
  preparations. The frame test of `waitRegistry.cpp:91` compares a field with the
  value it was set to just before, so it never rejects; the model says so. The
  re-poll loop drops what `CollectDeadlockBroken` returns, so a submission the
  breaker releases is re-polled only when its label holds; the model drops it, too.
- **VideoOut** - ports with their generation, the flip queue with its three stages
  (reserved, prepared, ready), the pool of frames, the present thread and the flip
  events it triggers. It extends `EventQueue`. A flip's report goes to the queues
  registered for its port, but the event there is known by its kind alone
  (`videoOut.cpp:281`): a queue has one flip event (`Flip`) for all ports that use it, and
  `owner` is the registration it was added for, its `filter.data`. A registration for
  another port leaves that event as it is, a deletion for any port removes it together
  with the registration of its owner (`WithoutOwner`). Registering is two steps, the port's list
  (`RegisterFlipEvent`) and then the queue (`AddFlipEvent`), and so is reporting: the
  present thread copies the list (`CopyRegistrations`) before it triggers. Locks that are kept
  over several steps stay visible: the driver's through `Close`, and the port's by
  a guest that registers and by the present thread from the moment a flip is due until it
  is shown (`PortFree`); sections under the inner locks are one action. `bereft` is a history:
  the ports that lost the flip event to a call for another port, or deleted it themselves and are
  still registered because it was added for another.
- **GpuMemory** - `MemoryTracker`, `RegionManager`, the protection of
  `PageManager` and the part of `BufferCache` that moves bytes. A *cell* is a part
  of a page written as a whole, so pages (tracker) and intervals
  (`m_gpu_modified_ranges`) can differ. `Window` is the pages of the fixed eight
  bytes that a fault reports. Operations of the GPU thread are split where the
  region lock is released or a guest thread can come between. Its `Download` takes the
  readback as complete when the bytes are written back: this is what
  `CommandScheduler` establishes for a guest whose recording scheduler is the
  graphics one, and refutes otherwise.
- **ImageTracking** - every image with its watched range `lo .. hi`, dirty
  flags and hash, the count of watchers of every page, and guest stores that
  fault. Byte addresses are numbers, so head, tail and single-page cases come out
  of the same arithmetic as in the code. `Guarded` is the bytes whose stores an
  image cannot miss: stores to the edges of an image, after its first or last
  page left the watched range, are missed, and nothing in the repository says
  otherwise.
- **CommandScheduler** - the two schedulers that share a timeline, their
  priority threads and the device. `todo` is what the GPU thread's present call
  still has to do (`Flush`, `Finish`, ... are lists of calls), so that the device
  and the priority threads come in between every two steps. `due` in an operation
  is a history: the tick that its command buffer was really submitted with, as
  opposed to `tick`, which the program stamps it with. `Wait` with the current
  tick and operations deferred from within callbacks are not shown.
- **StreamBuffer** - the ring behind uploads, uniforms and downloads: `ring` are the
  members of `StreamBuffer`, with the watches of the present lap (`current`) and of the last
  (`previous`); `map` is the call of `Map` with its wait, or what it returned. `prepared` and
  `inFlight` are histories: the regions of the operation that is being prepared, and those
  whose work or whose priority operation is not done. Of the scheduler it shows the timeline.
- **BufferCache** - which buffer owns which pages. A lookup is a function from the index
  (buffers, page table, list by age) to the index, so that the lookups of an operation, of
  a fault buffer and of a collection are folds of one operator. `op` is the operation
  between its lookups and its commands, with what it has bound; guest stores come in between
  its steps. Pages change sides in one step here, `GpuMemory` shows how. `overtaken` and
  `torn` are histories of the two events that the next section names, and a behaviour
  ends with them.

## Runs and their bounds

| run | bounds | why they are enough |
| --- | --- | --- |
| `locks`, read/write lock | 3 threads, 3 calls each | a writer, a registered writer and a reader that recurses; every thread can time out and come back |
| `locks`, event flag | 3 threads, 2 bits, 2 patterns, 3 calls in all | one waiter, one that sets or cancels, one that comes in between; both attribute values |
| `locks`, addresses | 3 threads, 1 address, 3 entries, 3 waits | an entry that one leaves, one enters and one replaces; a wake of one and of all |
| `futex` | 2 threads, 2 slices | a waiter and a waker |
| `semas`, kernel semaphore | 3 threads, maximum 2, 3 units or cancellations, priority order | a waiter for two units in front of one for one, two waiters of one priority, a walk that passes some |
| `semas`, POSIX semaphore | 3 threads, maximum 2, 7 calls | two waiters and a poster, timeouts, destruction and a second initialisation |
| `semas`, event queue | 1 queue, a waiter beside polls, 3 events of 5 kinds, 3 triggers each | a trigger between two collections, room for one of two events, a queue closed under a waiter |
| `threads`, mutexes and condition variables | 3 threads, 1 recursive mutex, 2 condition variables, 2 or 3 calls each | a thread that holds the mutex twice waits, another waits, the third signals or broadcasts; a thread changes variables |
| `threads`, life cycle | 2 creators, 2 records, 3 creations, room for two stacks | a record and a stack are used a second time, in both orders with join, detach and cancel |
| `threads`, keys | 2 threads, 2 keys made 3 times, 3 values, 2 iterations | a key is deleted and made again between the copy and the call of a destructor |
| `threads`, once | 3 threads, 2 calls each | a runner and two that wait |
| `threads`, fibers | 3 threads, 2 fibers, 4 calls | a fiber that ends, one that moves to another thread, a thread that comes upon either in the middle |
| `threads`, movie player | 3 movies of up to 3 packets, start at 0 or 1, queues of 1, 2 buffers of each kind, 2 plays, 1 failure | every queue fills and runs dry, a jump or a stop meets the threads anywhere, one movie loops |
| `hostmem`, buffers | 2 pages, 2 cells, 2 threads, 2 writes | each page has a cell, one fault window spans both, two threads race the GPU thread |
| `hostmem`, images | 3 pages of 2 bytes, 3 images, 1 thread | an image with a page of its own between two partial ones, one within a page, one across two; all overlap or share pages |
| `devices`, video out, one port (parts `flips` and `packets`) | 2 guests, queue of 2, 1 frame; 2 flips with registrations, and one of: rates, deletion of the event queue, a second opening; packets with 2 flips and a second opening, 3 flips, or 1 with registrations | a flip of a closed generation under the next one, a pool that runs out, an end-of-pipe flip that waits for a place in a full queue, a rate that changes before a flip is due |
| `devices`, video out, two ports | ports that share a queue, 1 flip of the first | each registers first, closes or deletes the other's event, while a flip is shown |
| `devices`, guest GPU | 2 queues, 4 submissions, 2 guest threads, 1 store, 2 commands | the waiter, the producer, the one that resets the label and a flip behind the waiter, with commands, `Done` and shutdown at any time |
| `devices`, guest memory | 3 virtual, 3 direct pages, 1 flexible page, 1 protection | a range with a part before, within and behind what is cut; a pool that runs out; a merge on both sides. Ranges that differ in protection alone are left to the theorem `MemoryCorrect` |
| `gpu_two_waits`, `gpu_latch` | 2 queues, 2 submissions | a producer and a waiter are all it takes |
| `scheduler`, ring | 6 bytes in atoms of 2, requests of 1 and 3, alignments 1 and 4, 3 ticks | a wrap before and after the first submission, a watch that is complete and one that is not, padding by atom and by alignment |
| `scheduler`, buffer cache | 2 pages of 2 cells, 3 operations, 2 writes, 3 buffers, 1 collection | a join of two pages by a later binding, by vertices and by faulted pages; a collection of a clean and of a dirty buffer |
| `scheduler`, schedulers | packets start below tick 3, 2 operations queued, pool grows by 2 | each scheduler can submit while the other records, a shutdown can meet operations in both queues, a pool wraps and grows |
| `scheduler_readback` | as `scheduler` | |
| `videoout_rate` | as video out, with a guest that only sets rates | two threads and two generations |
| `memory_alias` | 3 virtual, 2 direct pages | a mapping of two pages of which one is named |

What the passing runs show is said at each property and in `PROJECT.json`. Bounds
are constants named `Max...` or `Bound` and stand in guards of guest actions only:
what has begun can always finish. `CHECK_DEADLOCK FALSE` stands where the system
may stop for good: the guest makes no more calls, or waits for something that it
never does.

The runs `locks`, `semas`, `threads`, `devices` and `scheduler` ask for liveness in one formula
`[]<>(everything called has ended)` where the components state leads-to properties.
As the calls are bounded the two are the same, and TLC decides the first much faster.

## Disagreements between the code and its comments

Six runs end in a violation, each of a property that states what a comment, an
assertion or a test says:

- `gpu_two_waits`: `CollectSatisfied` returns waiters of every queue, and
  `WaitRegMem` takes any of them as the answer for its own packet.
- `gpu_latch`: `Register` clears the latch of the entry it finds, before
  `CollectSatisfied` could see it. A label set and reset between two polls is
  missed.
- `futex`: `WaitLinux` parks for 10 ms at a time and is in no queue of the futex
  between two slices. A wake in that moment passes the waiter over, and it times out;
  `SyncOnAddressTests.cpp` says that woken waiters return success. The portable
  registry keeps the promise, as `KeepsPromise` shows.
- `videoout_rate`: `VideoOutSetFlipRate` looks the port up under one mutex and writes
  under another without looking again. A `Close` in between has reset the rate
  before, and the next `Open` meets its assertion.
- `memory_alias`: `KernelSetVirtualRangeName` on a part of a direct mapping cuts the
  range and not the mapping behind it. Releasing the memory then meets the assertion
  that the two agree.
- `scheduler_readback`: `DownloadBufferMemory` copies in the recording
  scheduler's buffer and finishes the graphics scheduler. While the compute
  scheduler records, the bytes are read before the copies are submitted.

`scheduler_readback` has a root that shows elsewhere, too: work is stamped with the tick
that is current when it is recorded, and with two schedulers on one timeline the
other one may take that tick first. Deferred releases, end-of-pipe callbacks and
pooled command buffers carry such stamps. `CompleteBeforeUse` and `CommittedIdle`
are therefore stated for guests that use the graphics queue only
(`~asyncCompute`); TLC finds both violated without that condition.

Some properties leave out what follows an event that the code does reach and that no text
in the repository speaks of; the exception is a history variable in each case:

- `BindingsCurrent`, `BufferCacheSound` (`overtaken`): a draw binds its storage buffers before
  its vertices and indices are looked up (`renderDraw.cpp:1190`). When this lookup joins a
  bound buffer, its bytes are copied to the new buffer before the draw, and what the draw
  writes goes to the old one. Storage buffers among themselves are safe: all are looked up
  before any is bound, and `ObtainBuffer` looks again when its id has gone.
- `BufferCacheSound` (`torn`): `ObtainBufferForImage` copies the backing first and takes the
  pages from the CPU afterwards (`bufferCache.cpp:556`); a store in between reaches neither
  the buffer nor, as the page counts as clean, a later upload.
- A collection under memory pressure downloads dirty buffers, and the download runs deferred
  operations; if a lookup for faulted pages joins a buffer of the collection, the second
  `Unregister` ends the process (`bufferCache.cpp:112`). The model has this as an end.
- `RingSound` (`Timely`): a region that is committed for an operation whose preparation then
  waits for the current tick carries the tick of that submission, and is used by the next.
- `PlayerSound`, `ThreadsSettle` (`missed`): `worker_stop` and `demux_eof` are set and the
  queues notified without the queues' mutexes (`avPlayer.cpp:1163`, `:1241`). A thread between
  its check and its sleep misses it. `VideoAwaitsAudio`: with synchronisation off, the video
  waits for an audio stream that has no frame (`avPlayer.cpp:902`).
- `FibersSound` (`repaired`): `FiberRepairStaleRunningOnThisThread` takes a running fiber without
  an owner for a stale one, and another thread may just be between the two writes
  (`libKernel.cpp:2515`). `FiberRun` also reads the fiber it came back from after the
  fiber has been given back (`:2748`).
- `FlipsReported` (`bereft`): of two ports that report to one queue, the second to register
  adds no event, and when either unregisters or closes, the event of both goes with the
  registration of its owner; the other port is still registered, but its flips are told to nobody.
- `AllShown` (`SelfWait`): a packet waits on the GPU thread for a flip that is queued behind it.

Three more things that `GuestMemory` shows as they are, without a text in the
repository that says otherwise: `KernelMemoryPoolReserve` that fails after it has
reserved leaves the reservation behind when it has merged with a neighbour
(`memory.cpp:3973`); an unmapping that fails in the middle leaves the earlier pieces
unmapped and the GPU without the whole span; a fixed mapping that fails leaves the
mapping it replaced as a reservation.

## Fairness

- *Sleeping calls look again.* `Common::CondVar::Wait` and the guest waits poll
  (10 ms, `SIGNAL_APC_POLL_MICROS`): a pass of a loop is weakly fair. Fairness
  is strong only where a thread takes a mutex that others take and release in between: `cond.m`
  after a condition wait, and a port's mutex (below).
- *The GPU thread runs*, its timed sleeps end, and it takes commands between
  packets. Nothing is assumed of what the guest submits: liveness of submissions
  is stated under the condition that the waits that are reached become true.
- *Threads in a call go on*: `InCall`, `InWait`, `CreateStep`, `JoinStep`, `ThreadStep` and
  `ReclaimStep` are the steps of calls that have begun, of the host threads behind guest
  threads and of `FreeDetachedThreads`. Nothing is assumed of the beginning of a call.
- A thread in a condition wait has one fairness condition for all steps of its call
  (`WaitUnlock`, `WaitSleep`, `WaitRelock`, `WaitFinish`): at most one is enabled at a time. The
  movie player has one for all its threads (`Runs`), as the guest's plays are bounded: it says
  no more than that the player does not stop while a thread of it can go on.
- *The present thread runs* and end-of-pipe callbacks are made: `PresentThread`,
  `EndOfPipe` (video out). The present thread, the GPU thread and calls that have begun need a
  port's mutex, which a guest that registers again and again takes in between; that a mutex
  which is free again and again is got at last is strong fairness, in the module for all
  three, in the run for the two threads (there, the guest that could keep a call waiting is the caller
  itself). A call that registers waits for nothing. Where nobody can say that a guest sets the flag or posts the
  semaphore it waits for, liveness is stated of timed, cancelled and served waits.
- *Guests give back locks* (read/write locks, mutexes) in a bounded number of calls: without
  it nobody could promise that a lock call returns.
- *The device completes submissions*, which `waitSemaphores` without a timeout
  relies on. The guest may stop at any time.
- `AccessesReturn` and `StoresReturn` assume that the GPU thread at some time
  stops taking up protections: the code has no other bound on a store that faults
  again and again.

In a run of several parts the fairness is of steps that exist only while their
part is chosen. Liveness is checked by TLC only.

## Proofs

For any values of the constants that satisfy the `ASSUME`s of the module:

- **MCGuestLocks_proofs**, on `PthreadRwlock`: types, exclusion and exact
  counters. The totals are cardinalities; the invariant ties them to the
  per-thread holds and registrations, and lemmas say how a step of one thread
  changes the sets. On `EventFlag`: `FlagCorrect`, that no waiter that was not signalled sleeps
  beside bits it waits for, and that `Cancel` and the destructor release everybody they
  find asleep before the flag goes on or is freed. On
  `SyncOnAddress`: `AddressCorrect`, that a waiting thread is in the entry that the registry
  has for its address, and `PromiseCorrect`, that the portable registry implements
  `AddressWait`: initial states map to initial states and every step to a step or a stutter.
  The invariant ties the list of an entry to the threads that wait in it, each once, says
  that a thread that still has to unregister is in no list, and that two addresses never
  share an entry.
- **MCGuestSemas_proofs**, on `KernelSema`: types, that nobody is overlooked, order, final
  results and the safe end of the destructor. The invariant has the shape of the list
  (`ahead` is a strict order that respects priorities) and, during a walk, that
  every sleeper passed so far needs more than what is left. `UnitsCorrect`, that
  units are neither lost nor made up, is about both semaphores: the units that woken waiters
  were given are counted as pairs of a waiter and a number up to what it asked for, which
  makes a sum over a set a cardinality; of `PosixSema` it says that as many threads as there
  are units are awake while one sleeps. `EventsCorrect`, on `EventQueue`: what an event was
  triggered with is what was handed out of it followed by what it still has. The loop over
  the events of a queue is a recursive function on the rounds; `RoundsOK` says what holds
  after each round (`OneRound`), by induction over them (`CollectRounds`): what is left are some of
  the events so far, those that keep anything all of them, each with the rest of what it had.
- **MCGuestThreads_proofs**: five components of the guest's threads. `FibersCorrect`, for any
  number of threads and fibers: as long as no repair took a fiber, a running fiber is on the
  stack of exactly one thread or is about to be, its owner says so or is about to, and
  nobody uses an idle one; the invariant says for every place of a thread what it holds
  there. `OnceCorrect` and `KeysAndOnceCorrect`: the routine runs once and no call
  returns before it has ended (one thread is in it exactly while the control is in
  progress or marked); values are destroyed once, by their thread and with the destructor of
  their key, and a thread that has ended leaves none behind.
  `CondCorrect` and `WakeupsCorrect`: no signal goes to a thread that does not wait and none
  misses one that does, a wait restores all levels of its mutex, and every wakeup is returned
  by a wait; the invariant ties the list of a condition variable to the threads that wait in
  it, each once, and says who is woken.
  `ThreadsCorrect`: no byte of the stack of a thread that lives is another thread's or in
  the cache of stacks, and a record is handed out only when nobody has it; the invariant
  `PoolInv` says what each caller has in hand in the middle of its call and that all of this lies apart.
- **MCGuestDevices_proofs**, on `GuestGpu`: `QueuesCorrect` and `DoneCorrect`. The invariant
  says where every submission is (in exactly one queue, current, or executed), that only
  the first of a queue has started, that a suspended one is at a wait, and what the GPU
  thread has in hand in each phase of its loop. On `GuestMemory`: `MemoryCorrect`, that the
  records of every page agree, nothing of the pools is lost, everything mapped can be unmapped and
  the GPU sees nothing that is gone, for every size of the memories, with and without failures
  of the host. `MemInv` adds what the cuts depend on: the pages of a piece of ranges or of
  mappings know each other and its first page (`Pieces`), and a mapping begins no later than
  the ranges in front of it (`PageOK`), which is why a chunk of ranges always finds one mapping
  that holds it. `CutPair` shows this for cuts at any places such that a mapping is cut
  only where its ranges are, or in front of them; `CutsMatch` that the places of a rollback and
  of `Mprotect` are such. On `VideoOut`: `FlipsCorrect`, `FramesCorrect` and
  `OnlyOpenFails`. A thread of this driver knows a flip by its number and finds it again, or not, in
  lists that others changed meanwhile, so `FlipInv` is about numbers: a number is in one list
  and in one thread's hand at most (`RequestsOnce`, `NumbersOnce`); what a thread counts on when it
  comes back is promised of its number (`Promised`: one to be prepared is still unprepared, one at the
  end of the pipe can be completed, cancelled or not); each list holds requests in the
  states it may hold (`StatesRight`); what the present thread shows stays in front, as the others
  only append and `Cancel` waits for it (`FrontKept`); every frame is free or in one
  request (`FramesOnce`); and a port that is open, or being closed, has all flips that name
  it (`PortsHaveTheirs`). `FlipsSound` needs one hypothesis, `~RateMayRace`: that no thread
  sets flip rates while another closes ports. The code does not prevent it, and the run
  `videoout_rate` shows what happens; `OnlyOpenFails` says, without the hypothesis, that
  nothing else does, and `FramesCorrect` that frames and counts are right even so. The roles of the
  run `devices` satisfy the hypothesis. That the pool of frames is finite is an assumption.
- **MCHostMemory_proofs**, on `GpuMemory`: types, single ownership, that no write is lost, that
  protections follow owners, that intervals and pages agree, and that loads see
  the latest write. The invariant `IInv` adds to these what holds in the middle of
  an operation: who holds the lock in which phase (`LockOK`), what the GPU thread
  has collected or still has to copy (`WorkOK`), how intervals and pages differ
  between the steps of a readback or of taking ownership (`OwnersOK`), and that a
  page whose protection still has to be changed is one the step in progress will
  change (`GuardOK`). Without these the properties do not carry over a step: for
  example "no write is lost" needs that a page which is being copied is already
  protected. On `ImageTracking`: `ImagesCorrect`, that counts of watchers are exact, watched
  ranges sound, and images that count as clean current. A range begins and ends
  with its image or where a shared first or last page was let go (`Ends`); lemmas give
  what each call then leaves of an image and the pages it counts (`Settled`), and how
  numbers of bytes and of pages compare, from division. An image that may be dirty
  has all its guarded bytes hashed (`Flags`), which is why an unchanged hash settles that it is clean.

- **MCCommandScheduler_proofs**, on `StreamBuffer`: `RingInvariant` and from it `RingCorrect`, for every size of the
  ring, atom, set of requests and number of ticks: `Map` never hands out a byte that
  something still uses. The argument: watches are ordered by tick and by place
  (`Ordered`); the cursor stands behind watches that are complete; every region in use
  lies under a watch of this lap, or of the last lap and beyond the bound that `Map` has
  waited for. Regions end at atoms, by divisibility, so a region's last atom is its own. That
  any two numbers have a least common multiple is an assumption on the constants, as its
  proof needs induction; TLC evaluates it.
  On `CommandScheduler`: `SchedulerCorrect`, that a scheduler closes only when no operation was
  left behind and none is in its priority thread's hand. `SchedulerInv` says how far a
  `Shutdown` has come: what is left of its calls, and up to which tick operations may still
  be queued (`ShutdownOK`); that whoever submits begins a buffer later in the same call
  (`Ordered`); and that a queue is used only by a scheduler that has registers. `DeviceFirst`,
  that nothing runs before the device is done while the guest uses the graphics queue only:
  then every operation carries the tick of the submission that takes it (`Timed`), the open
  buffer the tick it will be submitted with, no buffer in the pool was submitted later than
  its tick says (`PoolTimed`), and a readback is recorded, waited for, or complete (`CopyOK`).
- **AvPlayer_proofs**: `PlayerCorrect`, for every file, number of rounds, length of the queues,
  number of buffers and delay of a codec. The inductive invariant `PlayInv` has six parts. The
  types; `Shape`, what a thread holds at each of its places (a decoder that is off has nothing in
  its codec, one that drains to its end has seen the end of the file, a call that launches
  the threads has emptied the queues); `BufferInv`, that the lists of free, ready and
  retired buffers repeat nothing and share nothing, nor the buffer that is written nor the one the guest has;
  `WayInv`, that along the stages (ready, in the codec, packets, in the demuxer's hand)
  times ascend, and that together they are the frames after the last one handed out and before the place the
  demuxer reads at; `EndInv`, that the threads end in order, the demuxer at the end of the
  last round and a decoder behind it; `SleepInv`, that who has checked a queue and not
  gone on has to wait, unless it missed a notify. `PlayerSound` is stated of sleepers alone, but
  holds only because a thread between its check and its sleep has to wait as well.

- **ListLemmas**: what `Append`, `Tail`, removal and insertion do to a list without
  repetitions, which most of the proofs above need; that every set of natural
  numbers that is not empty has a least element; and from this that a function which is
  defined step by step up to a number exists (`RecursionOnList`), is the only one
  (`RecursionUnique`), and that what every step preserves holds at the end (`InductionUpTo`).

Each `...Sound` that a run checks is the conjunction that a theorem of the same component
proves, where it is proved at all. The assumptions are those of the modules; every theorem
that needs one says so, and TLC evaluates each on the constants of a run. Model-checked only:
`FlipsReported` (it needs the proofs about `EventQueue` again, in the module that holds those about
flips, together with what each flip adds to a queue's history), `BufferCacheSound` and
`BindingsCurrent` (what a range overlaps is a fold over a set, and joining buffers goes on until
nothing more is overlapped); and everything about liveness, which the prover cannot state.

## What is not modelled

`PROJECT.json` lists every component with its reason. Of the modelled ones:

- *Guest kernel*: attributes, initialisation and destruction of mutexes (`pthread.cpp:1458` destroys
  one under its waiters), names, priorities and affinities of threads, suspension, signal
  handlers, stacks the guest brings itself, the unloading of static objects.
- *Memory*: memory types, private ranges, apertures of partially resident textures, files
  mapped into memory.
- *Coherence*: the tracker's pages are those of one region; a call over several regions locks
  one after the other (`memoryTracker.h:113`), and their order is not shown. The loop of
  `pageManager.cpp:251` that joins runs of pages into one call of the host is left out: a
  page's protection changes with its count.
- *Buffer cache*: images that alias buffers (`SynchronizeBufferFromImage`), the global data
  share, the compute scheduler as the recording one; bytes within a page of the tracker.
- *Texture cache*: overlap resolution, downloads, metadata and its collector; its format and
  layout rules would have to be modelled first, and they are tables.
- *Guest GPU*: the handlers of PM4 packets write registers, which no property here looks at;
  their stack of indirect buffers is left to the packets' order in `GuestGpu`.
- *Window, overlays, captures, pipelines, descriptor heap*: calls of Vulkan and of the window system.
- *Shader recompiler, loader, package parser, launcher*: translation, parsing, user interface;
  no state that several actors share.
- *System libraries*: most are stubs or adapters of host libraries; the file system and the
  network are input and output of the host behind a table of descriptors.

## Plan

What could follow, in this order:

1. Proofs for what runs check: `FlipsReported`, `BufferCache` (the
   page table and the registered buffers). Where a
   proof needs induction over numbers, a least counterexample (`LeastNatural`) takes its place.
2. `PageProtection`: the loop over a region's pages as a function, shown to give every page
   the protection that its counts call for; then the one-step protection of `GpuMemory` and
   `ImageTracking` is what it implements. Several regions with their locks on top of it.
3. `BufferCache` with images that alias buffers and with two schedulers.
4. The stack of indirect buffers, resumed after a wait, below `GuestGpu`.
5. An atomic memory with one value for each cell that `GpuMemory` implements for loads and
   stores that succeed; a semaphore whose signal serves waiters at once, implemented by
   `KernelSema`.
