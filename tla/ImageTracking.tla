------------------------------ MODULE ImageTracking ------------------------------
(***************************************************************************)
(* How TextureCache (src/src/graphics/host_gpu/renderer/cache) learns of   *)
(* guest stores to its images: every image watches the pages it lies on,   *)
(* PageManager counts the watchers of a page and protects it while there   *)
(* is one, and a store that faults marks images and gives watches back.    *)
(*                                                                         *)
(* An image need not begin or end at a page.  A store beside it on its     *)
(* first or last page only takes that page out of the watched range; an    *)
(* image within one page remembers a hash of its bytes instead.  The       *)
(* buffer cache watches pages, too, one watcher for each page it keeps a   *)
(* clean copy of.  Everything TextureCache does is under m_lock; the       *)
(* refresh of an image is shown in its steps, because stores that do not   *)
(* fault happen in between.  Images the GPU or a buffer has written are    *)
(* not told apart from images that were uploaded.                          *)
(***************************************************************************)
EXTENDS Integers, FiniteSets

CONSTANTS PageSize, Pages,       \* numbers of pages; address 0 is never mapped
          Images, First, Past,    \* the bytes First[i] .. Past[i] - 1 of each image
          Threads, NoImage

Bytes == UNION {p * PageSize .. (p + 1) * PageSize - 1 : p \in Pages}

ImageTrackingAssumption ==
    /\ PageSize \in Nat \ {0} /\ IsFiniteSet(Images) /\ NoImage \notin Images
    /\ Pages \subseteq Nat \ {0}
    /\ First \in [Images -> Bytes] /\ Past \in [Images -> Nat]
    /\ \A i \in Images : First[i] < Past[i] /\ First[i] .. Past[i] - 1 \subseteq Bytes

VARIABLES image,           \* each image, see ImageState
          write_watchers,  \* of each page
          clean,           \* pages of which the buffer cache has a clean copy
          refreshing,      \* the image a refresh holds m_lock for
          upload,          \* whether that refresh has to upload
          access,          \* access[t]: the store of a guest thread
          stale,           \* history: images with a guarded byte stored to since
                           \* their upload
          unhashed         \* history: images that may be dirty with a hashed
                           \* byte stored to since the hash

historyVars == <<stale, unhashed>>
refreshVars == <<refreshing, upload>>
vars == <<image, write_watchers, clean, refreshVars, access, historyVars>>

PageNumber(a) == a \div PageSize
PageStart(a) == PageNumber(a) * PageSize
NextPage(a) == PageStart(a) + PageSize
PagesOf(first, end) == IF first < end THEN PageNumber(first) .. PageNumber(end - 1) ELSE {}
BytesOf(i) == First[i] .. Past[i] - 1

\* What HashGuestEdges reads: the bytes on pages that are not the image's own
\* from end to end.
Edges(i) == {a \in BytesOf(i) : PageStart(a) < First[i] \/ Past[i] < NextPage(a)}

\* The bytes whose stores are never missed: those on such pages, and all of an
\* image that lies within one page.
Guarded(i) ==
    IF PageNumber(First[i]) = PageNumber(Past[i] - 1) THEN BytesOf(i) ELSE BytesOf(i) \ Edges(i)

\* lo and hi are track_addr and track_addr_end, cpu, maybe and hashed the
\* flags m_cpu_dirty, m_maybe_cpu_dirty and m_maybe_hash_valid.
ImageState == [registered : BOOLEAN, lo : Nat, hi : Nat,
               cpu : BOOLEAN, maybe : BOOLEAN, hashed : BOOLEAN]
Absent == [registered |-> FALSE, lo |-> 0, hi |-> 0,
           cpu |-> FALSE, maybe |-> FALSE, hashed |-> FALSE]
NoAccess == [phase |-> "idle", at |-> 0, size |-> 1]

Init ==
    /\ image = [i \in Images |-> Absent]
    /\ write_watchers = [p \in Pages |-> 0]
    /\ clean = {} /\ refreshing = NoImage /\ upload = FALSE
    /\ access = [t \in Threads |-> NoAccess]
    /\ stale = {} /\ unhashed = {}

Tracked(im) == im.lo # 0 /\ im.hi # 0
Dirty(im) == im.cpu \/ im.maybe
MutexFree == refreshing = NoImage
-----------------------------------------------------------------------------
(* Watching and no longer watching.  Each operator gives the image after   *)
(* the call; the one named ...Pages gives the pages the call counts.       *)

TrackImagePages_Whole(i) == PagesOf(First[i], Past[i])
TrackImagePages(i) ==
    LET im == image[i]
    IN  IF ~Tracked(im) THEN PagesOf(First[i], Past[i])
        ELSE PagesOf(First[i], im.lo) \cup PagesOf(im.hi, Past[i])

TrackImage(i) == [image[i] EXCEPT !.lo = First[i], !.hi = Past[i]]

UntrackImage(im) == [im EXCEPT !.lo = 0, !.hi = 0]
UntrackImagePages(im) == IF Tracked(im) THEN PagesOf(im.lo, im.hi) ELSE {}

\* The hash is taken before the watch ends.
MarkAsMaybeDirty(im) ==
    UntrackImage(IF im.cpu THEN im ELSE [im EXCEPT !.maybe = TRUE, !.hashed = TRUE])
TakesHash_Again(im) == TRUE
TakesHash(im) == ~(im.maybe /\ im.hashed)

Emptied(im) == im.lo = im.hi

HeadTracked(i) == Tracked(image[i]) /\ First[i] >= image[i].lo
UntrackImageHead(i) ==
    LET im == [image[i] EXCEPT !.lo = NextPage(First[i])]
    IN  IF ~HeadTracked(i) THEN image[i]
        ELSE IF Emptied(im) THEN MarkAsMaybeDirty(im) ELSE im
UntrackImageHeadPages(i) ==
    IF HeadTracked(i) THEN PagesOf(First[i], NextPage(First[i])) ELSE {}

TailTracked(i) == Tracked(image[i]) /\ image[i].hi >= Past[i]
UntrackImageTail(i) ==
    LET im == [image[i] EXCEPT !.hi = PageStart(Past[i])]
    IN  IF ~TailTracked(i) THEN image[i]
        ELSE IF Emptied(im) THEN MarkAsMaybeDirty(im) ELSE im
UntrackImageTailPages(i) ==
    IF TailTracked(i) THEN PagesOf(PageStart(Past[i]), Past[i]) ELSE {}

\* What a store at a .. a + n - 1 means for image i.
Overlaps(i, a, n) == a < Past[i] /\ First[i] < a + n
PagesOverlap(i, a, n) ==
    PageNumber(First[i]) <= PageNumber(a + n - 1) /\ PageNumber(a) <= PageNumber(Past[i] - 1)
HeadCase(i, a, n) == NextPage(a + n - 1) < Past[i]
TailCase(i, a) == First[i] < PageStart(a)

FindImagesInRegion_Exact(a, n) == {i \in Images : image[i].registered /\ Overlaps(i, a, n)}
FindImagesInRegion(a, n) == {i \in Images : image[i].registered /\ PagesOverlap(i, a, n)}

Invalidated(i, a, n) ==
    IF Overlaps(i, a, n)
      THEN UntrackImage([image[i] EXCEPT !.cpu = TRUE, !.maybe = FALSE, !.hashed = FALSE])
    ELSE IF HeadCase(i, a, n) THEN UntrackImageHead(i)
    ELSE IF TailCase(i, a) THEN UntrackImageTail(i)
    ELSE MarkAsMaybeDirty(image[i])

InvalidatedPages(i, a, n) ==
    IF Overlaps(i, a, n) THEN UntrackImagePages(image[i])
    ELSE IF HeadCase(i, a, n) THEN UntrackImageHeadPages(i)
    ELSE IF TailCase(i, a) THEN UntrackImageTailPages(i)
    ELSE UntrackImagePages(image[i])
-----------------------------------------------------------------------------
(* The GPU thread *)

RegisterImage(i) ==
    /\ MutexFree /\ ~image[i].registered
    /\ image' = [image EXCEPT ![i] = [Absent EXCEPT !.registered = TRUE, !.cpu = TRUE]]
    /\ stale' = stale \cup {i}
    /\ UNCHANGED <<write_watchers, clean, refreshVars, access, unhashed>>

\* UpdatePageWatchers<true> and <false>.
Watch(pages) ==
    write_watchers' = [p \in Pages |-> write_watchers[p] + IF p \in pages THEN 1 ELSE 0]
Unwatch(pages) ==
    write_watchers' = [p \in Pages |-> write_watchers[p] - IF p \in pages THEN 1 ELSE 0]

RefreshTrack(i) ==
    /\ MutexFree /\ image[i].registered
    /\ image' = [image EXCEPT ![i] = TrackImage(i)]
    /\ Watch(TrackImagePages(i))
    /\ refreshing' = i
    /\ UNCHANGED <<clean, upload, access, historyVars>>

\* A hash that has not changed settles that the image is clean.  (The case of
\* an image without a hash does not come up, see CleanMeansCurrent.)
HashChanged(i) == i \in unhashed

RefreshDecide ==
    /\ ~MutexFree /\ ~upload
    /\ LET i == refreshing
           im == image[i]
           cpu == im.cpu \/ (im.maybe /\ HashChanged(i))
       IN  /\ image' = [image EXCEPT ![i].cpu = cpu, ![i].maybe = FALSE, ![i].hashed = FALSE]
           /\ upload' = cpu
           /\ refreshing' = IF cpu THEN i ELSE NoImage
           /\ unhashed' = unhashed \ {i}
    /\ UNCHANGED <<write_watchers, clean, access, stale>>

UploadImage ==
    /\ upload
    /\ stale' = stale \ {refreshing}
    /\ image' = [image EXCEPT ![refreshing].cpu = FALSE]
    /\ upload' = FALSE /\ refreshing' = NoImage
    /\ UNCHANGED <<write_watchers, clean, access, unhashed>>

\* The GPU writes the whole image.
MarkGpuWritten(i) ==
    /\ MutexFree /\ image[i].registered
    /\ image' = [image EXCEPT ![i] = [TrackImage(i) EXCEPT !.cpu = FALSE, !.maybe = FALSE,
                                                           !.hashed = FALSE]]
    /\ Watch(TrackImagePages(i))
    /\ stale' = stale \ {i} /\ unhashed' = unhashed \ {i}
    /\ UNCHANGED <<clean, refreshVars, access>>

UnregisterImage(i) ==
    /\ MutexFree /\ image[i].registered
    /\ image' = [image EXCEPT ![i] = Absent]
    /\ Unwatch(UntrackImagePages(image[i]))
    /\ stale' = stale \ {i} /\ unhashed' = unhashed \ {i}
    /\ UNCHANGED <<clean, refreshVars, access>>

\* The buffer cache uploads a page, as GpuMemory shows in detail.
CleanBufferPage(p) ==
    /\ p \notin clean
    /\ clean' = clean \cup {p}
    /\ Watch({p})
    /\ UNCHANGED <<image, refreshVars, access, historyVars>>
-----------------------------------------------------------------------------
(* Guest threads *)

GoTo(t, phase) == access' = [access EXCEPT ![t].phase = phase]

\* A store to byte at; size is 2 where the bytes a fault reports reach the
\* next byte of the model.
BeginStore(t, at, size) ==
    /\ access[t].phase = "idle"
    /\ at + size - 1 \in Bytes
    /\ access' = [access EXCEPT ![t] = [phase |-> "try", at |-> at, size |-> size]]
    /\ UNCHANGED <<image, write_watchers, clean, refreshVars, historyVars>>

Store(t) ==
    /\ access[t].phase = "try"
    /\ LET at == access[t].at
       IN  /\ write_watchers[PageNumber(at)] = 0
           /\ stale' = stale \cup {i \in Images : image[i].registered /\ at \in Guarded(i)}
           /\ unhashed' = unhashed \cup {i \in Images : image[i].maybe /\ at \in Edges(i)}
    /\ access' = [access EXCEPT ![t] = NoAccess]
    /\ UNCHANGED <<image, write_watchers, clean, refreshVars>>

Fault(t) ==
    /\ access[t].phase = "try" /\ write_watchers[PageNumber(access[t].at)] # 0
    /\ GoTo(t, "buffers")
    /\ UNCHANGED <<image, write_watchers, clean, refreshVars, historyVars>>

InvalidateBuffers(t) ==
    /\ access[t].phase = "buffers"
    /\ LET pages == clean \cap PagesOf(access[t].at, access[t].at + access[t].size)
       IN  clean' = clean \ pages /\ Unwatch(pages)
    /\ GoTo(t, "images")
    /\ UNCHANGED <<image, refreshVars, historyVars>>

\* InvalidateCpuAliases, then the store is tried again.
InvalidateImages(t) ==
    /\ access[t].phase = "images" /\ MutexFree
    /\ LET a == access[t].at
           n == access[t].size
           hit == FindImagesInRegion(a, n)
       IN  /\ image' = [i \in Images |-> IF i \in hit THEN Invalidated(i, a, n) ELSE image[i]]
           /\ write_watchers' = [p \in Pages |-> write_watchers[p]
                  - Cardinality({i \in hit : p \in InvalidatedPages(i, a, n)})]
           /\ unhashed' = {i \in unhashed : image'[i].maybe /\ (i \in hit => ~TakesHash(image[i]))}
    /\ GoTo(t, "try")
    /\ UNCHANGED <<clean, refreshVars, stale>>
-----------------------------------------------------------------------------
GuestStep(t) == Store(t) \/ Fault(t) \/ InvalidateBuffers(t) \/ InvalidateImages(t)

TakesWatch ==
    \/ \E i \in Images : RefreshTrack(i) \/ MarkGpuWritten(i)
    \/ \E p \in Pages : CleanBufferPage(p)

Next ==
    \/ TakesWatch \/ RefreshDecide \/ UploadImage
    \/ \E i \in Images : RegisterImage(i) \/ UnregisterImage(i)
    \/ \E t \in Threads : \/ \E a \in Bytes, n \in 1 .. 2 : BeginStore(t, a, n)
                          \/ GuestStep(t)

Spec == Init /\ [][Next]_vars

\* A refresh ends, and threads go on.
Fairness ==
    /\ WF_vars(RefreshDecide \/ UploadImage)
    /\ \A t \in Threads : WF_vars(GuestStep(t))

FairSpec == Spec /\ Fairness
-----------------------------------------------------------------------------
(* Properties *)

TypeOK ==
    /\ image \in [Images -> ImageState]
    /\ write_watchers \in [Pages -> Nat]
    /\ clean \subseteq Pages
    /\ refreshing \in Images \cup {NoImage} /\ upload \in BOOLEAN
    /\ access \in [Threads -> [phase : {"idle", "try", "buffers", "images"},
                               at : Bytes \cup {0}, size : 1 .. 2]]
    /\ stale \subseteq Images /\ unhashed \subseteq Images

\* The count of every page is the number of images whose watched range lies
\* on it and one for a clean buffer page: none is given back twice, which
\* would end the program, and none is left behind, which would keep the page
\* protected for ever.
WatchersExact ==
    \A p \in Pages :
        write_watchers[p] =
            Cardinality({i \in Images : p \in UntrackImagePages(image[i])})
            + IF p \in clean THEN 1 ELSE 0

\* An image that counts as clean has the last store to its guarded bytes, and
\* one that may be dirty has a hash from before any store that it lacks.
CleanMeansCurrent ==
    \A i \in Images : image[i].registered =>
        /\ ~Dirty(image[i]) => i \notin stale
        /\ image[i].maybe => image[i].hashed
        /\ image[i].maybe /\ i \in stale => HashChanged(i)

\* A watched range is never empty nor turned round; it ends where the image
\* ends or at a page, so that taking up the watch of the rest counts no page
\* twice.
RangesSound ==
    \A i \in Images : Tracked(image[i]) =>
        LET im == image[i]
        IN  /\ First[i] <= im.lo /\ im.lo < im.hi /\ im.hi <= Past[i]
            /\ im.lo = First[i] \/ im.lo % PageSize = 0
            /\ im.hi = Past[i] \/ im.hi % PageSize = 0

\* Counts and ranges are exact in every state.
TrackingExact == WatchersExact /\ RangesSound

\* Types, counts and ranges of TrackImage and UntrackImage and their halves.
TrackingSound == TypeOK /\ TrackingExact

\* A store that faults gets through once the GPU thread takes up no new
\* watches: the watches of all its pages' users are given back.
StoresReturn ==
    <>[][~TakesWatch]_vars =>
        \A t \in Threads : access[t].phase # "idle" ~> access[t].phase = "idle"
=============================================================================
