------------------------------ MODULE MCHostMemory ------------------------------
(***************************************************************************)
(* The coherence of buffers with guest memory and the tracking of images   *)
(* for TLC, one beside the other: a behaviour uses the part it begins with. *)
(***************************************************************************)
EXTENDS GpuMemory

CONSTANTS PageSize, ImagePages, Images, First, Past, NoImage, Storers

VARIABLES part,
          image, write_watchers, clean, refreshing, upload, store, stale, unhashed

Track == INSTANCE ImageTracking WITH Pages <- ImagePages, Threads <- Storers, access <- store

ASSUME Track!ImageTrackingAssumption

imageVars == <<image, write_watchers, clean, refreshing, upload, store, stale, unhashed>>
allVars == <<part, vars, imageVars>>

\* Buffers: a cell in each page; the fault window of the first reaches into the
\* second page.
TwoPages == {"p1", "p2"}
TwoCells == {"a", "b"}
CellPages == [c \in TwoCells |-> IF c = "b" THEN "p2" ELSE "p1"]
CellWindows == [c \in TwoCells |-> IF c = "b" THEN {"p2"} ELSE TwoPages]

\* Images: three pages of two bytes.  A large image with a page of its own, a
\* small one beside it on its first page, and one across two pages, inside the
\* large.
ImageNames == {"large", "small", "across"}
FirstBytes == [large |-> 3, small |-> 2, across |-> 3]
EndBytes == [large |-> 7, small |-> 3, across |-> 5]

MCInit == /\ part \in {"buffers", "images"} /\ Init /\ Track!Init

BufferStep == part = "buffers" /\ Next /\ UNCHANGED <<part, imageVars>>
ImageStep == part = "images" /\ Track!Next /\ UNCHANGED <<part, vars>>

MCSpec == /\ MCInit /\ [][BufferStep \/ ImageStep]_allVars
          /\ Fairness /\ Track!Fairness


\* An image that is not marked dirty holds what its memory holds, and the watches
\* on its pages are those its marks call for (TrackImage, UntrackImage).
ImagesSound == Track!TrackingSound /\ Track!CleanMeansCurrent

StoresReturn == Track!StoresReturn
=============================================================================
