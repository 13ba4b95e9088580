------------------------- MODULE MCGuestDevices_proofs -------------------------
(***************************************************************************)
(* Proofs about the guest GPU's queues, for any queues, submissions,       *)
(* programs, threads and labels; about the guest's memory, for any sizes   *)
(* of the address space and of its backing; and about the video out        *)
(* driver's ports, flip queue and frame pool, for any ports, guest         *)
(* threads, frames and bounds.                                             *)
(***************************************************************************)
EXTENDS MCGuestDevices, ListLemmas

-----------------------------------------------------------------------------
(* The invariant.                                                            *)

QueueTypes ==
    /\ queues \in [Gpu!GpuQueues -> Seq(Submissions)]
    /\ submitted \subseteq Submissions /\ submission_count \in Nat
    /\ offset \in [Submissions -> Nat] /\ started \in [Submissions -> BOOLEAN]
    /\ current \in Submissions \cup {NoSubmission}

\* A submission is in its own queue only, once.
QueuesDistinct ==
    \A q \in Gpu!GpuQueues :
        /\ IsInjective(queues[q])
        /\ \A s \in ToSet(queues[q]) : SubmissionQueueOf[s] = q

\* A submission that was started is in front, and nothing of its queue runs.
SuspendedInFront ==
    \A q \in Gpu!GpuQueues : \A i \in 1 .. Len(queues[q]) :
        started[queues[q][i]] =>
            i = 1 /\ (current # NoSubmission => SubmissionQueueOf[current] # q)

\* How far programs are, and where the one in progress comes from.
OffsetsRight ==
    /\ \A s \in Submissions : /\ offset[s] <= Len(Program[s])
                              /\ s \notin submitted => offset[s] = 0 /\ ~started[s]
    /\ current # NoSubmission => current \in submitted

QueuesInv == QueueTypes /\ QueuesDistinct /\ Gpu!NothingLost /\ SuspendedInFront /\ OffsetsRight

Holding == {"slice", "packet", "test", "finish"}

\* What the GPU thread has in hand at every place.
ThreadInv ==
    /\ gpuAt \in Gpu!Phases /\ processing \in BOOLEAN /\ stopping \in BOOLEAN
    /\ current # NoSubmission <=> gpuAt \in Holding
    /\ processing <=> gpuAt \in Holding \cup {"command"}
    /\ gpuAt = "packet" => ~Gpu!Complete(current)
    /\ gpuAt = "test" => Gpu!AtWait(current)
    /\ gpuAt = "command" => commands # <<>>
    /\ gpuAt = "stopped" => stopping /\ Gpu!NoWork

\* A thread in SendCommandSync has its one command in the list.
CommandsInv ==
    /\ commands \in Seq(Threads) /\ IsInjective(commands)
    /\ caller \in [Threads -> {"none", "sync", "done"}]
    /\ \A t \in Threads : t \in ToSet(commands) <=> caller[t] = "sync"

OtherTypes ==
    /\ memory \in [Labels -> Values] /\ waiters \subseteq Gpu!Waiter /\ frame \in Nat
    /\ next_queue \in Gpu!GpuQueues
    /\ blocked \in [Submissions -> BOOLEAN] /\ progress \in BOOLEAN
    /\ seen \in [Submissions -> BOOLEAN] /\ latch_seen \in BOOLEAN

GpuInv == QueuesInv /\ ThreadInv /\ CommandsInv /\ OtherTypes
-----------------------------------------------------------------------------
(* What the queues hold.                                                     *)

LEMMA GpuConstants ==
    ASSUME Gpu!GuestGpuAssumption
    PROVE  /\ QueueCount \in Nat \ {0} /\ 0 \in Gpu!GpuQueues
           /\ IsFiniteSet(Submissions) /\ NoSubmission \notin Submissions
           /\ SubmissionQueueOf \in [Submissions -> Gpu!GpuQueues]
           /\ \A s \in Submissions : /\ Program[s] \in Seq(Gpu!Packet) /\ Program[s] # <<>>
                                     /\ Len(Program[s]) \in Nat \ {0}
  <1>1. IsFiniteSet(Submissions)
    BY Zenon DEF Gpu!GuestGpuAssumption, Gpu!IsFiniteSet, IsFiniteSet
  <1>2. /\ QueueCount \in Nat \ {0} /\ NoSubmission \notin Submissions
        /\ SubmissionQueueOf \in [Submissions -> Gpu!GpuQueues]
        /\ \A s \in Submissions : Program[s] \in Seq(Gpu!Packet) /\ Program[s] # <<>>
    BY DEF Gpu!GuestGpuAssumption
  <1>3. 0 \in Gpu!GpuQueues
    BY <1>2 DEF Gpu!GpuQueues
  <1>4. \A s \in Submissions : Len(Program[s]) \in Nat \ {0}
    BY <1>2, EmptySeq
  <1> QED
    BY <1>1, <1>2, <1>3, <1>4

LEMMA GpuCount ==
    ASSUME NEW S, IsFiniteSet(S)
    PROVE  Gpu!Cardinality(S) = Cardinality(S) /\ Cardinality(S) \in Nat
  BY FS_CardinalityType DEF Gpu!Cardinality, Cardinality

LEMMA QueuedMembers ==
    /\ \A s : s \in Gpu!Queued <=> \E q \in Gpu!GpuQueues : s \in ToSet(queues[q])
    /\ \A s : s \in Gpu!Queued' <=> \E q \in Gpu!GpuQueues : s \in ToSet(queues'[q])
  BY DEF Gpu!Queued, ToSet

LEMMA QueuedFinite ==
    ASSUME Gpu!GuestGpuAssumption, QueueTypes
    PROVE  IsFiniteSet(Gpu!Queued) /\ Cardinality(Gpu!Queued) \in Nat
  <1>1. \A q \in Gpu!GpuQueues : ToSet(queues[q]) \subseteq Submissions
    BY ElementOfSeq, LenProperties DEF QueueTypes, ToSet
  <1>2. Gpu!Queued \subseteq Submissions
    BY <1>1, QueuedMembers
  <1>3. IsFiniteSet(Gpu!Queued)
    BY <1>2, GpuConstants, FS_Subset
  <1> QED
    BY <1>3, FS_CardinalityType

\* A submission comes into its queue, at whichever end.
LEMMA QueueGets ==
    ASSUME Gpu!GuestGpuAssumption, QueueTypes, QueuesDistinct,
           NEW q \in Gpu!GpuQueues, NEW list \in Seq(Submissions), IsInjective(list),
           NEW s \in Submissions, SubmissionQueueOf[s] = q, s \notin ToSet(queues[q]),
           ToSet(list) = ToSet(queues[q]) \cup {s},
           queues' = [queues EXCEPT ![q] = list]
    PROVE  /\ queues' \in [Gpu!GpuQueues -> Seq(Submissions)] /\ QueuesDistinct'
           /\ queues'[q] = list
           /\ \A p \in Gpu!GpuQueues : p # q => queues'[p] = queues[p]
           /\ s \notin Gpu!Queued /\ Gpu!Queued' = Gpu!Queued \cup {s}
           /\ Cardinality(Gpu!Queued') = Cardinality(Gpu!Queued) + 1
  <1>1. /\ queues' \in [Gpu!GpuQueues -> Seq(Submissions)]
        /\ queues'[q] = list /\ \A p \in Gpu!GpuQueues : p # q => queues'[p] = queues[p]
    BY DEF QueueTypes
  <1>2. QueuesDistinct'
    BY <1>1 DEF QueuesDistinct
  <1>3. s \notin Gpu!Queued
    BY QueuedMembers DEF QueuesDistinct
  <1>4. Gpu!Queued' = Gpu!Queued \cup {s}
    BY <1>1, QueuedMembers
  <1>5. Cardinality(Gpu!Queued') = Cardinality(Gpu!Queued) + 1
    BY <1>3, <1>4, QueuedFinite, FS_AddElement
  <1> QED
    BY <1>1, <1>2, <1>3, <1>4, <1>5

\* A submission leaves its queue.
LEMMA QueueLoses ==
    ASSUME Gpu!GuestGpuAssumption, QueueTypes, QueuesDistinct,
           NEW q \in Gpu!GpuQueues, NEW list \in Seq(Submissions), IsInjective(list),
           NEW s \in ToSet(queues[q]), ToSet(list) = ToSet(queues[q]) \ {s},
           queues' = [queues EXCEPT ![q] = list]
    PROVE  /\ queues' \in [Gpu!GpuQueues -> Seq(Submissions)] /\ QueuesDistinct'
           /\ queues'[q] = list
           /\ \A p \in Gpu!GpuQueues : p # q => queues'[p] = queues[p]
           /\ s \in Gpu!Queued /\ Gpu!Queued' = Gpu!Queued \ {s}
           /\ Cardinality(Gpu!Queued') = Cardinality(Gpu!Queued) - 1
  <1>1. /\ queues' \in [Gpu!GpuQueues -> Seq(Submissions)]
        /\ queues'[q] = list /\ \A p \in Gpu!GpuQueues : p # q => queues'[p] = queues[p]
    BY DEF QueueTypes
  <1>2. QueuesDistinct'
    BY <1>1 DEF QueuesDistinct
  <1>3. s \in Gpu!Queued
    BY QueuedMembers
  <1>4. \A p \in Gpu!GpuQueues : s \in ToSet(queues[p]) => p = q
    BY DEF QueuesDistinct
  <1>5. Gpu!Queued' = Gpu!Queued \ {s}
    BY <1>1, <1>4, QueuedMembers
  <1>6. Cardinality(Gpu!Queued') = Cardinality(Gpu!Queued) - 1
    BY <1>3, <1>5, QueuedFinite, FS_RemoveElement
  <1> QED
    BY <1>1, <1>2, <1>3, <1>5, <1>6

\* What is left to show of the queues' invariant once its lists are known.
LEMMA QueuesKept ==
    ASSUME Gpu!GuestGpuAssumption, QueueTypes', QueuesDistinct',
           \A s : s \in Gpu!Queued' <=> s \in submitted' /\ s # current' /\ offset'[s] # Len(Program[s]),
           submission_count' = Cardinality(Gpu!Queued'),
           SuspendedInFront', OffsetsRight'
    PROVE  QueuesInv'
  <1>1. IsFiniteSet(Gpu!Queued')
    <2>1. \A q \in Gpu!GpuQueues : ToSet(queues'[q]) \subseteq Submissions
      BY ElementOfSeq, LenProperties DEF QueueTypes, ToSet
    <2>2. Gpu!Queued' \subseteq Submissions
      BY <2>1, QueuedMembers
    <2> QED
      BY <2>2, GpuConstants, FS_Subset
  <1>2. Gpu!Cardinality(Gpu!Queued') = submission_count'
    BY <1>1, GpuCount
  <1>3. Gpu!NothingLost'
    BY <1>2 DEF Gpu!NothingLost, Gpu!Complete
  <1> QED
    BY <1>3 DEF QueuesInv

LEMMA QueuesHold ==
    ASSUME Gpu!GuestGpuAssumption, QueuesInv
    PROVE  /\ QueueTypes /\ QueuesDistinct /\ SuspendedInFront /\ OffsetsRight
           /\ \A s : s \in Gpu!Queued <=> s \in submitted /\ s # current /\ offset[s] # Len(Program[s])
           /\ submission_count = Cardinality(Gpu!Queued) /\ submission_count \in Nat
  <1>1. QueueTypes /\ QueuesDistinct /\ SuspendedInFront /\ OffsetsRight /\ Gpu!NothingLost
    BY DEF QueuesInv
  <1>2. submission_count = Cardinality(Gpu!Queued)
    BY <1>1, QueuedFinite, GpuCount DEF Gpu!NothingLost
  <1> QED
    BY <1>1, <1>2 DEF Gpu!NothingLost, Gpu!Complete, QueueTypes
-----------------------------------------------------------------------------
(* The steps of a submission.                                                *)

LEMMA SubmitsKeep ==
    ASSUME Gpu!GuestGpuAssumption, QueuesInv, NEW s \in Submissions, s \notin submitted,
           queues' = [queues EXCEPT ![SubmissionQueueOf[s]] = Append(@, s)],
           submitted' = submitted \cup {s}, submission_count' = submission_count + 1,
           UNCHANGED <<offset, started, current>>
    PROVE  QueuesInv'
  <1> DEFINE q == SubmissionQueueOf[s]
             list == Append(queues[q], s)
  <1>1. /\ QueueTypes /\ QueuesDistinct /\ SuspendedInFront /\ OffsetsRight
        /\ \A x : x \in Gpu!Queued <=> x \in submitted /\ x # current /\ offset[x] # Len(Program[x])
        /\ submission_count = Cardinality(Gpu!Queued) /\ submission_count \in Nat
    BY QueuesHold
  <1>2. q \in Gpu!GpuQueues /\ Len(Program[s]) \in Nat \ {0}
    BY GpuConstants
  <1> HIDE DEF q
  <1>3. queues[q] \in Seq(Submissions) /\ IsInjective(queues[q]) /\ s \notin ToSet(queues[q])
    BY <1>1, <1>2, QueuedMembers DEF QueueTypes, QueuesDistinct
  <1>4. /\ list \in Seq(Submissions) /\ IsInjective(list)
        /\ ToSet(list) = ToSet(queues[q]) \cup {s}
    BY <1>3, Appended
  <1>5. /\ Len(list) = Len(queues[q]) + 1 /\ list[Len(queues[q]) + 1] = s
        /\ \A i \in 1 .. Len(queues[q]) : list[i] = queues[q][i]
    BY <1>3, AppendProperties
  <1>6. queues' = [queues EXCEPT ![q] = list] /\ SubmissionQueueOf[s] = q
    BY DEF q
  <1> HIDE DEF list
  <1>7. /\ queues' \in [Gpu!GpuQueues -> Seq(Submissions)] /\ QueuesDistinct' /\ queues'[q] = list
        /\ \A p \in Gpu!GpuQueues : p # q => queues'[p] = queues[p]
        /\ Gpu!Queued' = Gpu!Queued \cup {s}
        /\ Cardinality(Gpu!Queued') = Cardinality(Gpu!Queued) + 1
    BY <1>1, <1>2, <1>3, <1>4, <1>6, QueueGets
  <1>8. s # current /\ offset[s] = 0 /\ ~started[s]
    <2>1. s # NoSubmission
      BY GpuConstants
    <2> QED
      BY <1>1, <2>1 DEF OffsetsRight
  <1>9. QueueTypes'
    BY <1>1, <1>7 DEF QueueTypes
  <1>10. \A x : x \in Gpu!Queued' <=> x \in submitted' /\ x # current' /\ offset'[x] # Len(Program[x])
    BY <1>1, <1>2, <1>7, <1>8
  <1>11. SuspendedInFront'
    <2>1. Len(queues[q]) \in Nat
      BY <1>3, LenProperties
    <2>2. ASSUME NEW i \in 1 .. Len(list), started[list[i]]
          PROVE  i = 1 /\ (current # NoSubmission => SubmissionQueueOf[current] # q)
      <3>1. i \in 1 .. Len(queues[q])
        BY <1>5, <1>8, <2>1, <2>2
      <3>2. started[queues[q][i]]
        BY <1>5, <2>2, <3>1
      <3> QED
        BY <1>1, <1>2, <3>1, <3>2 DEF SuspendedInFront
    <2> QED
      BY <1>1, <1>7, <2>2 DEF SuspendedInFront
  <1>12. OffsetsRight'
    BY <1>1 DEF OffsetsRight
  <1> QED
    BY <1>1, <1>7, <1>9, <1>10, <1>11, <1>12, QueuesKept

\* The queue chosen is one of those that can be: the search ends.
LEMMA SelectedExists ==
    ASSUME Gpu!GuestGpuAssumption, next_queue \in Gpu!GpuQueues, Gpu!Selectable # {}
    PROVE  Gpu!Selected \in Gpu!Selectable
  <1> DEFINE distance(q) == (q - next_queue) % QueueCount
             T == {distance(q) : q \in Gpu!Selectable}
  <1>1. QueueCount \in Nat \ {0} /\ Gpu!Selectable \subseteq Gpu!GpuQueues
    BY GpuConstants DEF Gpu!Selectable
  <1>2. \A q \in Gpu!Selectable : distance(q) \in Nat
    <2> SUFFICES ASSUME NEW q \in Gpu!Selectable PROVE distance(q) \in Nat
      OBVIOUS
    <2>1. q - next_queue \in Int /\ QueueCount \in Nat /\ QueueCount > 0
      BY <1>1 DEF Gpu!GpuQueues
    <2> QED
      BY <2>1
  <1> HIDE DEF distance
  <1>3. T \in SUBSET Nat /\ T # {}
    BY <1>2
  <1>4. PICK n \in T : \A m \in T : n <= m
    BY <1>3, LeastNatural
  <1>5. \E q \in Gpu!Selectable : \A p \in Gpu!Selectable : distance(q) <= distance(p)
    BY <1>4
  <1> QED
    BY <1>5 DEF Gpu!Selected, distance

\* The GPU thread takes the front of a queue.
LEMMA TakesKeep ==
    ASSUME Gpu!GuestGpuAssumption, QueuesInv, NEW q \in Gpu!GpuQueues, queues[q] # <<>>,
           current = NoSubmission, NEW s, s = Head(queues[q]), current' = s,
           queues' = [queues EXCEPT ![q] = Tail(@)],
           started' = [started EXCEPT ![s] = TRUE],
           submission_count' = submission_count - 1,
           UNCHANGED <<offset, submitted>>
    PROVE  QueuesInv' /\ s \in Submissions /\ s # NoSubmission
  <1> DEFINE list == Tail(queues[q])
  <1>1. /\ QueueTypes /\ QueuesDistinct /\ SuspendedInFront /\ OffsetsRight
        /\ \A x : x \in Gpu!Queued <=> x \in submitted /\ x # current /\ offset[x] # Len(Program[x])
        /\ submission_count = Cardinality(Gpu!Queued) /\ submission_count \in Nat
    BY QueuesHold
  <1>2. queues[q] \in Seq(Submissions) /\ IsInjective(queues[q])
    BY <1>1 DEF QueueTypes, QueuesDistinct
  <1>3. /\ s \in ToSet(queues[q]) /\ list \in Seq(Submissions) /\ IsInjective(list)
        /\ Len(list) = Len(queues[q]) - 1
        /\ \A i \in 1 .. Len(queues[q]) - 1 : list[i] = queues[q][i + 1]
        /\ ToSet(list) = ToSet(queues[q]) \ {s}
    BY <1>2, Popped
  <1> HIDE DEF list
  <1>4. queues' = [queues EXCEPT ![q] = list]
    BY DEF list
  <1>5. /\ queues' \in [Gpu!GpuQueues -> Seq(Submissions)] /\ QueuesDistinct' /\ queues'[q] = list
        /\ \A p \in Gpu!GpuQueues : p # q => queues'[p] = queues[p]
        /\ s \in Gpu!Queued /\ Gpu!Queued' = Gpu!Queued \ {s}
        /\ Cardinality(Gpu!Queued') = Cardinality(Gpu!Queued) - 1
    BY <1>1, <1>3, <1>4, QueueLoses
  <1>6. s \in submitted /\ s \in Submissions /\ s # NoSubmission
    BY <1>1, <1>5, GpuConstants DEF QueueTypes
  <1>7. /\ started' \in [Submissions -> BOOLEAN]
        /\ \A x \in Submissions : x # s => started'[x] = started[x]
    BY <1>1 DEF QueueTypes
  <1>8. submission_count' \in Nat /\ submission_count' = Cardinality(Gpu!Queued')
    <2>1. submission_count # 0
      <3>1. IsFiniteSet(Gpu!Queued)
        BY <1>1, QueuedFinite
      <3> QED
        BY <1>1, <1>5, <3>1, FS_EmptySet
    <2> QED
      BY <1>1, <1>5, <2>1
  <1>9. QueueTypes'
    BY <1>1, <1>5, <1>6, <1>7, <1>8 DEF QueueTypes
  <1>10. \A x : x \in Gpu!Queued' <=> x \in submitted' /\ x # current' /\ offset'[x] # Len(Program[x])
    <2>1. \A x \in submitted : x # current
      BY <1>1, GpuConstants DEF QueueTypes
    <2>2. submitted' = submitted /\ offset' = offset /\ current' = s
      OBVIOUS
    <2> QED
      BY <1>1, <1>5, <2>1, <2>2
  <1>11. SuspendedInFront'
    <2>1. SubmissionQueueOf[s] = q
      BY <1>1, <1>3 DEF QueuesDistinct
    <2>2. ASSUME NEW i \in 1 .. Len(list) PROVE ~started'[list[i]]
      <3>1. Len(queues[q]) \in Nat
        BY <1>2, LenProperties
      <3>2. i + 1 \in 1 .. Len(queues[q]) /\ i + 1 # 1 /\ list[i] = queues[q][i + 1]
        BY <1>3, <3>1
      <3>3. ~started[list[i]]
        BY <1>1, <3>2 DEF SuspendedInFront
      <3>4. list[i] \in ToSet(list)
        BY <1>3, LenProperties DEF ToSet
      <3>5. list[i] # s /\ list[i] \in Submissions
        BY <1>3, <3>4, ElementOfSeq
      <3> QED
        BY <1>7, <3>3, <3>5
    <2>3. ASSUME NEW p \in Gpu!GpuQueues, p # q, NEW i \in 1 .. Len(queues[p]), started'[queues[p][i]]
          PROVE  i = 1
      <3>1. queues[p] \in Seq(Submissions) /\ queues[p][i] \in ToSet(queues[p])
        BY <1>1, LenProperties DEF QueueTypes, ToSet
      <3>2. queues[p][i] # s /\ queues[p][i] \in Submissions
        BY <1>1, <2>1, <2>3, <3>1, ElementOfSeq DEF QueuesDistinct
      <3> QED
        BY <1>1, <1>7, <2>3, <3>2 DEF SuspendedInFront
    <2> QED
      BY <1>5, <2>1, <2>2, <2>3 DEF SuspendedInFront
  <1>12. OffsetsRight'
    BY <1>1, <1>6, <1>7 DEF OffsetsRight
  <1> QED
    BY <1>5, <1>6, <1>8, <1>9, <1>10, <1>11, <1>12, QueuesKept

\* A submission that is not through goes back to the front.
LEMMA RequeueKeeps ==
    ASSUME Gpu!GuestGpuAssumption, QueuesInv, NEW s \in Submissions, s = current,
           ~Gpu!Complete(s),
           queues' = [queues EXCEPT ![SubmissionQueueOf[s]] = <<s>> \o @],
           submission_count' = submission_count + 1, current' = NoSubmission,
           UNCHANGED <<offset, submitted, started>>
    PROVE  QueuesInv'
  <1> DEFINE q == SubmissionQueueOf[s]
             list == <<s>> \o queues[q]
  <1>1. /\ QueueTypes /\ QueuesDistinct /\ SuspendedInFront /\ OffsetsRight
        /\ \A x : x \in Gpu!Queued <=> x \in submitted /\ x # current /\ offset[x] # Len(Program[x])
        /\ submission_count = Cardinality(Gpu!Queued) /\ submission_count \in Nat
    BY QueuesHold
  <1>2. q \in Gpu!GpuQueues /\ s # NoSubmission
    BY GpuConstants
  <1> HIDE DEF q
  <1>3. queues[q] \in Seq(Submissions) /\ IsInjective(queues[q]) /\ s \notin ToSet(queues[q])
    BY <1>1, <1>2, QueuedMembers DEF QueueTypes, QueuesDistinct
  <1>4. /\ list \in Seq(Submissions) /\ IsInjective(list)
        /\ Len(list) = Len(queues[q]) + 1 /\ list[1] = s
        /\ \A i \in 2 .. Len(queues[q]) + 1 : list[i] = queues[q][i - 1]
        /\ ToSet(list) = ToSet(queues[q]) \cup {s}
    BY <1>3, Pushed
  <1>5. queues' = [queues EXCEPT ![q] = list] /\ SubmissionQueueOf[s] = q
    BY DEF q
  <1> HIDE DEF list
  <1>6. /\ queues' \in [Gpu!GpuQueues -> Seq(Submissions)] /\ QueuesDistinct' /\ queues'[q] = list
        /\ \A p \in Gpu!GpuQueues : p # q => queues'[p] = queues[p]
        /\ Gpu!Queued' = Gpu!Queued \cup {s}
        /\ Cardinality(Gpu!Queued') = Cardinality(Gpu!Queued) + 1
    <2>1. QueueTypes /\ QueuesDistinct
      BY <1>1
    <2>2. list \in Seq(Submissions) /\ IsInjective(list) /\ ToSet(list) = ToSet(queues[q]) \cup {s}
      BY <1>4
    <2> QED
      BY <1>2, <1>3, <1>5, <2>1, <2>2, QueueGets
  <1>7. QueueTypes'
    BY <1>1, <1>6 DEF QueueTypes
  <1>8. \A x : x \in Gpu!Queued' <=> x \in submitted' /\ x # current' /\ offset'[x] # Len(Program[x])
    <2>1. s \in submitted /\ offset[s] # Len(Program[s])
      BY <1>1, <1>2 DEF OffsetsRight, Gpu!Complete
    <2>2. \A x \in submitted : x # NoSubmission
      BY <1>1, GpuConstants DEF QueueTypes
    <2>3. submitted' = submitted /\ offset' = offset /\ current' = NoSubmission
      OBVIOUS
    <2> QED
      BY <1>1, <1>6, <2>1, <2>2, <2>3
  <1>9. SuspendedInFront'
    <2>1. ASSUME NEW i \in 1 .. Len(list), started[list[i]] PROVE i = 1
      <3>1. Len(queues[q]) \in Nat
        BY <1>3, LenProperties
      <3>2. CASE i # 1
        <4>1. i \in 2 .. Len(queues[q]) + 1 /\ i - 1 \in 1 .. Len(queues[q])
          BY <1>4, <3>1, <3>2
        <4>2. started[queues[q][i - 1]]
          BY <1>4, <2>1, <4>1
        <4>3. SubmissionQueueOf[current] # q
          BY <1>1, <1>2, <4>1, <4>2 DEF SuspendedInFront
        <4> QED
          BY <1>5, <4>3
      <3> QED
        BY <3>2
    <2>2. ASSUME NEW p \in Gpu!GpuQueues, p # q, NEW i \in 1 .. Len(queues[p]), started[queues[p][i]]
          PROVE  i = 1
      BY <1>1, <2>2 DEF SuspendedInFront
    <2> QED
      BY <1>6, <2>1, <2>2 DEF SuspendedInFront
  <1>10. OffsetsRight'
    BY <1>1 DEF OffsetsRight
  <1> QED
    BY <1>1, <1>6, <1>7, <1>8, <1>9, <1>10, QueuesKept

\* One that is through is in nobody's hands any more.
LEMMA RetireKeeps ==
    ASSUME Gpu!GuestGpuAssumption, QueuesInv, current \in Submissions, Gpu!Complete(current),
           current' = NoSubmission,
           UNCHANGED <<queues, submission_count, offset, submitted, started>>
    PROVE  QueuesInv'
  <1>1. /\ QueueTypes /\ QueuesDistinct /\ SuspendedInFront /\ OffsetsRight
        /\ \A x : x \in Gpu!Queued <=> x \in submitted /\ x # current /\ offset[x] # Len(Program[x])
        /\ submission_count = Cardinality(Gpu!Queued) /\ submission_count \in Nat
    BY QueuesHold
  <1>2. Gpu!Queued' = Gpu!Queued /\ QueuesDistinct' /\ QueueTypes'
    BY <1>1 DEF Gpu!Queued, QueuesDistinct, QueueTypes
  <1>3. \A x : x \in Gpu!Queued' <=> x \in submitted' /\ x # current' /\ offset'[x] # Len(Program[x])
    <2>1. \A x \in submitted : x # NoSubmission
      BY <1>1, GpuConstants DEF QueueTypes
    <2>2. submitted' = submitted /\ offset' = offset /\ current' = NoSubmission
      OBVIOUS
    <2> QED
      BY <1>1, <1>2, <2>1, <2>2 DEF Gpu!Complete
  <1>4. SuspendedInFront' /\ OffsetsRight'
    BY <1>1 DEF SuspendedInFront, OffsetsRight
  <1> QED
    BY <1>1, <1>2, <1>3, <1>4, QueuesKept

\* A packet is done.
LEMMA AdvanceKeeps ==
    ASSUME Gpu!GuestGpuAssumption, QueuesInv, current \in Submissions, ~Gpu!Complete(current),
           offset' = [offset EXCEPT ![current] = @ + 1],
           UNCHANGED <<queues, submission_count, current, submitted, started>>
    PROVE  QueuesInv'
  <1>1. /\ QueueTypes /\ QueuesDistinct /\ SuspendedInFront /\ OffsetsRight
        /\ \A x : x \in Gpu!Queued <=> x \in submitted /\ x # current /\ offset[x] # Len(Program[x])
        /\ submission_count = Cardinality(Gpu!Queued) /\ submission_count \in Nat
    BY QueuesHold
  <1>2. /\ offset' \in [Submissions -> Nat] /\ offset'[current] = offset[current] + 1
        /\ \A x \in Submissions : x # current => offset'[x] = offset[x]
    BY <1>1 DEF QueueTypes
  <1>3. offset'[current] <= Len(Program[current])
    <2>1. offset[current] \in Nat /\ Len(Program[current]) \in Nat /\ offset[current] <= Len(Program[current])
      BY <1>1, GpuConstants DEF QueueTypes, OffsetsRight
    <2>2. offset[current] # Len(Program[current])
      BY DEF Gpu!Complete
    <2> QED
      BY <1>2, <2>1, <2>2
  <1>4. Gpu!Queued' = Gpu!Queued /\ QueuesDistinct' /\ QueueTypes'
    BY <1>1, <1>2 DEF Gpu!Queued, QueuesDistinct, QueueTypes
  <1>5. \A x : x \in Gpu!Queued' <=> x \in submitted' /\ x # current' /\ offset'[x] # Len(Program[x])
    <2>1. submitted' = submitted /\ current' = current /\ submitted \subseteq Submissions
      BY <1>1 DEF QueueTypes
    <2>2. \A x \in submitted : x # current => offset'[x] = offset[x]
      BY <1>2, <2>1
    <2> QED
      BY <1>1, <1>4, <2>1, <2>2
  <1>6. SuspendedInFront'
    BY <1>1 DEF SuspendedInFront
  <1>7. OffsetsRight'
    <2>1. current \in submitted
      BY <1>1, GpuConstants DEF OffsetsRight
    <2>2. ASSUME NEW x \in Submissions
          PROVE  /\ offset'[x] <= Len(Program[x])
                 /\ x \notin submitted => offset'[x] = 0 /\ ~started[x]
      BY <1>1, <1>2, <1>3, <2>1 DEF OffsetsRight
    <2> QED
      BY <2>1, <2>2 DEF OffsetsRight
  <1> QED
    BY <1>1, <1>4, <1>5, <1>6, <1>7, QueuesKept

LEMMA QueuesSame ==
    ASSUME QueuesInv, UNCHANGED <<queues, submission_count, current, offset, submitted, started>>
    PROVE  QueuesInv'
  BY DEF QueuesInv, QueueTypes, QueuesDistinct, Gpu!NothingLost, Gpu!Queued, Gpu!Complete,
     SuspendedInFront, OffsetsRight
-----------------------------------------------------------------------------
(* The registry and the packets.                                             *)

LEMMA RegistryKeeps ==
    ASSUME waiters \subseteq Gpu!Waiter, frame \in Nat, NEW a \in Labels
    PROVE  /\ \A v \in Values : Gpu!AfterProduced(waiters, a, v) \subseteq Gpu!Waiter
           /\ \A c \in SUBSET Values : Gpu!AfterRegister(waiters, a, c) \subseteq Gpu!Waiter
  <1>1. ASSUME NEW v \in Values, NEW w \in waiters
        PROVE  [w EXCEPT !.last_produced = v, !.produced_frame = frame,
                         !.latched = @ \/ v \in w.accepts] \in Gpu!Waiter
    BY <1>1 DEF Gpu!Waiter
  <1>2. ASSUME NEW v \in Values PROVE Gpu!AfterProduced(waiters, a, v) \subseteq Gpu!Waiter
    BY <1>1 DEF Gpu!AfterProduced
  <1>3. ASSUME NEW w \in waiters PROVE [w EXCEPT !.latched = FALSE] \in Gpu!Waiter
    BY DEF Gpu!Waiter
  <1>4. ASSUME NEW c \in SUBSET Values PROVE Gpu!NewWaiter(a, c) \in Gpu!Waiter
    BY DEF Gpu!NewWaiter, Gpu!Waiter
  <1>5. ASSUME NEW c \in SUBSET Values PROVE Gpu!AfterRegister(waiters, a, c) \subseteq Gpu!Waiter
    BY <1>3, <1>4 DEF Gpu!AfterRegister, Gpu!WaiterOf
  <1> QED
    BY <1>2, <1>5

\* The packet in front of a program that is not through.
LEMMA PacketThere ==
    ASSUME Gpu!GuestGpuAssumption, QueuesInv, NEW s \in Submissions, ~Gpu!Complete(s)
    PROVE  Gpu!PacketOf(s) \in Gpu!Packet
  <1>1. offset[s] \in Nat /\ offset[s] <= Len(Program[s]) /\ offset[s] # Len(Program[s])
    BY DEF QueuesInv, QueueTypes, OffsetsRight, Gpu!Complete
  <1>2. Program[s] \in Seq(Gpu!Packet) /\ Len(Program[s]) \in Nat
    BY GpuConstants
  <1>3. offset[s] + 1 \in 1 .. Len(Program[s])
    BY <1>1, <1>2
  <1> QED
    BY <1>2, <1>3, ElementOfSeq DEF Gpu!PacketOf

LEMMA ObserveKeeps ==
    ASSUME seen \in [Submissions -> BOOLEAN], NEW mem, Gpu!Observe(mem)
    PROVE  seen' \in [Submissions -> BOOLEAN]
  BY DEF Gpu!Observe

\* What a step on a packet of the current submission relies on.
LEMMA ThreadHolds ==
    ASSUME Gpu!GuestGpuAssumption, GpuInv
    PROVE  /\ QueuesInv /\ ThreadInv /\ CommandsInv /\ OtherTypes
           /\ current # NoSubmission => current \in Submissions
           /\ gpuAt \in Holding => current \in Submissions /\ processing
           /\ gpuAt \in {"packet", "test"} => ~Gpu!Complete(current)
  BY DEF GpuInv, QueuesInv, QueueTypes, ThreadInv, Gpu!AtWait, Holding
-----------------------------------------------------------------------------
(* Guest threads.                                                            *)

LEMMA GuestKeeps ==
    ASSUME Gpu!GuestGpuAssumption, GpuInv, Gpu!Guest
    PROVE  GpuInv'
  <1> USE DEF Gpu!registryVars, Gpu!queueVars, Gpu!threadVars, Gpu!historyVars, Gpu!guestVars
  <1>1. QueuesInv /\ ThreadInv /\ CommandsInv /\ OtherTypes
    BY ThreadHolds
  <1>2. ASSUME NEW t \in Threads, NEW s \in Submissions, Gpu!Submit(t, s)
        PROVE  GpuInv'
    <2>1. QueuesInv'
      <3>1. /\ s \notin submitted /\ queues' = [queues EXCEPT ![SubmissionQueueOf[s]] = Append(@, s)]
            /\ submitted' = submitted \cup {s} /\ submission_count' = submission_count + 1
            /\ UNCHANGED <<offset, started, current>>
        BY <1>2 DEF Gpu!Submit
      <3> QED
        BY <1>1, <3>1, SubmitsKeep
    <2>2. ThreadInv'
      BY <1>1, <1>2 DEF Gpu!Submit, ThreadInv, Gpu!Complete, Gpu!AtWait, Gpu!PacketOf
    <2>3. CommandsInv' /\ OtherTypes'
      BY <1>1, <1>2 DEF Gpu!Submit, CommandsInv, OtherTypes
    <2> QED
      BY <2>1, <2>2, <2>3 DEF GpuInv
  <1>3. ASSUME NEW t \in Threads, Gpu!DoneBegin(t) \/ Gpu!DoneReturn(t)
        PROVE  GpuInv'
    <2>1. QueuesInv'
      BY <1>1, <1>3, QueuesSame DEF Gpu!DoneBegin, Gpu!DoneReturn
    <2>2. ThreadInv' /\ OtherTypes'
      BY <1>1, <1>3 DEF Gpu!DoneBegin, Gpu!DoneReturn, ThreadInv, Gpu!Complete, Gpu!AtWait,
         Gpu!PacketOf, Gpu!NoWork, OtherTypes
    <2>3. CommandsInv'
      BY <1>1, <1>3 DEF Gpu!DoneBegin, Gpu!DoneReturn, CommandsInv
    <2> QED
      BY <2>1, <2>2, <2>3 DEF GpuInv
  <1>4. ASSUME NEW t \in Threads, Gpu!SendCommandSync(t)
        PROVE  GpuInv'
    <2>1. QueuesInv'
      BY <1>1, <1>4, QueuesSame DEF Gpu!SendCommandSync
    <2>2. commands' = Append(commands, t) /\ caller' = [caller EXCEPT ![t] = "sync"]
          /\ caller[t] = "none" /\ ~stopping
      BY <1>4 DEF Gpu!SendCommandSync
    <2>3. /\ commands' \in Seq(Threads) /\ commands' # <<>> /\ IsInjective(commands')
          /\ ToSet(commands') = ToSet(commands) \cup {t}
      BY <1>1, <2>2, Appended DEF CommandsInv
    <2>4. CommandsInv'
      BY <1>1, <2>2, <2>3 DEF CommandsInv
    <2>5. ThreadInv'
      BY <1>1, <1>4, <2>3 DEF Gpu!SendCommandSync, ThreadInv, Gpu!Complete, Gpu!AtWait, Gpu!PacketOf
    <2>6. OtherTypes'
      BY <1>1, <1>4 DEF Gpu!SendCommandSync, OtherTypes
    <2> QED
      BY <2>1, <2>4, <2>5, <2>6 DEF GpuInv
  <1>5. ASSUME NEW l \in Labels, NEW v \in Values, Gpu!Store(l, v)
        PROVE  GpuInv'
    <2>1. QueuesInv'
      BY <1>1, <1>5, QueuesSame DEF Gpu!Store
    <2>2. ThreadInv' /\ CommandsInv'
      BY <1>1, <1>5 DEF Gpu!Store, ThreadInv, Gpu!Complete, Gpu!AtWait, Gpu!PacketOf, Gpu!NoWork,
         CommandsInv
    <2>3. seen' \in [Submissions -> BOOLEAN]
      BY <1>1, <1>5, ObserveKeeps DEF Gpu!Store, OtherTypes
    <2>4. OtherTypes'
      BY <1>1, <1>5, <2>3 DEF Gpu!Store, OtherTypes
    <2> QED
      BY <2>1, <2>2, <2>4 DEF GpuInv
  <1>6. ASSUME Gpu!Shutdown PROVE GpuInv'
    <2>1. QueuesInv'
      BY <1>1, <1>6, QueuesSame DEF Gpu!Shutdown
    <2>2. ThreadInv' /\ CommandsInv' /\ OtherTypes'
      BY <1>1, <1>6 DEF Gpu!Shutdown, ThreadInv, Gpu!Complete, Gpu!AtWait, Gpu!PacketOf, Gpu!NoWork,
         CommandsInv, OtherTypes
    <2> QED
      BY <2>1, <2>2 DEF GpuInv
  <1> QED
    BY <1>2, <1>3, <1>4, <1>5, <1>6 DEF Gpu!Guest
-----------------------------------------------------------------------------
(* The GPU thread.                                                           *)

LEMMA RunCommandKeeps ==
    ASSUME CommandsInv, commands # <<>>, Gpu!RunCommand
    PROVE  CommandsInv'
  <1>1. /\ Head(commands) \in ToSet(commands) /\ Tail(commands) \in Seq(Threads)
        /\ IsInjective(Tail(commands)) /\ ToSet(Tail(commands)) = ToSet(commands) \ {Head(commands)}
    BY Popped DEF CommandsInv
  <1>2. Head(commands) \in Threads
    BY HeadTailProperties DEF CommandsInv
  <1>3. commands' = Tail(commands) /\ caller' = [caller EXCEPT ![Head(commands)] = "none"]
    BY DEF Gpu!RunCommand
  <1> QED
    BY <1>1, <1>2, <1>3 DEF CommandsInv

\* The selection at the top of the loop.
LEMMA SelectKeeps ==
    ASSUME Gpu!GuestGpuAssumption, GpuInv,
           \/ Gpu!SelectNothing \/ Gpu!SelectCommand \/ Gpu!SelectSubmission
           \/ Gpu!SelectRepoll \/ Gpu!Repoll
    PROVE  GpuInv'
  <1> USE DEF Gpu!registryVars, Gpu!queueVars, Gpu!threadVars, Gpu!historyVars, Gpu!guestVars
  <1>1. /\ QueuesInv /\ ThreadInv /\ CommandsInv /\ OtherTypes
        /\ current = NoSubmission
    BY ThreadHolds DEF ThreadInv, Holding, Gpu!SelectNothing, Gpu!SelectCommand,
       Gpu!SelectSubmission, Gpu!SelectRepoll, Gpu!Repoll
  <1>2. CASE Gpu!SelectNothing \/ Gpu!SelectCommand \/ Gpu!SelectRepoll
    <2>1. QueuesInv'
      BY <1>1, <1>2, QueuesSame DEF Gpu!SelectNothing, Gpu!SelectCommand, Gpu!SelectRepoll
    <2>2. CommandsInv' /\ OtherTypes'
      BY <1>1, <1>2 DEF Gpu!SelectNothing, Gpu!SelectCommand, Gpu!SelectRepoll, CommandsInv, OtherTypes
    <2>3. ThreadInv'
      BY <1>1, <1>2 DEF Gpu!SelectNothing, Gpu!SelectCommand, Gpu!SelectRepoll, ThreadInv, Holding,
         Gpu!Phases, Gpu!NoWork
    <2> QED
      BY <2>1, <2>2, <2>3 DEF GpuInv
  <1>3. CASE Gpu!SelectSubmission
    <2> DEFINE q == Gpu!Selected
               s == Head(queues[q])
    <2>1. q \in Gpu!GpuQueues /\ queues[q] # <<>>
      BY <1>1, <1>3, SelectedExists DEF Gpu!SelectSubmission, Gpu!Selectable, OtherTypes
    <2>2. /\ current' = s /\ queues' = [queues EXCEPT ![q] = Tail(@)]
          /\ next_queue' = Gpu!QueueAfter(q) /\ started' = [started EXCEPT ![s] = TRUE]
          /\ submission_count' = submission_count - 1 /\ UNCHANGED <<offset, submitted>>
          /\ processing' = TRUE /\ progress' = FALSE /\ gpuAt' = "slice"
          /\ UNCHANGED <<memory, waiters, frame, commands, caller, stopping, seen, latch_seen, blocked>>
      BY <1>3 DEF Gpu!SelectSubmission
    <2> HIDE DEF q
    <2>3. QueuesInv' /\ s # NoSubmission
      BY <1>1, <2>1, <2>2, TakesKeep
    <2>4. Gpu!QueueAfter(q) \in Gpu!GpuQueues
      <3>1. QueueCount \in Nat /\ QueueCount > 0 /\ q + 1 \in Nat
        BY <2>1, GpuConstants DEF Gpu!GpuQueues
      <3>2. (q + 1) % QueueCount \in 0 .. QueueCount - 1
        BY <3>1
      <3> QED
        BY <3>2 DEF Gpu!QueueAfter, Gpu!GpuQueues
    <2>5. CommandsInv' /\ OtherTypes'
      BY <1>1, <2>2, <2>4 DEF CommandsInv, OtherTypes
    <2>6. ThreadInv'
      BY <1>1, <2>2, <2>3 DEF ThreadInv, Holding, Gpu!Phases
    <2> QED
      BY <2>3, <2>5, <2>6 DEF GpuInv
  <1>4. CASE Gpu!Repoll
    <2>1. QueuesInv'
      BY <1>1, <1>4, QueuesSame DEF Gpu!Repoll
    <2>2. waiters' \subseteq waiters /\ blocked' \in [Submissions -> BOOLEAN]
      BY <1>1, <1>4 DEF Gpu!Repoll, Gpu!UnblockFronts, OtherTypes
    <2>3. CommandsInv' /\ OtherTypes'
      BY <1>1, <1>4, <2>2 DEF Gpu!Repoll, CommandsInv, OtherTypes
    <2>4. ThreadInv'
      BY <1>1, <1>4 DEF Gpu!Repoll, ThreadInv, Holding, Gpu!Phases
    <2> QED
      BY <2>1, <2>3, <2>4 DEF GpuInv
  <1> QED
    BY <1>2, <1>3, <1>4

\* Commands, and the step from packet to packet.
LEMMA BetweenPacketsKeep ==
    ASSUME Gpu!GuestGpuAssumption, GpuInv,
           Gpu!CommandFromLoop \/ Gpu!CommandBeforePacket \/ Gpu!NextPacket
    PROVE  GpuInv'
  <1> USE DEF Gpu!registryVars, Gpu!queueVars, Gpu!threadVars, Gpu!historyVars, Gpu!guestVars
  <1>1. QueuesInv /\ ThreadInv /\ CommandsInv /\ OtherTypes
    BY ThreadHolds
  <1>2. CASE Gpu!CommandFromLoop
    <2>1. QueuesInv'
      BY <1>1, <1>2, QueuesSame DEF Gpu!CommandFromLoop
    <2>2. CommandsInv'
      BY <1>1, <1>2, RunCommandKeeps DEF Gpu!CommandFromLoop, ThreadInv
    <2>3. ThreadInv' /\ OtherTypes'
      BY <1>1, <1>2 DEF Gpu!CommandFromLoop, Gpu!RunCommand, ThreadInv, Holding, Gpu!Phases, OtherTypes
    <2> QED
      BY <2>1, <2>2, <2>3 DEF GpuInv
  <1>3. CASE Gpu!CommandBeforePacket
    <2>1. QueuesInv'
      BY <1>1, <1>3, QueuesSame DEF Gpu!CommandBeforePacket
    <2>2. CommandsInv'
      BY <1>1, <1>3, RunCommandKeeps DEF Gpu!CommandBeforePacket
    <2>3. ThreadInv' /\ OtherTypes'
      BY <1>1, <1>3 DEF Gpu!CommandBeforePacket, Gpu!RunCommand, ThreadInv, Holding, OtherTypes
    <2> QED
      BY <2>1, <2>2, <2>3 DEF GpuInv
  <1>4. CASE Gpu!NextPacket
    <2>1. QueuesInv'
      BY <1>1, <1>4, QueuesSame DEF Gpu!NextPacket
    <2>2. CommandsInv' /\ OtherTypes'
      BY <1>1, <1>4 DEF Gpu!NextPacket, CommandsInv, OtherTypes
    <2>3. ThreadInv'
      BY <1>1, <1>4 DEF Gpu!NextPacket, ThreadInv, Holding, Gpu!Phases, Gpu!Complete
    <2> QED
      BY <2>1, <2>2, <2>3 DEF GpuInv
  <1> QED
    BY <1>2, <1>3, <1>4

\* A packet of the current submission.
LEMMA PacketKeeps ==
    ASSUME Gpu!GuestGpuAssumption, GpuInv,
           Gpu!WriteLabel \/ Gpu!OtherPacket \/ Gpu!WaitPoll \/ Gpu!WaitPass \/ Gpu!WaitSuspend
    PROVE  GpuInv'
  <1> USE DEF Gpu!registryVars, Gpu!queueVars, Gpu!threadVars, Gpu!historyVars, Gpu!guestVars
  <1>1. /\ QueuesInv /\ ThreadInv /\ CommandsInv /\ OtherTypes
        /\ current \in Submissions /\ ~Gpu!Complete(current) /\ gpuAt \in {"packet", "test"} /\ processing
    BY ThreadHolds DEF Holding, Gpu!WriteLabel, Gpu!OtherPacket, Gpu!WaitPoll, Gpu!WaitPass, Gpu!WaitSuspend
  <1>2. Gpu!PacketOf(current) \in Gpu!Packet /\ current # NoSubmission
    BY <1>1, PacketThere, GpuConstants
  <1>3. CommandsInv'
    BY <1>1 DEF Gpu!WriteLabel, Gpu!OtherPacket, Gpu!WaitPoll, Gpu!WaitPass, Gpu!WaitSuspend,
       Gpu!Advance, CommandsInv
  <1>4. ASSUME Gpu!Advance, UNCHANGED <<queues, submission_count, submitted, stopping, commands>>
        PROVE  QueuesInv' /\ ThreadInv' /\ progress' \in BOOLEAN
    <2>1. QueuesInv'
      BY <1>1, <1>4, AdvanceKeeps DEF Gpu!Advance
    <2>2. ThreadInv' /\ progress' \in BOOLEAN
      BY <1>1, <1>4 DEF Gpu!Advance, ThreadInv, Holding, Gpu!Phases
    <2> QED
      BY <2>1, <2>2
  <1>5. CASE Gpu!WriteLabel
    <2> DEFINE label == Gpu!PacketOf(current).label
               value == Gpu!PacketOf(current).value
    <2>1. label \in Labels /\ value \in Values
      BY <1>2, <1>5 DEF Gpu!WriteLabel, Gpu!Packet
    <2>2. /\ memory' = [memory EXCEPT ![label] = value]
          /\ waiters' \in {waiters, Gpu!AfterProduced(waiters, label, value)}
          /\ Gpu!Observe(memory') /\ Gpu!Advance
          /\ UNCHANGED <<queues, submission_count, submitted, stopping, commands>>
          /\ UNCHANGED <<frame, next_queue, blocked, latch_seen>>
      BY <1>5 DEF Gpu!WriteLabel
    <2> HIDE DEF label, value
    <2>3. QueuesInv' /\ ThreadInv' /\ progress' \in BOOLEAN
      BY <1>4, <2>2
    <2>4. seen' \in [Submissions -> BOOLEAN] /\ waiters' \subseteq Gpu!Waiter
      BY <1>1, <2>1, <2>2, ObserveKeeps, RegistryKeeps DEF OtherTypes
    <2>5. OtherTypes'
      BY <1>1, <2>1, <2>2, <2>3, <2>4 DEF OtherTypes
    <2> QED
      BY <1>3, <2>3, <2>5 DEF GpuInv
  <1>6. CASE Gpu!OtherPacket
    <2>1. QueuesInv' /\ ThreadInv' /\ progress' \in BOOLEAN
      BY <1>4, <1>6 DEF Gpu!OtherPacket
    <2>2. OtherTypes'
      BY <1>1, <1>6, <2>1 DEF Gpu!OtherPacket, OtherTypes
    <2> QED
      BY <1>3, <2>1, <2>2 DEF GpuInv
  <1>7. CASE Gpu!WaitPoll
    <2> DEFINE label == Gpu!PacketOf(current).label
               accepts == Gpu!PacketOf(current).accepts
               collected == Gpu!Satisfied(Gpu!AfterRegister(waiters, label, accepts))
    <2>1. label \in Labels /\ accepts \in SUBSET Values
      BY <1>2, <1>7 DEF Gpu!WaitPoll, Gpu!Packet
    <2>2. /\ waiters' = Gpu!AfterRegister(waiters, label, accepts) \ collected
          /\ latch_seen' \in BOOLEAN
          /\ UNCHANGED <<memory, frame, queues, submitted, submission_count, next_queue, blocked>>
          /\ UNCHANGED <<stopping, commands>>
          /\ \/ Gpu!Advance /\ seen' = [seen EXCEPT ![current] = FALSE]
             \/ /\ gpuAt' = "test" /\ Gpu!PacketOf(current).op = "wait"
                /\ UNCHANGED <<current, progress, processing, offset, started, seen>>
      BY <1>7 DEF Gpu!WaitPoll
    <2>3. waiters' \subseteq Gpu!Waiter
      BY <1>1, <2>1, <2>2, RegistryKeeps DEF OtherTypes
    <2>4. QueuesInv' /\ ThreadInv' /\ progress' \in BOOLEAN /\ seen' \in [Submissions -> BOOLEAN]
      <3>1. CASE Gpu!Advance /\ seen' = [seen EXCEPT ![current] = FALSE]
        BY <1>1, <1>4, <2>2, <3>1 DEF OtherTypes
      <3>2. CASE /\ gpuAt' = "test" /\ Gpu!PacketOf(current).op = "wait"
                 /\ UNCHANGED <<current, progress, processing, offset, started, seen>>
        <4>1. QueuesInv'
          BY <1>1, <2>2, <3>2, QueuesSame
        <4>2. ThreadInv'
          BY <1>1, <1>2, <2>2, <3>2 DEF ThreadInv, Holding, Gpu!Phases, Gpu!AtWait, Gpu!Complete, Gpu!PacketOf
        <4> QED
          BY <1>1, <3>2, <4>1, <4>2 DEF OtherTypes
      <3> QED
        BY <2>2, <3>1, <3>2
    <2>5. OtherTypes'
      BY <1>1, <2>2, <2>3, <2>4 DEF OtherTypes
    <2> QED
      BY <1>3, <2>4, <2>5 DEF GpuInv
  <1>8. CASE Gpu!WaitPass
    <2>1. QueuesInv' /\ ThreadInv' /\ progress' \in BOOLEAN
      BY <1>4, <1>8 DEF Gpu!WaitPass
    <2>2. OtherTypes'
      BY <1>1, <1>8, <2>1 DEF Gpu!WaitPass, OtherTypes
    <2> QED
      BY <1>3, <2>1, <2>2 DEF GpuInv
  <1>9. CASE Gpu!WaitSuspend
    <2>1. QueuesInv'
      BY <1>1, <1>9, QueuesSame DEF Gpu!WaitSuspend
    <2>2. ThreadInv' /\ OtherTypes'
      BY <1>1, <1>2, <1>9 DEF Gpu!WaitSuspend, ThreadInv, Holding, Gpu!Phases, OtherTypes
    <2> QED
      BY <1>3, <2>1, <2>2 DEF GpuInv
  <1> QED
    BY <1>5, <1>6, <1>7, <1>8, <1>9

\* The end of a slice.
LEMMA EndSliceKeeps ==
    ASSUME Gpu!GuestGpuAssumption, GpuInv, Gpu!EndSlice
    PROVE  GpuInv'
  <1> USE DEF Gpu!registryVars, Gpu!historyVars, Gpu!guestVars
  <1>1. /\ QueuesInv /\ ThreadInv /\ CommandsInv /\ OtherTypes /\ current \in Submissions
    BY ThreadHolds DEF Holding, Gpu!EndSlice, Gpu!Requeue, Gpu!Retire
  <1>2. QueuesInv'
    <2>1. CASE Gpu!Requeue
      BY <1>1, <2>1, RequeueKeeps DEF Gpu!EndSlice, Gpu!Requeue
    <2>2. CASE Gpu!Retire
      BY <1>1, <2>2, RetireKeeps DEF Gpu!EndSlice, Gpu!Retire
    <2> QED
      BY <2>1, <2>2 DEF Gpu!EndSlice
  <1>3. blocked' \in [Submissions -> BOOLEAN]
    BY <1>1 DEF Gpu!EndSlice, Gpu!Requeue, Gpu!Retire, Gpu!UnblockFronts, OtherTypes
  <1>4. CommandsInv' /\ OtherTypes'
    BY <1>1, <1>3 DEF Gpu!EndSlice, CommandsInv, OtherTypes
  <1>5. ThreadInv'
    BY <1>1 DEF Gpu!EndSlice, ThreadInv, Holding, Gpu!Phases
  <1> QED
    BY <1>2, <1>4, <1>5 DEF GpuInv
-----------------------------------------------------------------------------
(* What follows.                                                             *)

LEMMA GpuStarts == ASSUME Gpu!GuestGpuAssumption PROVE Gpu!Init => GpuInv
  <1> SUFFICES ASSUME Gpu!Init PROVE GpuInv
    OBVIOUS
  <1>1. QueuesInv
    <2>1. /\ \A q \in Gpu!GpuQueues : queues[q] = <<>>
          /\ queues \in [Gpu!GpuQueues -> Seq(Submissions)]
          /\ submitted = {} /\ submission_count = 0 /\ current = NoSubmission
          /\ offset = [s \in Submissions |-> 0] /\ started = [s \in Submissions |-> FALSE]
      BY DEF Gpu!Init
    <2>2. Gpu!Queued = {}
      BY <2>1 DEF Gpu!Queued
    <2>3. Gpu!Cardinality(Gpu!Queued) = 0
      <3>1. IsFiniteSet(Gpu!Queued) /\ Cardinality(Gpu!Queued) = 0
        BY <2>2, FS_EmptySet
      <3> QED
        BY <3>1, GpuCount
    <2>4. Gpu!NothingLost
      BY <2>1, <2>2, <2>3 DEF Gpu!NothingLost
    <2>5. QueuesDistinct
      BY <2>1 DEF QueuesDistinct, ToSet, IsInjective
    <2>6. QueueTypes /\ SuspendedInFront
      BY <2>1 DEF QueueTypes, SuspendedInFront
    <2>7. OffsetsRight
      BY <2>1, GpuConstants DEF OffsetsRight
    <2> QED
      BY <2>4, <2>5, <2>6, <2>7 DEF QueuesInv
  <1>2. ThreadInv
    BY DEF Gpu!Init, ThreadInv, Holding, Gpu!Phases
  <1>3. CommandsInv
    BY DEF Gpu!Init, CommandsInv, ToSet, IsInjective
  <1>4. OtherTypes
    BY GpuConstants DEF Gpu!Init, OtherTypes
  <1> QED
    BY <1>1, <1>2, <1>3, <1>4 DEF GpuInv

LEMMA GpuKeeps ==
    ASSUME Gpu!GuestGpuAssumption, GpuInv, [Gpu!Next]_Gpu!vars
    PROVE  GpuInv'
  <1>1. CASE UNCHANGED Gpu!vars
    <2>1. QueuesInv /\ ThreadInv /\ CommandsInv /\ OtherTypes
      BY ThreadHolds
    <2>2. QueuesInv'
      BY <1>1, <2>1, QueuesSame DEF Gpu!vars, Gpu!queueVars, Gpu!threadVars
    <2>3. ThreadInv' /\ CommandsInv' /\ OtherTypes'
      BY <1>1, <2>1 DEF Gpu!vars, Gpu!registryVars, Gpu!queueVars, Gpu!threadVars, Gpu!historyVars,
         Gpu!guestVars, ThreadInv, CommandsInv, OtherTypes, Gpu!Complete, Gpu!AtWait, Gpu!PacketOf,
         Gpu!NoWork
    <2> QED
      BY <2>2, <2>3 DEF GpuInv
  <1> QED
    BY <1>1, GuestKeeps, SelectKeeps, BetweenPacketsKeep, PacketKeeps, EndSliceKeeps
       DEF Gpu!Next, Gpu!GpuThread

\* With no work left everything that was submitted is executed, and nobody is
\* in SendCommandSync.
LEMMA NoWorkLeft ==
    ASSUME Gpu!GuestGpuAssumption, GpuInv, Gpu!NoWork, current = NoSubmission
    PROVE  /\ \A s \in submitted : Gpu!Complete(s)
           /\ \A t \in Threads : caller[t] # "sync"
  <1>1. Gpu!Queued = {}
    BY QueuesHold, QueuedFinite, FS_EmptySet DEF Gpu!NoWork, GpuInv
  <1>2. \A s \in submitted : s # current
    BY GpuConstants DEF GpuInv, QueuesInv, QueueTypes
  <1>3. \A s \in submitted : Gpu!Complete(s)
    BY <1>1, <1>2, QueuesHold DEF GpuInv, Gpu!Complete
  <1>4. \A t \in Threads : caller[t] # "sync"
    BY DEF GpuInv, CommandsInv, Gpu!NoWork, ToSet
  <1> QED
    BY <1>3, <1>4

LEMMA QueuesImplied ==
    ASSUME Gpu!GuestGpuAssumption, GpuInv
    PROVE  QueuesSound
  <1>1. QueuesInv /\ ThreadInv /\ CommandsInv /\ OtherTypes
    BY ThreadHolds
  <1>2. Gpu!TypeOK
    BY <1>1 DEF QueuesInv, QueueTypes, ThreadInv, CommandsInv, OtherTypes, Gpu!TypeOK
  <1>3. Gpu!InOrder
    <2>1. ASSUME NEW q \in Gpu!GpuQueues, NEW i \in 2 .. Len(queues[q])
          PROVE  ~started[queues[q][i]]
      <3>1. i \in 1 .. Len(queues[q]) /\ i # 1
        OBVIOUS
      <3> QED
        BY <1>1, <3>1 DEF QueuesInv, SuspendedInFront
    <2>2. ASSUME NEW q \in Gpu!GpuQueues, current # NoSubmission, SubmissionQueueOf[current] = q,
                 queues[q] # <<>>
          PROVE  ~started[Head(queues[q])]
      <3>1. queues[q] \in Seq(Submissions)
        BY <1>1 DEF QueuesInv, QueueTypes
      <3>2. Len(queues[q]) \in Nat \ {0}
        BY <2>2, <3>1, EmptySeq
      <3>3. Head(queues[q]) = queues[q][1] /\ 1 \in 1 .. Len(queues[q])
        BY <2>2, <3>1, <3>2
      <3> QED
        BY <1>1, <2>2, <3>3 DEF QueuesInv, SuspendedInFront
    <2> QED
      BY <2>1, <2>2 DEF Gpu!InOrder
  <1>4. Gpu!ShutdownDrains
    <2>1. CASE gpuAt = "stopped"
      BY <1>1, <2>1, NoWorkLeft DEF ThreadInv, Holding, Gpu!ShutdownDrains
    <2> QED
      BY <2>1 DEF Gpu!ShutdownDrains
  <1>5. Gpu!NothingLost
    BY <1>1 DEF QueuesInv
  <1> QED
    BY <1>2, <1>3, <1>4, <1>5 DEF QueuesSound, Gpu!QueuesSound

\* For any queues, programs and threads: no submission is lost, doubled or
\* counted twice between select, suspend and requeue, a suspended one stays ahead
\* of what its queue receives later, and the GPU thread stops only when all is
\* executed and nobody waits in SendCommandSync (ThreadRun, Submit, Process).
THEOREM QueuesCorrect ==
    ASSUME Gpu!GuestGpuAssumption
    PROVE  Gpu!Spec => []QueuesSound
  <1>1. Gpu!Init => GpuInv
    BY GpuStarts
  <1>2. GpuInv /\ [Gpu!Next]_Gpu!vars => GpuInv'
    BY GpuKeeps
  <1>3. GpuInv => QueuesSound
    BY QueuesImplied
  <1> QED
    BY <1>1, <1>2, <1>3, PTL DEF Gpu!Spec

\* Done returns only when everything submitted before has been executed,
\* although the queue's mutex is free while the GPU thread works (WaitForIdle).
THEOREM DoneCorrect ==
    ASSUME Gpu!GuestGpuAssumption
    PROVE  Gpu!Spec => DoneMeansExecuted
  <1> DEFINE Executed == \A t \in Threads :
                 caller[t] = "done" /\ caller'[t] = "none"
                    => current = NoSubmission /\ \A s \in submitted : Gpu!Complete(s)
  <1>1. Gpu!Init => GpuInv
    BY GpuStarts
  <1>2. GpuInv /\ [Gpu!Next]_Gpu!vars => GpuInv'
    BY GpuKeeps
  <1>3. GpuInv /\ [Gpu!Next]_Gpu!vars => [Executed]_Gpu!vars
    <2> SUFFICES ASSUME GpuInv, Gpu!Next, NEW t \in Threads, caller[t] = "done", caller'[t] = "none"
                 PROVE  current = NoSubmission /\ \A s \in submitted : Gpu!Complete(s)
      OBVIOUS
    <2>1. QueuesInv /\ ThreadInv /\ CommandsInv /\ OtherTypes
      BY ThreadHolds
    <2>2. PICK u \in Threads : Gpu!DoneReturn(u)
      <3>1. ASSUME Gpu!RunCommand, commands # <<>> PROVE FALSE
        <4>1. caller' = [caller EXCEPT ![Head(commands)] = "none"]
          BY <3>1 DEF Gpu!RunCommand
        <4>2. Head(commands) \in ToSet(commands) /\ Head(commands) \in Threads
          BY <2>1, <3>1, Popped, HeadTailProperties DEF CommandsInv
        <4>3. caller[Head(commands)] = "sync"
          BY <2>1, <4>2 DEF CommandsInv
        <4> QED
          BY <2>1, <4>1, <4>2, <4>3 DEF CommandsInv
      <3>2. ~Gpu!CommandFromLoop /\ ~Gpu!CommandBeforePacket
        BY <2>1, <3>1 DEF Gpu!CommandFromLoop, Gpu!CommandBeforePacket, ThreadInv
      <3>3. ASSUME UNCHANGED caller PROVE FALSE
        BY <3>3
      <3>4. ASSUME Gpu!GpuThread PROVE FALSE
        BY <3>2, <3>3, <3>4 DEF Gpu!GpuThread, Gpu!guestVars, Gpu!SelectNothing, Gpu!SelectCommand,
           Gpu!SelectSubmission, Gpu!SelectRepoll, Gpu!Repoll, Gpu!NextPacket, Gpu!WriteLabel,
           Gpu!OtherPacket, Gpu!WaitPoll, Gpu!WaitPass, Gpu!WaitSuspend, Gpu!EndSlice
      <3>5. ASSUME NEW u \in Threads, NEW s \in Submissions, Gpu!Submit(u, s) PROVE FALSE
        BY <3>3, <3>5 DEF Gpu!Submit, Gpu!guestVars
      <3>6. ASSUME NEW u \in Threads, Gpu!DoneBegin(u) \/ Gpu!SendCommandSync(u) PROVE FALSE
        BY <2>1, <3>6 DEF Gpu!DoneBegin, Gpu!SendCommandSync, CommandsInv
      <3>7. ASSUME NEW l \in Labels, NEW v \in Values, Gpu!Store(l, v) PROVE FALSE
        BY <3>3, <3>7 DEF Gpu!Store
      <3>8. ~Gpu!Shutdown
        BY <3>3 DEF Gpu!Shutdown
      <3> QED
        BY <3>4, <3>5, <3>6, <3>7, <3>8 DEF Gpu!Next, Gpu!Guest
    <2>3. Gpu!NoWork /\ ~processing
      BY <2>2 DEF Gpu!DoneReturn, Gpu!Idle
    <2>4. current = NoSubmission
      BY <2>1, <2>3 DEF ThreadInv
    <2> QED
      BY <2>3, <2>4, NoWorkLeft
  <1>4. [][Executed]_Gpu!vars => DoneMeansExecuted
    BY DEF DoneMeansExecuted, Gpu!DoneMeansExecuted
  <1> QED
    BY <1>1, <1>2, <1>3, <1>4, PTL DEF Gpu!Spec

-----------------------------------------------------------------------------
(* Sets of pages.                                                            *)

LEMMA SmallestOf ==
    ASSUME NEW S \in SUBSET Nat, S # {}
    PROVE  Mem!Min(S) \in S /\ \A x \in S : Mem!Min(S) <= x
  <1>1. \E n \in S : \A m \in S : n <= m
    BY LeastNatural
  <1>2. \E n \in S : \A m \in S : m >= n
    BY <1>1
  <1>3. Mem!Min(S) \in S /\ \A x \in S : x >= Mem!Min(S)
    BY <1>2 DEF Mem!Min
  <1> QED
    BY <1>3

LEMMA LargestOf ==
    ASSUME NEW k \in Nat, NEW S \in SUBSET (0 .. k), S # {}
    PROVE  Mem!Max(S) \in S /\ \A x \in S : x <= Mem!Max(S)
  <1> DEFINE T == {k - x : x \in S}
  <1>1. T \in SUBSET Nat /\ T # {}
    <2>1. \A x \in S : k - x \in Nat
      OBVIOUS
    <2> QED
      BY <2>1
  <1>2. PICK n \in T : \A m \in T : n <= m
    BY <1>1, LeastNatural
  <1>3. PICK y \in S : n = k - y
    BY <1>2
  <1>4. \A x \in S : y >= x
    BY <1>2, <1>3
  <1>5. Mem!Max(S) \in S /\ \A x \in S : Mem!Max(S) >= x
    BY <1>4 DEF Mem!Max
  <1> QED
    BY <1>5

\* The first and the last page of a span.
LEMMA SpanEnds ==
    ASSUME NEW a \in Nat, NEW b \in Nat, a <= b
    PROVE  /\ Mem!Min(a .. b) = a
           /\ Mem!Max(a .. b) = b
  <1> DEFINE S == a .. b
  <1>1. S \in SUBSET Nat /\ S # {} /\ S \in SUBSET (0 .. b) /\ a \in S /\ b \in S
    OBVIOUS
  <1>2. \A x \in S : x \in Nat /\ a <= x /\ x <= b
    OBVIOUS
  <1> HIDE DEF S
  <1>3. Mem!Min(S) \in S /\ Mem!Min(S) <= a
    BY <1>1, SmallestOf
  <1>4. Mem!Max(S) \in S /\ b <= Mem!Max(S)
    BY <1>1, LargestOf
  <1>5. Mem!Min(S) = a
    <2>1. Mem!Min(S) \in Nat /\ a <= Mem!Min(S)
      BY <1>2, <1>3
    <2> QED
      BY <1>3, <2>1
  <1>6. Mem!Max(S) = b
    <2>1. Mem!Max(S) \in Nat /\ Mem!Max(S) <= b
      BY <1>2, <1>4
    <2> QED
      BY <1>4, <2>1
  <1> QED
    BY <1>5, <1>6 DEF S

-----------------------------------------------------------------------------
(* Ranges and mappings, cut and taken out.                                   *)

RangeRec == [type : {"none", "Reserved", "PoolReserved", "Direct", "Flexible", "Pooled"},
             prot : Prots \union {NoProt}, first : 0 .. VirtualPages, offset : 0 .. DirectPages]
MappingRec == [prot : Prots \union {NoProt}, first : 0 .. VirtualPages, offset : 0 .. DirectPages]

\* The pages of a piece keep its first page and know each other.
Pieces(f) ==
    \A v \in Mem!Virtual : f[v].first # 0 =>
        f[v].first \in 1 .. v /\ \A w \in f[v].first .. v : f[w] = f[v]

\* One record with another first page and the physical page behind it.
LEMMA MovedRecord ==
    ASSUME NEW r, r \in RangeRec \/ r \in MappingRec, NEW m, NEW o,
           NEW x, x = [r EXCEPT !.first = m, !.offset = o]
    PROVE  /\ x.first = m /\ x.offset = o /\ x.prot = r.prot
           /\ r \in RangeRec => x.type = r.type
           /\ m \in 0 .. VirtualPages /\ o \in 0 .. DirectPages =>
                /\ r \in RangeRec => x \in RangeRec
                /\ r \in MappingRec => x \in MappingRec
  BY DEF RangeRec, MappingRec

\* What a cut does to one page.
LEMMA CutPage ==
    ASSUME Mem!GuestMemoryAssumption, NEW f, NEW v \in Mem!Virtual,
           f[v] \in RangeRec \/ f[v] \in MappingRec, f[v].first <= v,
           NEW cuts \in SUBSET Int, NEW g, g = Mem!Cut(f, cuts)
    PROVE  /\ f[v].first = 0 => g[v] = f[v]
           /\ f[v].first # 0 =>
                /\ g[v].first \in f[v].first .. v
                /\ g[v].first = f[v].first \/ g[v].first \in cuts
                /\ \A c \in cuts : f[v].first < c /\ c <= v => c <= g[v].first
                /\ g[v].offset = f[v].offset + g[v].first - f[v].first
           /\ Mem!PhysOf(g, v) = Mem!PhysOf(f, v)
           /\ g[v].prot = f[v].prot
           /\ f[v] \in RangeRec => g[v].type = f[v].type
           /\ f[v].first = 0 \/ Mem!PhysOf(f, v) \in Mem!Direct =>
                /\ f[v] \in RangeRec => g[v] \in RangeRec
                /\ f[v] \in MappingRec => g[v] \in MappingRec
  <1> DEFINE behind == {c \in cuts : f[v].first < c /\ c <= v}
             m == Mem!Max(behind)
  <1>1. /\ VirtualPages \in Nat /\ DirectPages \in Nat /\ v \in 1 .. VirtualPages
        /\ f[v].first \in Nat /\ f[v].offset \in Nat
    BY DEF Mem!GuestMemoryAssumption, Mem!Virtual, RangeRec, MappingRec
  <1>2. g[v] = IF f[v].first = 0 \/ behind = {} THEN f[v]
               ELSE [f[v] EXCEPT !.first = m, !.offset = f[v].offset + m - f[v].first]
    BY DEF Mem!Cut
  <1>3. CASE f[v].first = 0 \/ behind = {}
    <2>1. g[v] = f[v]
      BY <1>2, <1>3 DEF behind
    <2>2. \A c \in cuts : f[v].first # 0 => ~(f[v].first < c /\ c <= v)
      BY <1>3
    <2> HIDE DEF behind, m
    <2>3. Mem!PhysOf(g, v) = Mem!PhysOf(f, v)
      BY <2>1 DEF Mem!PhysOf
    <2>4. f[v].first \in f[v].first .. v /\ f[v].offset = f[v].offset + f[v].first - f[v].first
      BY <1>1
    <2> QED
      BY <2>1, <2>2, <2>3, <2>4
  <1>4. CASE f[v].first # 0 /\ behind # {}
    <2>1. behind \in SUBSET (0 .. v)
      BY <1>1
    <2> HIDE DEF behind
    <2>2. m \in behind /\ \A x \in behind : x <= m
      <3>1. v \in Nat
        BY <1>1
      <3> QED
        BY <1>4, <2>1, <3>1, LargestOf
    <2> USE DEF behind
    <2>3. m \in cuts /\ m \in Int /\ f[v].first < m /\ m <= v
      BY <2>2
    <2>4. \A c \in cuts : f[v].first < c /\ c <= v => c <= m
      BY <2>2
    <2> DEFINE o == f[v].offset + m - f[v].first
    <2>5. g[v] = [f[v] EXCEPT !.first = m, !.offset = o]
      BY <1>2, <1>4
    <2> HIDE DEF m, o, behind
    <2>6. /\ g[v].first = m /\ g[v].offset = o
          /\ g[v].prot = f[v].prot
          /\ f[v] \in RangeRec => g[v].type = f[v].type
      BY <2>5 DEF RangeRec, MappingRec
    <2>7. Mem!PhysOf(g, v) = Mem!PhysOf(f, v)
      BY <1>1, <2>3, <2>6 DEF Mem!PhysOf, o
    <2>8. ASSUME Mem!PhysOf(f, v) \in Mem!Direct
          PROVE  m \in 0 .. VirtualPages /\ o \in 0 .. DirectPages
      BY <1>1, <2>3, <2>8 DEF Mem!PhysOf, Mem!Direct, o
    <2>9. Mem!PhysOf(f, v) \in Mem!Direct =>
                    /\ f[v] \in RangeRec => g[v] \in RangeRec
                    /\ f[v] \in MappingRec => g[v] \in MappingRec
      BY <2>5, <2>8, MovedRecord
    <2>10. g[v].first \in f[v].first .. v
      BY <1>1, <2>3, <2>6
    <2> QED
      BY <1>4, <2>3, <2>4, <2>6, <2>7, <2>9, <2>10 DEF o
  <1> QED
    BY <1>3, <1>4

\* Pages with no cut between them stay alike.
LEMMA CutAlike ==
    ASSUME NEW f, NEW v \in Mem!Virtual, NEW w \in Mem!Virtual, NEW cuts \in SUBSET Int,
           f[v] = f[w], \A c \in cuts : f[v].first < c => (c <= v <=> c <= w)
    PROVE  Mem!Cut(f, cuts)[v] = Mem!Cut(f, cuts)[w]
  <1>1. {c \in cuts : f[v].first < c /\ c <= v} = {c \in cuts : f[w].first < c /\ c <= w}
    OBVIOUS
  <1> QED
    BY <1>1 DEF Mem!Cut

\* A cut leaves pieces.
LEMMA CutPieces ==
    ASSUME Mem!GuestMemoryAssumption, NEW f, Pieces(f),
           \A v \in Mem!Virtual : f[v] \in RangeRec \/ f[v] \in MappingRec,
           NEW cuts \in SUBSET Int
    PROVE  Pieces(Mem!Cut(f, cuts))
  <1> DEFINE g == Mem!Cut(f, cuts)
  <1> SUFFICES ASSUME NEW v \in Mem!Virtual, g[v].first # 0
               PROVE  g[v].first \in 1 .. v /\ \A w \in g[v].first .. v : g[w] = g[v]
    BY DEF Pieces
  <1>1. VirtualPages \in Nat /\ v \in 1 .. VirtualPages /\ f[v].first \in Nat
    BY DEF Mem!GuestMemoryAssumption, Mem!Virtual, RangeRec, MappingRec
  <1>2. f[v].first <= v
    BY <1>1 DEF Pieces
  <1>3. f[v].first # 0
    BY <1>2, CutPage
  <1>4. f[v].first \in 1 .. v /\ \A w \in f[v].first .. v : f[w] = f[v]
    BY <1>3 DEF Pieces
  <1>5. /\ g[v].first \in f[v].first .. v
        /\ \A c \in cuts : f[v].first < c /\ c <= v => c <= g[v].first
    BY <1>2, <1>3, CutPage
  <1> HIDE DEF g
  <1>6. ASSUME NEW w \in g[v].first .. v PROVE g[w] = g[v]
    <2>1. w \in Int /\ g[v].first <= w /\ w <= v /\ w \in f[v].first .. v /\ w \in Mem!Virtual
      BY <1>1, <1>4, <1>5 DEF Mem!Virtual
    <2>2. f[v] = f[w]
      BY <1>4, <2>1
    <2>3. \A c \in cuts : f[v].first < c => (c <= v <=> c <= w)
      BY <1>1, <1>5, <2>1
    <2> QED
      BY <2>1, <2>2, <2>3, CutAlike DEF g
  <1> QED
    BY <1>1, <1>4, <1>5, <1>6

\* A page of the ranges and of the mappings.
PageOK(r, m, v) ==
    /\ r[v] \in RangeRec /\ m[v] \in MappingRec
    /\ r[v].first # 0 <=> r[v].type = "Direct"
    /\ r[v].type = "none" => r[v] = Mem!None
    /\ m[v].first = 0 => m[v] = Mem!Unmapped
    /\ m[v].first # 0 <=> r[v].type = "Direct"
    /\ r[v].type = "Direct" =>
         /\ Mem!PhysOf(r, v) \in Mem!Direct /\ Mem!PhysOf(m, v) = Mem!PhysOf(r, v)
         /\ m[v].prot = r[v].prot /\ m[v].first <= r[v].first

\* The ranges r and the mappings m agree, and no range is larger than the
\* mapping behind it.
PairOK(r, m) ==
    /\ r \in [Mem!Virtual -> RangeRec] /\ m \in [Mem!Virtual -> MappingRec]
    /\ Pieces(r) /\ Pieces(m)
    /\ \A v \in Mem!Virtual : PageOK(r, m, v)

\* A page of the ranges is as it was, though its piece may be smaller.
SamePage(r, g, v) ==
    /\ g[v].type = r[v].type /\ g[v].prot = r[v].prot /\ Mem!PhysOf(g, v) = Mem!PhysOf(r, v)
    /\ r[v].first = 0 => g[v] = r[v]

LEMMA PageNumbers ==
    ASSUME Mem!GuestMemoryAssumption, NEW r, NEW m, PairOK(r, m), NEW v \in Mem!Virtual
    PROVE  /\ v \in Nat /\ v \in 1 .. VirtualPages /\ VirtualPages \in Nat /\ DirectPages \in Nat
           /\ r[v] \in RangeRec /\ r[v].first \in 0 .. v /\ r[v].offset \in Nat
           /\ m[v] \in MappingRec /\ m[v].first \in 0 .. v /\ m[v].offset \in Nat
           /\ PageOK(r, m, v)
  <1>1. v \in 1 .. VirtualPages /\ VirtualPages \in Nat /\ DirectPages \in Nat
    BY DEF Mem!GuestMemoryAssumption, Mem!Virtual
  <1>2. r[v] \in RangeRec /\ m[v] \in MappingRec /\ PageOK(r, m, v)
    BY DEF PairOK
  <1>3. /\ r[v].first \in Nat /\ r[v].offset \in Nat
        /\ m[v].first \in Nat /\ m[v].offset \in Nat
    BY <1>1, <1>2 DEF RangeRec, MappingRec
  <1>4. r[v].first <= v /\ m[v].first <= v
    BY <1>1, <1>3 DEF PairOK, Pieces
  <1> QED
    BY <1>1, <1>2, <1>3, <1>4

\* One page under cuts of both.
LEMMA CutPagePair ==
    ASSUME Mem!GuestMemoryAssumption, NEW r, NEW m, PairOK(r, m), NEW v \in Mem!Virtual,
           NEW cr \in SUBSET Int, NEW cm \in SUBSET Int,
           \A c \in cm : r[v].type = "Direct" /\ m[v].first < c /\ c <= v
                            => c \in cr \/ c <= r[v].first,
           NEW g, g = Mem!Cut(r, cr), NEW h, h = Mem!Cut(m, cm)
    PROVE  PageOK(g, h, v) /\ SamePage(r, g, v)
  <1>1. /\ v \in Nat /\ v \in 1 .. VirtualPages /\ VirtualPages \in Nat /\ DirectPages \in Nat
        /\ r[v] \in RangeRec /\ r[v].first \in 0 .. v /\ r[v].offset \in Nat
        /\ m[v] \in MappingRec /\ m[v].first \in 0 .. v /\ m[v].offset \in Nat
        /\ PageOK(r, m, v)
    BY PageNumbers
  <1>2. r[v].first <= v /\ m[v].first <= v
    BY <1>1
  <1>3. /\ r[v].first = 0 => g[v] = r[v]
        /\ r[v].first # 0 =>
                /\ g[v].first \in r[v].first .. v
                /\ \A c \in cr : r[v].first < c /\ c <= v => c <= g[v].first
        /\ Mem!PhysOf(g, v) = Mem!PhysOf(r, v)
        /\ g[v].prot = r[v].prot /\ g[v].type = r[v].type
        /\ r[v].first = 0 \/ Mem!PhysOf(r, v) \in Mem!Direct => g[v] \in RangeRec
    BY <1>1, <1>2, CutPage
  <1>4. /\ m[v].first = 0 => h[v] = m[v]
        /\ m[v].first # 0 =>
                /\ h[v].first \in m[v].first .. v
                /\ h[v].first = m[v].first \/ h[v].first \in cm
        /\ Mem!PhysOf(h, v) = Mem!PhysOf(m, v)
        /\ h[v].prot = m[v].prot
        /\ m[v].first = 0 \/ Mem!PhysOf(m, v) \in Mem!Direct => h[v] \in MappingRec
    BY <1>1, <1>2, CutPage
  <1>5. SamePage(r, g, v)
    BY <1>3 DEF SamePage
  <1>6. CASE r[v].type # "Direct"
    BY <1>1, <1>3, <1>4, <1>5, <1>6 DEF PageOK
  <1>7. CASE r[v].type = "Direct"
    <2>1. r[v].first # 0 /\ m[v].first # 0 /\ m[v].first <= r[v].first
      BY <1>1, <1>7 DEF PageOK
    <2>2. h[v].first <= g[v].first
      <3>1. /\ h[v].first \in Nat /\ h[v].first <= v /\ m[v].first <= h[v].first
            /\ g[v].first \in Nat /\ r[v].first <= g[v].first
        BY <1>1, <1>3, <1>4, <2>1
      <3>2. CASE h[v].first = m[v].first
        BY <1>1, <2>1, <3>1, <3>2
      <3>3. CASE h[v].first # m[v].first
        <4>1. h[v].first \in cm /\ m[v].first < h[v].first
          BY <1>1, <1>4, <2>1, <3>1, <3>3
        <4>2. h[v].first \in cr \/ h[v].first <= r[v].first
          BY <1>7, <3>1, <4>1
        <4> QED
          BY <1>1, <1>3, <2>1, <3>1, <4>2
      <3> QED
        BY <3>2, <3>3
    <2>3. /\ Mem!PhysOf(r, v) \in Mem!Direct /\ Mem!PhysOf(m, v) = Mem!PhysOf(r, v)
          /\ m[v].prot = r[v].prot
      BY <1>1, <1>7 DEF PageOK
    <2>4. g[v].first # 0 /\ h[v].first # 0
      BY <1>1, <1>3, <1>4, <2>1
    <2> QED
      BY <1>3, <1>4, <1>5, <1>7, <2>2, <2>3, <2>4 DEF PageOK
  <1> QED
    BY <1>6, <1>7

LEMMA CutPair ==
    ASSUME Mem!GuestMemoryAssumption, NEW r, NEW m, PairOK(r, m),
           NEW cr \in SUBSET Int, NEW cm \in SUBSET Int,
           \A v \in Mem!Virtual, c \in cm :
               r[v].type = "Direct" /\ m[v].first < c /\ c <= v => c \in cr \/ c <= r[v].first,
           NEW g, g = Mem!Cut(r, cr), NEW h, h = Mem!Cut(m, cm)
    PROVE  PairOK(g, h) /\ \A v \in Mem!Virtual : SamePage(r, g, v)
  <1>1. \A v \in Mem!Virtual : PageOK(g, h, v) /\ SamePage(r, g, v)
    BY CutPagePair
  <1>2. /\ \A v \in Mem!Virtual : r[v] \in RangeRec /\ m[v] \in MappingRec
        /\ Pieces(r) /\ Pieces(m)
    BY DEF PairOK
  <1>3. Pieces(g) /\ Pieces(h)
    BY <1>2, CutPieces
  <1>4. g \in [Mem!Virtual -> RangeRec] /\ h \in [Mem!Virtual -> MappingRec]
    <2>1. \A v \in Mem!Virtual : g[v] \in RangeRec /\ h[v] \in MappingRec
      BY <1>1 DEF PageOK
    <2>2. g = [v \in Mem!Virtual |-> g[v]] /\ h = [v \in Mem!Virtual |-> h[v]]
      BY DEF Mem!Cut
    <2> QED
      BY <2>1, <2>2
  <1> QED
    BY <1>1, <1>3, <1>4 DEF PairOK

\* What becomes of the pages S: one new piece, or nothing that has a mapping.
NewPiece(S, x, y) ==
    /\ x \in RangeRec /\ y \in MappingRec
    /\ x.first # 0 <=> x.type = "Direct"
    /\ x.type = "none" => x = Mem!None
    /\ x.first = 0 => y = Mem!Unmapped
    /\ x.first # 0 =>
         /\ \E b \in Nat : S = x.first .. b
         /\ y.first = x.first /\ y.offset = x.offset /\ y.prot = x.prot
         /\ \A v \in S : x.offset + v - x.first \in Mem!Direct

Behind(S) == {v + 1 : v \in S}

\* Pages that go divide the pieces around them.
LEMMA WithoutPieces ==
    ASSUME Mem!GuestMemoryAssumption, NEW f, Pieces(f),
           \A v \in Mem!Virtual : f[v] \in RangeRec \/ f[v] \in MappingRec,
           NEW S \in SUBSET Mem!Virtual, NEW x,
           x.first # 0 => x.first \in Nat \ {0} /\ \E b \in Nat : S = x.first .. b,
           NEW g, g = Mem!Without(f, S, x)
    PROVE  Pieces(g)
  <1> DEFINE kept == Mem!Cut(f, Behind(S))
  <1>1. \A v \in Mem!Virtual : g[v] = IF v \in S THEN x ELSE kept[v]
    BY DEF Mem!Without, Behind
  <1>2. Behind(S) \in SUBSET Int
    BY DEF Behind, Mem!Virtual
  <1>3. Pieces(kept)
    BY <1>2, CutPieces
  <1> SUFFICES ASSUME NEW v \in Mem!Virtual, g[v].first # 0
               PROVE  g[v].first \in 1 .. v /\ \A w \in g[v].first .. v : g[w] = g[v]
    BY DEF Pieces
  <1>4. VirtualPages \in Nat /\ v \in 1 .. VirtualPages
    BY DEF Mem!GuestMemoryAssumption, Mem!Virtual
  <1>5. CASE v \in S
    <2>1. g[v] = x
      BY <1>1, <1>5
    <2>2. PICK b \in Nat : S = x.first .. b
      BY <2>1
    <2>3. x.first \in Nat \ {0} /\ x.first <= v /\ v <= b
      BY <1>4, <1>5, <2>1, <2>2
    <2>4. ASSUME NEW w \in x.first .. v PROVE g[w] = g[v]
      <3>1. w \in S /\ w \in Mem!Virtual
        BY <1>4, <2>2, <2>3 DEF Mem!Virtual
      <3> QED
        BY <1>1, <2>1, <3>1
    <2> QED
      BY <1>4, <2>1, <2>3, <2>4
  <1>6. CASE v \notin S
    <2>1. g[v] = kept[v]
      BY <1>1, <1>6
    <2>2. kept[v].first \in 1 .. v /\ \A w \in kept[v].first .. v : kept[w] = kept[v]
      BY <1>3, <2>1 DEF Pieces
    <2>3. f[v].first \in Nat /\ f[v].first <= v
      BY <1>4 DEF RangeRec, MappingRec, Pieces
    <2>4. /\ f[v].first # 0 /\ f[v].first <= kept[v].first
          /\ \A c \in Behind(S) : f[v].first < c /\ c <= v => c <= kept[v].first
      BY <1>2, <1>4, <2>2, <2>3, CutPage
    <2> HIDE DEF kept
    <2>5. ASSUME NEW w \in kept[v].first .. v PROVE g[w] = g[v]
      <3>1. w \in Int /\ kept[v].first <= w /\ w <= v /\ w \in Mem!Virtual
        BY <1>4, <2>2 DEF Mem!Virtual
      <3>2. w \notin S
        <4>1. SUFFICES ASSUME w \in S PROVE FALSE
          OBVIOUS
        <4>2. w + 1 \in Behind(S) /\ w < v
          BY <1>4, <1>6, <3>1, <4>1 DEF Behind
        <4>3. f[v].first < w + 1 /\ w + 1 <= v
          BY <1>4, <2>2, <2>3, <2>4, <3>1, <4>2
        <4> QED
          BY <2>2, <2>4, <3>1, <4>2, <4>3
      <3> QED
        BY <1>1, <2>1, <2>2, <3>1, <3>2
    <2> QED
      BY <2>1, <2>2, <2>5
  <1> QED
    BY <1>5, <1>6

\* Pages taken out of both, or given a new piece.
LEMMA WithoutPair ==
    ASSUME Mem!GuestMemoryAssumption, NEW r, NEW m, PairOK(r, m),
           NEW S \in SUBSET Mem!Virtual, NEW x, NEW y, NewPiece(S, x, y),
           NEW g, g = Mem!Without(r, S, x), NEW h, h = Mem!Without(m, S, y)
    PROVE  /\ PairOK(g, h)
           /\ \A v \in S : g[v] = x /\ h[v] = y
           /\ \A v \in Mem!Virtual : v \notin S => SamePage(r, g, v)
  <1> DEFINE cuts == Behind(S)
             kr == Mem!Cut(r, cuts)
             km == Mem!Cut(m, cuts)
  <1>1. cuts \in SUBSET Int
    BY DEF Behind, Mem!Virtual
  <1>2. PairOK(kr, km) /\ \A v \in Mem!Virtual : SamePage(r, kr, v)
    BY <1>1, CutPair
  <1>3. \A v \in Mem!Virtual : /\ g[v] = IF v \in S THEN x ELSE kr[v]
                               /\ h[v] = IF v \in S THEN y ELSE km[v]
    BY DEF Mem!Without, Behind
  <1>4. /\ g = [v \in Mem!Virtual |-> g[v]] /\ h = [v \in Mem!Virtual |-> h[v]]
    BY DEF Mem!Without
  <1> HIDE DEF kr, km, cuts
  <1>5. /\ \A v \in Mem!Virtual : r[v] \in RangeRec /\ m[v] \in MappingRec
        /\ Pieces(r) /\ Pieces(m)
        /\ x.first \in Nat /\ y.first \in Nat
    BY DEF PairOK, NewPiece, RangeRec, MappingRec, Mem!GuestMemoryAssumption
  <1>6. /\ x.first # 0 => x.first \in Nat \ {0} /\ \E b \in Nat : S = x.first .. b
        /\ y.first # 0 => y.first \in Nat \ {0} /\ \E b \in Nat : S = y.first .. b
    <2>1. x.first = 0 => y.first = 0
      BY DEF NewPiece, Mem!Unmapped
    <2>2. x.first # 0 => y.first = x.first /\ \E b \in Nat : S = x.first .. b
      BY DEF NewPiece
    <2> QED
      BY <1>5, <2>1, <2>2
  <1>7. Pieces(g)
    BY <1>5, <1>6, WithoutPieces
  <1>8. Pieces(h)
    BY <1>5, <1>6, WithoutPieces
  <1>9. ASSUME NEW v \in Mem!Virtual, v \notin S PROVE PageOK(g, h, v) /\ SamePage(r, g, v)
    <2>1. g[v] = kr[v] /\ h[v] = km[v] /\ PageOK(kr, km, v) /\ SamePage(r, kr, v)
      BY <1>2, <1>3, <1>9 DEF PairOK
    <2> QED
      BY <2>1 DEF PageOK, SamePage, Mem!PhysOf
  <1>10. ASSUME NEW v \in S PROVE PageOK(g, h, v)
    <2>1. g[v] = x /\ h[v] = y /\ v \in Mem!Virtual
      BY <1>3
    <2>2. CASE x.first = 0
      BY <2>1, <2>2 DEF PageOK, NewPiece, Mem!Unmapped
    <2>3. CASE x.first # 0
      <3>1. /\ y.first = x.first /\ y.offset = x.offset /\ y.prot = x.prot /\ x.type = "Direct"
            /\ x.offset + v - x.first \in Mem!Direct
            /\ x \in RangeRec /\ y \in MappingRec
        BY <2>3 DEF NewPiece
      <3>2. Mem!PhysOf(g, v) \in Mem!Direct /\ Mem!PhysOf(h, v) = Mem!PhysOf(g, v)
        BY <2>1, <3>1 DEF Mem!PhysOf
      <3> QED
        BY <1>5, <2>1, <2>3, <3>1, <3>2 DEF PageOK
    <2> QED
      BY <2>2, <2>3
  <1>11. g \in [Mem!Virtual -> RangeRec] /\ h \in [Mem!Virtual -> MappingRec]
    <2>1. \A v \in Mem!Virtual : PageOK(g, h, v)
      BY <1>9, <1>10
    <2> QED
      BY <1>4, <2>1 DEF PageOK
  <1> QED
    BY <1>3, <1>7, <1>8, <1>9, <1>10, <1>11 DEF PairOK

-----------------------------------------------------------------------------
(* Chunks: the pieces of ranges in a span.                                   *)

LEMMA ChunkShape ==
    ASSUME NEW a \in Nat, NEW b \in Nat, a <= b, NEW C \in Mem!Chunks(a .. b)
    PROVE  \E c, e \in a .. b :
              /\ c <= e /\ C = c .. e /\ Mem!Min(C) = c /\ Mem!Max(C) = e
              /\ \A v \in C : range[v] = range[c]
              /\ range[c] # Mem!None
              /\ c = a \/ range[c - 1] # range[c]
              /\ e = b \/ range[e + 1] # range[e]
  <1>1. PICK c \in a .. b :
            /\ C = {v \in a .. b : v >= c /\ Mem!Together(range, c, v)}
            /\ range[c] # Mem!None
            /\ c - 1 \in a .. b => range[c - 1] # range[c]
    BY DEF Mem!Chunks
  <1>2. c \in C /\ C \in SUBSET (0 .. b)
    BY <1>1 DEF Mem!Together
  <1> DEFINE e == Mem!Max(C)
  <1>3. e \in C /\ \A x \in C : x <= e
    BY <1>2, LargestOf
  <1> HIDE DEF e
  <1>4. e \in a .. b /\ c <= e /\ \A w \in c .. e : range[w] = range[c]
    BY <1>1, <1>3 DEF Mem!Together
  <1>5. C = c .. e
    <2>1. ASSUME NEW w \in C PROVE w \in c .. e
      BY <1>1, <1>3
    <2>2. ASSUME NEW w \in c .. e PROVE w \in C
      <3>1. w \in a .. b /\ w >= c /\ \A x \in c .. w : x \in c .. e
        BY <1>4
      <3> QED
        BY <1>1, <1>4, <3>1 DEF Mem!Together
    <2> QED
      BY <2>1, <2>2
  <1>6. e = b \/ range[e + 1] # range[e]
    <2>1. SUFFICES ASSUME e # b, range[e + 1] = range[e] PROVE FALSE
      OBVIOUS
    <2>2. e + 1 \in a .. b /\ e + 1 >= c
      BY <1>4, <2>1
    <2>3. ASSUME NEW w \in c .. e + 1 PROVE range[w] = range[c]
      <3>1. w \in c .. e \/ w = e + 1
        BY <1>4
      <3>2. e \in c .. e
        BY <1>4
      <3> QED
        BY <1>4, <2>1, <3>1, <3>2
    <2>4. e + 1 \in C
      BY <1>1, <2>2, <2>3 DEF Mem!Together
    <2> QED
      BY <1>3, <1>4, <2>4
  <1>7. Mem!Min(C) = c /\ Mem!Max(C) = e
    <2>1. c \in Nat /\ e \in Nat
      BY <1>1, <1>4
    <2> QED
      BY <1>4, <1>5, <2>1, SpanEnds
  <1>8. c = a \/ range[c - 1] # range[c]
    BY <1>1
  <1> QED
    BY <1>1, <1>4, <1>5, <1>6, <1>7, <1>8

LEMMA ChunkOf ==
    ASSUME NEW a \in Nat, NEW b \in Nat, NEW v \in a .. b, range[v] # Mem!None
    PROVE  \E C \in Mem!Chunks(a .. b) : v \in C
  <1> DEFINE T == {c \in a .. v : \A w \in c .. v : range[w] = range[v]}
  <1>1. v \in T /\ T \in SUBSET Nat
    OBVIOUS
  <1>2. PICK c \in T : \A x \in T : c <= x
    BY <1>1, LeastNatural
  <1>3. c \in a .. v /\ c \in a .. b /\ \A w \in c .. v : range[w] = range[v]
    BY <1>2
  <1>4. range[c] = range[v]
    BY <1>3
  <1>5. c - 1 \in a .. b => range[c - 1] # range[c]
    <2>1. SUFFICES ASSUME c - 1 \in a .. b, range[c - 1] = range[c] PROVE FALSE
      OBVIOUS
    <2>2. ASSUME NEW w \in c - 1 .. v PROVE range[w] = range[v]
      <3>1. w = c - 1 \/ w \in c .. v
        BY <1>3
      <3> QED
        BY <1>3, <1>4, <2>1, <3>1
    <2>3. c - 1 \in T
      BY <1>3, <2>1, <2>2
    <2> QED
      BY <1>2, <1>3, <2>3
  <1> DEFINE C == {x \in a .. b : x >= c /\ Mem!Together(range, c, x)}
  <1>6. C \in Mem!Chunks(a .. b)
    BY <1>3, <1>4, <1>5 DEF Mem!Chunks
  <1>7. v \in C
    BY <1>3, <1>4 DEF Mem!Together
  <1> QED
    BY <1>6, <1>7

\* Where a chunk begins or ends, the span or a piece of the ranges does.
LEMMA ChunkCuts ==
    ASSUME NEW a \in Nat, NEW b \in Nat, a <= b, NEW C \in Mem!Chunks(a .. b),
           NEW c \in {Mem!Min(C), Mem!Max(C) + 1}
    PROVE  /\ c \in Int
           /\ c = a \/ c = b + 1 \/ (c \in a + 1 .. b /\ range[c - 1] # range[c])
  <1>1. PICK x, e \in a .. b :
              /\ x <= e /\ Mem!Min(C) = x /\ Mem!Max(C) = e
              /\ x = a \/ range[x - 1] # range[x]
              /\ e = b \/ range[e + 1] # range[e]
    BY ChunkShape
  <1>2. CASE c = x
    BY <1>1, <1>2
  <1>3. CASE c = e + 1
    <2>1. c \in Int /\ c - 1 = e /\ c \in a + 1 .. b + 1
      BY <1>1, <1>3
    <2> QED
      BY <1>1, <1>3, <2>1
  <1> QED
    BY <1>1, <1>2, <1>3

\* The cuts cm cut no mapping that its range is not cut at, with the cuts cr.
CutTogether(cm, cr) ==
    \A v \in Mem!Virtual, c \in cm :
        range[v].type = "Direct" /\ mapping[v].first < c /\ c <= v
            => c \in cr \/ c <= range[v].first

\* Cuts at the ends of chunks cut no mapping that its range is not cut at.
LEMMA CutsMatch ==
    ASSUME Mem!GuestMemoryAssumption, PairOK(range, mapping),
           NEW a \in Mem!Virtual, NEW b \in Mem!Virtual, a <= b,
           NEW chunks \in SUBSET Mem!Chunks(a .. b),
           NEW cm, cm = UNION {{Mem!Min(C), Mem!Max(C) + 1} : C \in chunks}
    PROVE  /\ cm \in SUBSET Int
           /\ CutTogether(cm, {a, b + 1})
  <1>1. a \in Nat /\ b \in Nat /\ a \in 1 .. VirtualPages /\ b \in 1 .. VirtualPages
    BY DEF Mem!GuestMemoryAssumption, Mem!Virtual
  <1>2. ASSUME NEW c \in cm
        PROVE  /\ c \in Int
               /\ c = a \/ c = b + 1 \/ (c \in a + 1 .. b /\ range[c - 1] # range[c])
    <2>1. PICK C \in chunks : c \in {Mem!Min(C), Mem!Max(C) + 1}
      OBVIOUS
    <2> QED
      BY <1>1, <2>1, ChunkCuts
  <1>3. ASSUME NEW v \in Mem!Virtual, NEW c \in cm, range[v].type = "Direct", c <= v,
               c \notin {a, b + 1}, ~(c <= range[v].first)
        PROVE  FALSE
    <2>1. /\ v \in Nat /\ range[v].first \in 0 .. v /\ PageOK(range, mapping, v)
      BY PageNumbers
    <2>2. c \in a + 1 .. b /\ range[c - 1] # range[c]
      BY <1>2, <1>3
    <2>3. range[v].first # 0 /\ \A w \in range[v].first .. v : range[w] = range[v]
      BY <1>3, <2>1 DEF PageOK, PairOK, Pieces
    <2>4. c - 1 \in range[v].first .. v /\ c \in range[v].first .. v
      BY <1>1, <1>3, <2>1, <2>2
    <2> QED
      BY <2>2, <2>3, <2>4
  <1>4. cm \in SUBSET Int
    BY <1>2
  <1> QED
    BY <1>3, <1>4 DEF CutTogether

\* Whole pieces that change leave pieces.
LEMMA ProtectedPieces ==
    ASSUME NEW f, NEW g, NEW T, NEW prot, Pieces(f),
           \A v \in Mem!Virtual : /\ f[v].first \in Nat
                                  /\ f[v] \in RangeRec \/ f[v] \in MappingRec,
           \A v \in Mem!Virtual : f[v].first # 0 =>
               \A w \in f[v].first .. v : w \in Mem!Virtual /\ (w \in T <=> v \in T),
           \A v \in Mem!Virtual : g[v] = IF v \in T THEN [f[v] EXCEPT !.prot = prot] ELSE f[v]
    PROVE  Pieces(g)
  <1> SUFFICES ASSUME NEW v \in Mem!Virtual, g[v].first # 0
               PROVE  g[v].first \in 1 .. v /\ \A w \in g[v].first .. v : g[w] = g[v]
    BY DEF Pieces
  <1>1. g[v].first = f[v].first
    BY DEF RangeRec, MappingRec
  <1>2. f[v].first \in 1 .. v /\ \A w \in f[v].first .. v : f[w] = f[v]
    BY <1>1 DEF Pieces
  <1>3. ASSUME NEW w \in f[v].first .. v PROVE g[w] = g[v]
    BY <1>1, <1>2, <1>3
  <1> QED
    BY <1>1, <1>2, <1>3

\* The protection of whole pieces changes.
Protected(f, cuts, pages, prot) ==
    [v \in Mem!Virtual |-> IF v \in pages THEN [Mem!Cut(f, cuts)[v] EXCEPT !.prot = prot]
                           ELSE Mem!Cut(f, cuts)[v]]

\* Mprotect cuts the ranges and the mappings of a span, and gives them another
\* protection.
LEMMA ProtectPair ==
    ASSUME Mem!GuestMemoryAssumption, PairOK(range, mapping),
           NEW a \in Mem!Virtual, NEW b \in Mem!Virtual, a <= b, NEW prot \in Prots,
           \A v \in a .. b : Mem!Committed(v),
           NEW direct, direct = {v \in a .. b : range[v].type = "Direct"},
           NEW cm, cm = UNION {{Mem!Min(C), Mem!Max(C) + 1} :
                                  C \in {D \in Mem!Chunks(a .. b) : D \subseteq direct}},
           range' = Protected(range, {a, b + 1}, a .. b, prot),
           mapping' = Protected(mapping, cm, direct, prot)
    PROVE  /\ PairOK(range', mapping')
           /\ \A v \in Mem!Virtual : /\ range'[v].type = range[v].type
                                     /\ Mem!PhysOf(range', v) = Mem!PhysOf(range, v)
  <1> DEFINE cr == {a, b + 1}
             r == Mem!Cut(range, cr)
             m == Mem!Cut(mapping, cm)
  <1>1. /\ a \in Nat /\ b \in Nat /\ a \in 1 .. VirtualPages /\ b \in 1 .. VirtualPages
        /\ VirtualPages \in Nat
    BY DEF Mem!GuestMemoryAssumption, Mem!Virtual
  <1>2. /\ cm \in SUBSET Int /\ cr \in SUBSET Int
        /\ \A v \in Mem!Virtual, c \in cm :
              range[v].type = "Direct" /\ mapping[v].first < c /\ c <= v
                 => c \in cr \/ c <= range[v].first
    <2> DEFINE chunks == {D \in Mem!Chunks(a .. b) : D \subseteq direct}
    <2>1. /\ chunks \in SUBSET Mem!Chunks(a .. b)
          /\ cm = UNION {{Mem!Min(C), Mem!Max(C) + 1} : C \in chunks}
      OBVIOUS
    <2> HIDE DEF chunks
    <2>2. /\ cm \in SUBSET Int
          /\ CutTogether(cm, {a, b + 1})
      BY <2>1, CutsMatch
    <2>3. cr \in SUBSET Int
      BY <1>1
    <2> QED
      BY <2>2, <2>3 DEF CutTogether
  <1>3. PairOK(r, m) /\ \A v \in Mem!Virtual : SamePage(range, r, v)
    BY <1>2, CutPair
  <1>4. ASSUME NEW v \in Mem!Virtual
        PROVE  /\ r[v].first # 0 => /\ range[v].first # 0
                                    /\ \A c \in cr : range[v].first < c /\ c <= v => c <= r[v].first
               /\ m[v].first # 0 => /\ mapping[v].first # 0 /\ mapping[v].first <= m[v].first
                                    /\ \A c \in cm : mapping[v].first < c /\ c <= v => c <= m[v].first
    <2>1. /\ range[v] \in RangeRec /\ range[v].first <= v /\ mapping[v] \in MappingRec
          /\ mapping[v].first <= v /\ v \in Nat
      BY PageNumbers
    <2>2. /\ range[v].first = 0 => r[v] = range[v]
          /\ range[v].first # 0 =>
                \A c \in cr : range[v].first < c /\ c <= v => c <= r[v].first
      BY <1>2, <2>1, CutPage
    <2>3. /\ mapping[v].first = 0 => m[v] = mapping[v]
          /\ mapping[v].first # 0 => m[v].first \in mapping[v].first .. v
          /\ mapping[v].first # 0 =>
                \A c \in cm : mapping[v].first < c /\ c <= v => c <= m[v].first
      BY <1>2, <2>1, CutPage
    <2>4. mapping[v].first \in Nat
      BY PageNumbers
    <2> HIDE DEF r, m
    <2> QED
      BY <2>2, <2>3, <2>4
  <1> HIDE DEF r, m
  <1>5. ASSUME NEW v \in Mem!Virtual, r[v].first # 0, NEW w \in r[v].first .. v
        PROVE  w \in Mem!Virtual /\ (w \in a .. b <=> v \in a .. b)
    <2>1. /\ v \in 1 .. VirtualPages /\ r[v].first \in 0 .. v /\ w \in 1 .. v
      BY <1>3, <1>5, PageNumbers
    <2>2. range[v].first \in 0 .. v /\ v \in Nat
      BY PageNumbers
    <2>3. range[v].first < a /\ a <= v => a <= r[v].first
      BY <1>4, <1>5
    <2>4. range[v].first < b + 1 /\ b + 1 <= v => b + 1 <= r[v].first
      BY <1>4, <1>5
    <2>5. range[v].first <= r[v].first
      <3>1. r[v].first \in range[v].first .. v
        BY <1>2, <1>4, <1>5, <2>2, CutPage, PageNumbers DEF r
      <3> QED
        BY <2>2, <3>1
    <2>6. w \in Mem!Virtual
      BY <1>1, <2>1 DEF Mem!Virtual
    <2>7. w \in Int /\ r[v].first <= w /\ w <= v /\ r[v].first \in Int
      BY <1>5, <2>1
    <2> QED
      BY <1>1, <2>2, <2>3, <2>4, <2>5, <2>6, <2>7
  <1>6. ASSUME NEW v \in Mem!Virtual, m[v].first # 0, NEW w \in m[v].first .. v
        PROVE  w \in Mem!Virtual /\ (w \in direct <=> v \in direct)
    <2>1. /\ v \in 1 .. VirtualPages /\ m[v].first \in 0 .. v /\ w \in 1 .. v
      BY <1>3, <1>6, PageNumbers
    <2>2. mapping[v].first \in 0 .. v /\ v \in Nat /\ PageOK(range, mapping, v)
      BY PageNumbers
    <2>3. /\ mapping[v].first # 0 /\ mapping[v].first <= m[v].first
          /\ \A c \in cm : mapping[v].first < c /\ c <= v => c <= m[v].first
      BY <1>4, <1>6
    <2>4. w \in Mem!Virtual
      BY <1>1, <2>1 DEF Mem!Virtual
    <2>5. w \in Int /\ m[v].first <= w /\ w <= v /\ m[v].first \in Int
      BY <1>6, <2>1
    <2>6. \A u \in mapping[v].first .. v : mapping[u] = mapping[v]
      BY <2>3 DEF PairOK, Pieces
    <2>7. ASSUME NEW u \in direct
          PROVE  \E c, e \in a .. b : /\ u \in c .. e /\ c \in cm /\ e + 1 \in cm
                                      /\ c .. e \subseteq direct
                                      /\ e # b => range[e + 1] # range[e]
      <3>1. u \in a .. b /\ range[u].type = "Direct"
        OBVIOUS
      <3>2. range[u] # Mem!None
        BY <3>1 DEF Mem!None
      <3>3. PICK C \in Mem!Chunks(a .. b) : u \in C
        BY <1>1, <3>1, <3>2, ChunkOf
      <3>4. PICK c, e \in a .. b :
              /\ C = c .. e /\ Mem!Min(C) = c /\ Mem!Max(C) = e
              /\ \A x \in C : range[x] = range[c]
              /\ e = b \/ range[e + 1] # range[e]
        BY ONLY <1>1, <3>3, a <= b, ChunkShape
      <3>5. \A x \in C : x \in a .. b /\ range[x] = range[u]
        BY <1>1, <3>3, <3>4
      <3>6. C \subseteq direct
        BY <3>1, <3>5
      <3>7. Mem!Min(C) \in cm /\ Mem!Max(C) + 1 \in cm
        BY <3>3, <3>6
      <3> QED
        BY <3>3, <3>4, <3>6, <3>7
    <2>8. CASE v \in direct
      <3>1. PICK c, e \in a .. b : v \in c .. e /\ c \in cm /\ c .. e \subseteq direct
        BY <2>7, <2>8
      <3>2. c <= m[v].first
        BY <1>1, <2>2, <2>3, <2>5, <3>1
      <3>3. w \in c .. e
        BY <1>1, <2>5, <3>1, <3>2
      <3> QED
        BY <2>4, <2>8, <3>1, <3>3
    <2>9. CASE v \notin direct
      <3>1. SUFFICES ASSUME w \in direct PROVE FALSE
        BY <2>4, <2>9
      <3>2. PICK c, e \in a .. b : /\ w \in c .. e /\ e + 1 \in cm /\ c .. e \subseteq direct
        BY <2>7, <3>1
      <3>3. e < v
        BY <1>1, <2>2, <2>5, <2>9, <3>2
      <3>4. mapping[v].first < e + 1 /\ e + 1 <= v
        BY <1>1, <2>2, <2>3, <2>5, <3>2, <3>3
      <3>5. e + 1 <= m[v].first
        BY <2>3, <3>2, <3>4
      <3> QED
        BY <1>1, <2>5, <3>2, <3>5
    <2> QED
      BY <2>8, <2>9
  <1>7. /\ \A v \in Mem!Virtual : range'[v] = IF v \in a .. b THEN [r[v] EXCEPT !.prot = prot] ELSE r[v]
        /\ \A v \in Mem!Virtual : mapping'[v] = IF v \in direct THEN [m[v] EXCEPT !.prot = prot] ELSE m[v]
    BY DEF r, m, Protected
  <1>8. /\ Pieces(r) /\ Pieces(m)
        /\ \A v \in Mem!Virtual : /\ r[v].first \in Nat /\ m[v].first \in Nat
                                  /\ r[v] \in RangeRec /\ m[v] \in MappingRec
    <2>1. \A v \in Mem!Virtual : v \in Nat /\ r[v].first \in 0 .. v /\ m[v].first \in 0 .. v
      BY <1>3, PageNumbers
    <2>2. \A v \in Mem!Virtual : r[v].first \in Nat /\ m[v].first \in Nat
      BY <2>1
    <2> QED
      BY <1>3, <2>2 DEF PairOK
  <1>9. Pieces(range')
    <2> DEFINE span == a .. b
    <2>1. \A v \in Mem!Virtual : r[v].first # 0 =>
            \A w \in r[v].first .. v : w \in Mem!Virtual /\ (w \in span <=> v \in span)
      BY <1>5
    <2>2. \A v \in Mem!Virtual :
            range'[v] = IF v \in span THEN [r[v] EXCEPT !.prot = prot] ELSE r[v]
      BY <1>7
    <2>3. /\ Pieces(r)
          /\ \A v \in Mem!Virtual : /\ r[v].first \in Nat
                                    /\ r[v] \in RangeRec \/ r[v] \in MappingRec
      BY <1>8
    <2> HIDE DEF span
    <2> QED
      BY ONLY <2>1, <2>2, <2>3, ProtectedPieces
  <1>10. Pieces(mapping')
    <2>1. \A v \in Mem!Virtual : m[v].first # 0 =>
            \A w \in m[v].first .. v : w \in Mem!Virtual /\ (w \in direct <=> v \in direct)
      BY <1>6
    <2>2. \A v \in Mem!Virtual :
            mapping'[v] = IF v \in direct THEN [m[v] EXCEPT !.prot = prot] ELSE m[v]
      BY <1>7
    <2>3. /\ Pieces(m)
          /\ \A v \in Mem!Virtual : /\ m[v].first \in Nat
                                    /\ m[v] \in RangeRec \/ m[v] \in MappingRec
      BY <1>8
    <2> QED
      BY ONLY <2>1, <2>2, <2>3, ProtectedPieces
  <1>11. ASSUME NEW v \in Mem!Virtual
         PROVE  /\ PageOK(range', mapping', v)
                /\ range'[v].type = range[v].type /\ Mem!PhysOf(range', v) = Mem!PhysOf(range, v)
    <2>1. SamePage(range, r, v) /\ PageOK(r, m, v) /\ PageOK(range, mapping, v)
      BY <1>3 DEF PairOK
    <2>2. CASE v \in direct
      <3>1. v \in a .. b /\ range[v].type = "Direct"
        BY <2>2
      <3>2. /\ range'[v] = [r[v] EXCEPT !.prot = prot] /\ mapping'[v] = [m[v] EXCEPT !.prot = prot]
            /\ r[v] \in RangeRec /\ m[v] \in MappingRec
        BY <1>7, <1>8, <2>2, <3>1
      <3>3. /\ range'[v] \in RangeRec /\ mapping'[v] \in MappingRec
            /\ range'[v].first = r[v].first /\ range'[v].offset = r[v].offset
            /\ range'[v].type = r[v].type /\ range'[v].prot = prot
            /\ mapping'[v].first = m[v].first /\ mapping'[v].offset = m[v].offset
            /\ mapping'[v].prot = prot
        BY <3>2 DEF RangeRec, MappingRec
      <3>4. /\ Mem!PhysOf(range', v) = Mem!PhysOf(r, v)
            /\ Mem!PhysOf(mapping', v) = Mem!PhysOf(m, v)
        BY <3>3 DEF Mem!PhysOf
      <3> QED
        BY <2>1, <3>1, <3>3, <3>4 DEF PageOK, SamePage
    <2>3. CASE v \notin direct /\ v \in a .. b
      <3>1. range[v].type # "Direct" /\ Mem!Committed(v)
        BY <2>3
      <3>2. /\ range'[v] = [r[v] EXCEPT !.prot = prot] /\ mapping'[v] = m[v] /\ r[v] \in RangeRec
        BY <1>7, <1>8, <2>3
      <3>3. /\ range'[v] \in RangeRec /\ range'[v].first = r[v].first
            /\ range'[v].offset = r[v].offset /\ range'[v].type = r[v].type
        BY <3>2 DEF RangeRec
      <3>4. Mem!PhysOf(range', v) = Mem!PhysOf(r, v)
        BY <3>3 DEF Mem!PhysOf
      <3>5. r[v].type \notin {"none", "Direct"}
        BY <2>1, <3>1 DEF SamePage, Mem!Committed
      <3> QED
        BY <2>1, <3>2, <3>3, <3>4, <3>5 DEF PageOK, SamePage
    <2>4. CASE v \notin direct /\ v \notin a .. b
      <3>1. range'[v] = r[v] /\ mapping'[v] = m[v]
        BY <1>7, <2>4
      <3> QED
        BY <2>1, <3>1 DEF PageOK, SamePage, Mem!PhysOf
    <2> QED
      BY <2>2, <2>3, <2>4
  <1>12. range' \in [Mem!Virtual -> RangeRec] /\ mapping' \in [Mem!Virtual -> MappingRec]
    <2>1. \A v \in Mem!Virtual : range'[v] \in RangeRec /\ mapping'[v] \in MappingRec
      BY <1>11 DEF PageOK
    <2>2. /\ range' = [v \in Mem!Virtual |-> range'[v]]
          /\ mapping' = [v \in Mem!Virtual |-> mapping'[v]]
      BY DEF Protected
    <2> QED
      BY <2>1, <2>2
  <1> QED
    BY <1>9, <1>10, <1>11, <1>12 DEF PairOK

-----------------------------------------------------------------------------
(* Counting pages.                                                           *)

LEMMA MemCount ==
    ASSUME NEW S, IsFiniteSet(S)
    PROVE  Mem!Cardinality(S) = Cardinality(S) /\ Cardinality(S) \in Nat
  BY FS_CardinalityType DEF Mem!Cardinality, Cardinality

\* As many as a function tells apart.
LEMMA InjectiveCount ==
    ASSUME NEW S, IsFiniteSet(S), NEW f, \A u, v \in S : f[u] = f[v] => u = v,
           NEW T, T = {f[v] : v \in S}
    PROVE  IsFiniteSet(T) /\ Cardinality(T) = Cardinality(S)
  <1> DEFINE g == [v \in S |-> f[v]]
  <1>1. g \in Bijection(S, T)
    <2>1. g \in [S -> T] /\ \A v \in S : g[v] = f[v]
      OBVIOUS
    <2>2. \A t \in T : \E v \in S : g[v] = t
      OBVIOUS
    <2> HIDE DEF g
    <2> QED
      BY <2>1, <2>2 DEF Bijection, Injection, Surjection, IsInjective
  <1>2. ExistsBijection(S, T)
    BY <1>1 DEF ExistsBijection
  <1> QED
    BY <1>2, FS_Bijection

\* Some elements come first.
LEMMA LowestExists ==
    ASSUME NEW S \in SUBSET Nat, IsFiniteSet(S), NEW n \in Nat, n <= Cardinality(S)
    PROVE  \E T \in SUBSET S : Cardinality(T) = n /\ \A x \in T, y \in S \ T : x < y
  <1> DEFINE Good(k) == \E T \in SUBSET S : Cardinality(T) = k /\ \A x \in T, y \in S \ T : x < y
             Bad == {k \in Nat : k <= Cardinality(S) /\ ~Good(k)}
  <1>1. Cardinality(S) \in Nat
    BY FS_CardinalityType
  <1>2. SUFFICES ASSUME Bad # {} PROVE FALSE
    <2>1. n \notin Bad => Good(n)
      OBVIOUS
    <2> QED
      BY <1>2, <2>1
  <1>3. PICK k \in Bad : \A j \in Bad : k <= j
    <2>1. Bad \in SUBSET Nat
      OBVIOUS
    <2> HIDE DEF Bad
    <2> QED
      BY <1>2, <2>1, LeastNatural
  <1>4. k \in Nat /\ k <= Cardinality(S) /\ ~Good(k)
    OBVIOUS
  <1>5. k # 0
    <2>1. {} \in SUBSET S /\ Cardinality({}) = 0 /\ \A x \in {}, y \in S \ {} : x < y
      BY FS_EmptySet
    <2>2. Good(0)
      BY <2>1
    <2> QED
      BY <1>4, <2>2
  <1>6. Good(k - 1)
    <2>1. k - 1 \in Nat /\ k - 1 <= Cardinality(S) /\ ~(k <= k - 1)
      BY <1>1, <1>4, <1>5
    <2>2. k - 1 \notin Bad
      BY <1>3, <2>1
    <2> QED
      BY <2>1, <2>2
  <1>7. PICK T \in SUBSET S : Cardinality(T) = k - 1 /\ \A x \in T, y \in S \ T : x < y
    BY <1>6
  <1> HIDE DEF Bad
  <1>8. IsFiniteSet(T) /\ S \ T # {}
    <2>1. IsFiniteSet(T)
      BY FS_Subset
    <2>2. T # S
      BY <1>1, <1>4, <1>7
    <2> QED
      BY <2>1, <2>2
  <1>9. PICK m \in S \ T : \A y \in S \ T : m <= y
    <2>1. S \ T \in SUBSET Nat
      OBVIOUS
    <2> QED
      BY <1>8, <2>1, LeastNatural
  <1> DEFINE U == T \cup {m}
  <1>10. U \in SUBSET S /\ Cardinality(U) = k
    <2>1. Cardinality(U) = Cardinality(T) + 1
      BY <1>8, <1>9, FS_AddElement
    <2> QED
      BY <1>4, <1>7, <2>1
  <1>11. ASSUME NEW x \in U, NEW y \in S \ U PROVE x < y
    <2>1. y \in S \ T /\ y # m /\ m <= y /\ m \in Nat /\ y \in Nat
      BY <1>9
    <2>2. CASE x \in T
      BY <1>7, <2>1, <2>2
    <2>3. CASE x = m
      BY <2>1, <2>3
    <2> QED
      BY <2>2, <2>3
  <1> HIDE DEF U
  <1>12. Good(k)
    BY <1>10, <1>11
  <1> QED
    BY <1>4, <1>12

LEMMA LowestOf ==
    ASSUME NEW S \in SUBSET Nat, IsFiniteSet(S), NEW n \in Nat, n <= Cardinality(S)
    PROVE  /\ Mem!Lowest(S, n) \in SUBSET S /\ IsFiniteSet(Mem!Lowest(S, n))
           /\ Cardinality(Mem!Lowest(S, n)) = n
           /\ \A x \in Mem!Lowest(S, n), y \in S \ Mem!Lowest(S, n) : x < y
  <1>1. \E T \in SUBSET S : Cardinality(T) = n /\ \A x \in T, y \in S \ T : x < y
    BY LowestExists
  <1>2. \A T \in SUBSET S : IsFiniteSet(T) /\ Mem!Cardinality(T) = Cardinality(T)
    BY FS_Subset, MemCount
  <1>3. \E T \in SUBSET S : Mem!Cardinality(T) = n /\ \A x \in T, y \in S \ T : x < y
    BY <1>1, <1>2
  <1>4. /\ Mem!Lowest(S, n) \in SUBSET S /\ Mem!Cardinality(Mem!Lowest(S, n)) = n
        /\ \A x \in Mem!Lowest(S, n), y \in S \ Mem!Lowest(S, n) : x < y
    BY <1>3 DEF Mem!Lowest
  <1> QED
    BY <1>2, <1>4

\* The pages that are taken are given out, each once.
PagesOf(T, S, a) == [v \in S |-> CHOOSE q \in T : Mem!Cardinality({r \in T : r < q}) = v - a]

LEMMA GivenOut ==
    ASSUME NEW T \in SUBSET Nat, IsFiniteSet(T), NEW a \in Nat,
           NEW S, S = Mem!Span(a, Cardinality(T)),
           NEW page, page = PagesOf(T, S, a)
    PROVE  /\ page \in [S -> T] /\ \A u, v \in S : page[u] = page[v] => u = v
           /\ \A q \in T : \E v \in S : page[v] = q
  <1>1. Cardinality(T) \in Nat /\ S = a .. a + Cardinality(T) - 1
    BY FS_CardinalityType DEF Mem!Span
  <1>2. ASSUME NEW v \in S
        PROVE  \E q \in T : Mem!Cardinality({r \in T : r < q}) = v - a
    <2> DEFINE i == v - a
    <2>1. i \in Nat /\ i <= Cardinality(T) /\ i # Cardinality(T)
      BY <1>1
    <2> HIDE DEF i
    <2>2. PICK L \in SUBSET T : Cardinality(L) = i /\ \A x \in L, y \in T \ L : x < y
      BY <2>1, LowestExists
    <2>3. T \ L # {} /\ T \ L \in SUBSET Nat
      BY <2>1, <2>2
    <2>4. PICK q \in T \ L : \A y \in T \ L : q <= y
      BY <2>3, LeastNatural
    <2>5. {r \in T : r < q} = L
      <3>1. ASSUME NEW r \in T, r < q PROVE r \in L
        <4>1. r \in T \ L => q <= r /\ q \in Nat /\ r \in Nat
          BY <2>4
        <4> QED
          BY <3>1, <4>1
      <3>2. \A r \in L : r \in T /\ r < q
        BY <2>2, <2>4
      <3> QED
        BY <3>1, <3>2
    <2>6. Mem!Cardinality(L) = i
      BY <2>2, FS_Subset, MemCount
    <2> QED
      BY <2>4, <2>5, <2>6 DEF i
  <1>3. \A v \in S : page[v] \in T /\ Mem!Cardinality({r \in T : r < page[v]}) = v - a
    BY <1>2 DEF PagesOf
  <1>4. page \in [S -> T]
    BY <1>3 DEF PagesOf
  <1>5. \A u, v \in S : page[u] = page[v] => u = v
    <2>1. SUFFICES ASSUME NEW u \in S, NEW v \in S, page[u] = page[v] PROVE u = v
      OBVIOUS
    <2>2. u - a = v - a
      BY <1>3, <2>1
    <2> QED
      BY <1>1, <2>2
  <1>6. page \in Surjection(S, T)
    <2>1. page \in Injection(S, T)
      BY <1>4, <1>5 DEF Injection, IsInjective
    <2>2. IsFiniteSet(S) /\ Cardinality(S) = Cardinality(T)
      <3> DEFINE b == a + Cardinality(T) - 1
      <3>1. b \in Int /\ a \in Int /\ S = a .. b
        BY <1>1
      <3> HIDE DEF b
      <3>2. IsFiniteSet(S) /\ Cardinality(S) = IF a > b THEN 0 ELSE b - a + 1
        BY <3>1, FS_Interval
      <3>3. (IF a > b THEN 0 ELSE b - a + 1) = Cardinality(T)
        BY <1>1 DEF b
      <3> QED
        BY <3>2, <3>3
    <2> QED
      BY <2>1, <2>2, FS_Injection
  <1> QED
    BY <1>4, <1>5, <1>6 DEF Surjection

-----------------------------------------------------------------------------
(* The pages of the backing and their owners.                                *)

\* A flexible page is free or with one page of the guest, and counted.
FlexInv ==
    /\ flexible \in [Mem!Virtual -> Mem!Flexible \union {0}]
    /\ flexible_free \in SUBSET Mem!Flexible
    /\ \A u, v \in Mem!Virtual : flexible[u] = flexible[v] /\ flexible[u] # 0 => u = v
    /\ \A p \in Mem!Flexible : p \in flexible_free <=> \A v \in Mem!Virtual : flexible[v] # p
    /\ flexible_total = FlexiblePages - Cardinality(flexible_free)

\* A page of the pool is free or with one page of the guest.
PoolInv ==
    /\ pooled \in [Mem!Virtual -> 0 .. DirectPages] /\ pool_free \in SUBSET Mem!Direct
    /\ \A u, v \in Mem!Virtual : pooled[u] = pooled[v] /\ pooled[u] # 0 => u = v
    /\ \A p \in Mem!Direct : (\E v \in Mem!Virtual : pooled[v] = p)
                                 <=> block[p] = "pool" /\ p \notin pool_free
    /\ \A p \in pool_free : block[p] = "pool"

LEMMA MemNumbers ==
    ASSUME Mem!GuestMemoryAssumption
    PROVE  /\ VirtualPages \in Nat \ {0} /\ DirectPages \in Nat /\ FlexiblePages \in Nat
           /\ Mem!Virtual = 1 .. VirtualPages /\ Mem!Direct = 1 .. DirectPages
           /\ Mem!Virtual \in SUBSET Nat /\ Mem!Direct \in SUBSET Nat /\ Mem!Flexible \in SUBSET Nat
           /\ 0 \notin Mem!Flexible /\ 0 \notin Mem!Direct
           /\ IsFiniteSet(Mem!Virtual) /\ IsFiniteSet(Mem!Direct) /\ IsFiniteSet(Mem!Flexible)
           /\ Cardinality(Mem!Flexible) = FlexiblePages
  <1>1. VirtualPages \in Nat \ {0} /\ DirectPages \in Nat /\ FlexiblePages \in Nat
    BY DEF Mem!GuestMemoryAssumption
  <1>2. Mem!Virtual = 1 .. VirtualPages /\ Mem!Direct = 1 .. DirectPages
    BY DEF Mem!Virtual, Mem!Direct
  <1>3. Mem!Flexible = DirectPages + 1 .. DirectPages + FlexiblePages
    BY DEF Mem!Flexible
  <1>4. IsFiniteSet(Mem!Virtual) /\ IsFiniteSet(Mem!Direct)
    BY <1>1, <1>2, FS_Interval
  <1>5. /\ IsFiniteSet(Mem!Flexible)
        /\ Cardinality(Mem!Flexible) = FlexiblePages
    <2> DEFINE low == DirectPages + 1
               high == DirectPages + FlexiblePages
    <2>1. low \in Int /\ high \in Int
      BY <1>1
    <2> HIDE DEF low, high
    <2>2. /\ IsFiniteSet(low .. high)
          /\ Cardinality(low .. high) = IF low > high THEN 0 ELSE high - low + 1
      BY <2>1, FS_Interval
    <2>3. Mem!Flexible = low .. high
      BY <1>3 DEF low, high
    <2>4. (IF low > high THEN 0 ELSE high - low + 1) = FlexiblePages
      BY <1>1 DEF low, high
    <2> QED
      BY <2>2, <2>3, <2>4
  <1>7. /\ Mem!Virtual \in SUBSET Nat /\ Mem!Direct \in SUBSET Nat /\ Mem!Flexible \in SUBSET Nat
        /\ 0 \notin Mem!Flexible /\ 0 \notin Mem!Direct
    BY <1>1, <1>2, <1>3
  <1> QED
    BY <1>1, <1>2, <1>4, <1>5, <1>7

\* What pages of the guest give back.
Back(S) == {flexible[v] : v \in S} \ {0}
UsersIn(S) == {v \in S : flexible[v] # 0}

LEMMA FlexReturned ==
    ASSUME Mem!GuestMemoryAssumption, FlexInv, NEW S \in SUBSET Mem!Virtual,
           NEW back, back = Back(S), NEW U, U = UsersIn(S)
    PROVE  /\ back \in SUBSET Mem!Flexible /\ IsFiniteSet(back) /\ IsFiniteSet(U)
           /\ Cardinality(back) = Cardinality(U) /\ Cardinality(back) \in Nat
           /\ Mem!Cardinality(back) = Cardinality(back) /\ Mem!Cardinality(U) = Cardinality(U)
           /\ IsFiniteSet(flexible_free) /\ Cardinality(flexible_free) \in Nat
           /\ IsFiniteSet(flexible_free \union back)
           /\ Cardinality(flexible_free \union back) = Cardinality(flexible_free) + Cardinality(back)
  <1>1. back = {flexible[v] : v \in U}
    BY DEF Back, UsersIn
  <1>2. IsFiniteSet(U)
    BY MemNumbers, FS_Subset DEF UsersIn
  <1>3. \A u, v \in U : flexible[u] = flexible[v] => u = v
    BY DEF FlexInv, UsersIn
  <1>4. IsFiniteSet(back) /\ Cardinality(back) = Cardinality(U)
    BY <1>1, <1>2, <1>3, InjectiveCount
  <1>5. back \in SUBSET Mem!Flexible
    BY DEF FlexInv, Back
  <1>6. IsFiniteSet(flexible_free)
    BY MemNumbers, FS_Subset DEF FlexInv
  <1>7. flexible_free \cap back = {}
    BY <1>5 DEF FlexInv, Back
  <1>8. /\ IsFiniteSet(flexible_free \union back)
        /\ Cardinality(flexible_free \union back)
             = Cardinality(flexible_free) + Cardinality(back) - Cardinality({})
    BY <1>4, <1>6, <1>7, FS_Union
  <1>9. Cardinality(flexible_free) \in Nat /\ Cardinality(back) \in Nat /\ Cardinality({}) = 0
    BY <1>4, <1>6, FS_CardinalityType, FS_EmptySet
  <1>10. Mem!Cardinality(back) = Cardinality(back) /\ Mem!Cardinality(U) = Cardinality(U)
    BY <1>2, <1>4, MemCount
  <1>11. Cardinality(flexible_free \union back) = Cardinality(flexible_free) + Cardinality(back)
    BY <1>8, <1>9
  <1> QED
    BY <1>2, <1>4, <1>5, <1>6, <1>8, <1>9, <1>10, <1>11

LEMMA FlexReturns ==
    ASSUME Mem!GuestMemoryAssumption, FlexInv, NEW S \in SUBSET Mem!Virtual, Mem!GiveBack(S)
    PROVE  /\ FlexInv'
           /\ \A v \in Mem!Virtual : flexible'[v] = IF v \in S THEN 0 ELSE flexible[v]
  <1> DEFINE back == Back(S)
             U == UsersIn(S)
  <1>1. /\ flexible_free' = flexible_free \union back
        /\ flexible_total' = flexible_total - Mem!Cardinality(U)
        /\ flexible' = [v \in Mem!Virtual |-> IF v \in S THEN 0 ELSE flexible[v]]
    BY DEF Mem!GiveBack, Back, UsersIn
  <1>2. /\ back \in SUBSET Mem!Flexible
        /\ Mem!Cardinality(U) = Cardinality(back) /\ Cardinality(back) \in Nat
        /\ Cardinality(flexible_free) \in Nat
        /\ Cardinality(flexible_free \union back) = Cardinality(flexible_free) + Cardinality(back)
    BY FlexReturned
  <1>3. \A v \in Mem!Virtual : flexible'[v] = IF v \in S THEN 0 ELSE flexible[v]
    BY <1>1
  <1>4. 0 \notin Mem!Flexible /\ FlexiblePages \in Nat
    BY MemNumbers
  <1>5. \A p \in Mem!Flexible : p \in back <=> \E v \in S : flexible[v] = p
    BY <1>4 DEF Back
  <1> HIDE DEF back, U
  <1>6. flexible_total' = FlexiblePages - Cardinality(flexible_free')
    BY <1>1, <1>2, <1>4 DEF FlexInv
  <1>7. /\ flexible' \in [Mem!Virtual -> Mem!Flexible \union {0}]
        /\ flexible_free' \in SUBSET Mem!Flexible
    BY <1>1, <1>2 DEF FlexInv
  <1>8. \A u, v \in Mem!Virtual : flexible'[u] = flexible'[v] /\ flexible'[u] # 0 => u = v
    BY <1>3 DEF FlexInv
  <1>9. ASSUME NEW p \in Mem!Flexible
        PROVE  p \in flexible_free' <=> \A v \in Mem!Virtual : flexible'[v] # p
    <2>1. p \in flexible_free <=> \A v \in Mem!Virtual : flexible[v] # p
      BY DEF FlexInv
    <2>2. p \in back <=> \E v \in S : flexible[v] = p
      BY <1>5
    <2>3. CASE p \in back
      <3>1. PICK u \in S : flexible[u] = p
        BY <2>2, <2>3
      <3>2. \A v \in Mem!Virtual : v \notin S => flexible[v] # p
        BY <1>4, <3>1 DEF FlexInv
      <3> QED
        BY <1>1, <1>3, <1>4, <2>3, <3>2
    <2>4. CASE p \notin back
      BY <1>1, <1>3, <1>4, <2>1, <2>2, <2>4
    <2> QED
      BY <2>3, <2>4
  <1> QED
    BY <1>3, <1>6, <1>7, <1>8, <1>9 DEF FlexInv

\* The pages S are given their backing.
Given(f, S, page) == [v \in Mem!Virtual |-> IF v \in S THEN page[v] ELSE f[v]]

LEMMA FlexTakes ==
    ASSUME Mem!GuestMemoryAssumption, FlexInv, NEW a \in Nat, NEW n \in Nat \ {0},
           NEW S \in SUBSET Mem!Virtual, S = Mem!Span(a, n),
           n <= FlexiblePages - flexible_total,
           NEW back, back = Back(S),
           NEW taken, taken = Mem!Lowest(flexible_free \union back, n),
           NEW page, page = PagesOf(taken, S, a),
           flexible' = Given(flexible, S, page),
           flexible_free' = (flexible_free \union back) \ taken,
           flexible_total' = flexible_total - Mem!Cardinality(back) + n
    PROVE  /\ FlexInv'
           /\ page \in [S -> Mem!Flexible]
  <1> DEFINE all == flexible_free \union back
             U == UsersIn(S)
  <1>1. /\ back \in SUBSET Mem!Flexible
        /\ Mem!Cardinality(back) = Cardinality(back) /\ Cardinality(back) \in Nat
        /\ Cardinality(flexible_free) \in Nat
        /\ IsFiniteSet(all) /\ Cardinality(all) = Cardinality(flexible_free) + Cardinality(back)
    BY FlexReturned
  <1>2. 0 \notin Mem!Flexible /\ FlexiblePages \in Nat /\ Mem!Flexible \in SUBSET Nat
    BY MemNumbers
  <1>3. \A p \in Mem!Flexible : p \in back <=> \E v \in S : flexible[v] = p
    BY <1>2 DEF Back
  <1>4. all \in SUBSET Mem!Flexible /\ all \in SUBSET Nat /\ n \in Nat /\ n <= Cardinality(all)
    <2>1. flexible_free \in SUBSET Mem!Flexible /\ flexible_total = FlexiblePages - Cardinality(flexible_free)
      BY DEF FlexInv
    <2>2. all \in SUBSET Mem!Flexible
      BY <1>1, <2>1
    <2>3. all \in SUBSET Nat
      BY <1>2, <2>2
    <2> HIDE DEF all
    <2>4. n <= Cardinality(all)
      BY <1>1, <1>2, <2>1
    <2> QED
      BY <2>2, <2>3, <2>4
  <1> HIDE DEF all
  <1>5. taken \in SUBSET all /\ IsFiniteSet(taken) /\ Cardinality(taken) = n
    <2>1. taken = Mem!Lowest(all, n)
      BY DEF all
    <2>2. all \in SUBSET Nat /\ IsFiniteSet(all) /\ n \in Nat /\ n <= Cardinality(all)
      BY <1>1, <1>4
    <2> QED
      BY ONLY <2>1, <2>2, LowestOf
  <1>6. taken \in SUBSET Nat /\ S = Mem!Span(a, Cardinality(taken))
    BY <1>4, <1>5
  <1>7. /\ page \in [S -> taken] /\ \A u, v \in S : page[u] = page[v] => u = v
        /\ \A q \in taken : \E v \in S : page[v] = q
    <2>1. /\ IsFiniteSet(taken) /\ a \in Nat
          /\ page = PagesOf(taken, S, a)
      BY <1>5
    <2> QED
      BY ONLY <1>6, <2>1, GivenOut
  <1>8. \A v \in Mem!Virtual : flexible'[v] = IF v \in S THEN page[v] ELSE flexible[v]
    BY DEF Given
  <1>9. \A v \in S : page[v] \in Mem!Flexible /\ page[v] \in taken
    BY <1>4, <1>5, <1>7
  <1>10. flexible_total' = FlexiblePages - Cardinality(flexible_free')
    <2>1. /\ Cardinality(all \ taken) = Cardinality(all) - Cardinality(all \cap taken)
      BY <1>1, FS_Difference
    <2>2. all \cap taken = taken
      BY <1>5
    <2>3. flexible_free' = all \ taken
      BY DEF all
    <2>4. Cardinality(flexible_free') = Cardinality(flexible_free) + Cardinality(back) - n
      <3>1. Cardinality(flexible_free') = Cardinality(all) - Cardinality(taken)
        BY <2>1, <2>2, <2>3, Zenon
      <3> QED
        BY ONLY <1>1, <1>5, <3>1
    <2>5. flexible_total = FlexiblePages - Cardinality(flexible_free)
      BY DEF FlexInv
    <2>6. flexible_total' = flexible_total - Cardinality(back) + n
      BY <1>1
    <2> QED
      BY <1>1, <1>2, <2>4, <2>5, <2>6
  <1>11. /\ flexible' \in [Mem!Virtual -> Mem!Flexible \union {0}]
         /\ flexible_free' \in SUBSET Mem!Flexible
    <2>1. \A v \in Mem!Virtual : flexible'[v] \in Mem!Flexible \union {0}
      BY <1>8, <1>9 DEF FlexInv
    <2> QED
      BY <1>4, <2>1 DEF all, Given
  <1>12. \A q \in taken : \A v \in Mem!Virtual : v \notin S => flexible[v] # q
    <2>1. SUFFICES ASSUME NEW q \in taken, NEW v \in Mem!Virtual, v \notin S, flexible[v] = q
                   PROVE  FALSE
      OBVIOUS
    <2>2. q \in Mem!Flexible /\ q # 0
      BY <1>2, <1>4, <1>5
    <2>3. q \notin flexible_free
      BY <2>1, <2>2 DEF FlexInv
    <2>4. q \in back
      BY <1>5, <2>3 DEF all
    <2>5. PICK u \in S : flexible[u] = q
      BY <1>3, <2>2, <2>4
    <2> QED
      BY <2>1, <2>2, <2>5 DEF FlexInv
  <1>13. \A u, v \in Mem!Virtual : flexible'[u] = flexible'[v] /\ flexible'[u] # 0 => u = v
    <2>1. SUFFICES ASSUME NEW u \in Mem!Virtual, NEW v \in Mem!Virtual,
                          flexible'[u] = flexible'[v], flexible'[u] # 0
                   PROVE  u = v
      OBVIOUS
    <2>2. CASE u \in S /\ v \in S
      <3>1. flexible'[u] = page[u] /\ flexible'[v] = page[v]
        BY ONLY <1>8, <2>1, <2>2
      <3> QED
        BY ONLY <1>7, <2>1, <2>2, <3>1
    <2>3. CASE u \notin S /\ v \notin S
      <3>1. flexible'[u] = flexible[u] /\ flexible'[v] = flexible[v]
        BY ONLY <1>8, <2>1, <2>3
      <3> QED
        BY <2>1, <3>1 DEF FlexInv
    <2>4. CASE u \in S /\ v \notin S
      <3>1. flexible'[u] = page[u] /\ flexible'[v] = flexible[v]
        BY ONLY <1>8, <2>1, <2>4
      <3> QED
        BY ONLY <1>9, <1>12, <2>1, <2>4, <3>1
    <2>5. CASE u \notin S /\ v \in S
      <3>1. flexible'[u] = flexible[u] /\ flexible'[v] = page[v]
        BY ONLY <1>8, <2>1, <2>5
      <3> QED
        BY ONLY <1>9, <1>12, <2>1, <2>5, <3>1
    <2> QED
      BY <2>2, <2>3, <2>4, <2>5
  <1>14. ASSUME NEW p \in Mem!Flexible
         PROVE  p \in flexible_free' <=> \A v \in Mem!Virtual : flexible'[v] # p
    <2>1. p \in flexible_free <=> \A v \in Mem!Virtual : flexible[v] # p
      BY DEF FlexInv
    <2>2. p \in flexible_free' <=> (p \in flexible_free \/ p \in back) /\ p \notin taken
      OBVIOUS
    <2>3. CASE p \in taken
      <3>1. PICK v \in S : page[v] = p
        BY <1>7, <2>3
      <3>2. v \in Mem!Virtual /\ flexible'[v] = p
        BY <1>8, <3>1
      <3> QED
        BY <2>2, <2>3, <3>2
    <2>4. CASE p \notin taken /\ p \in back
      <3>1. PICK u \in S : flexible[u] = p
        BY <1>3, <2>4
      <3>2. \A v \in Mem!Virtual : v \notin S => flexible[v] # p
        BY <1>2, <3>1 DEF FlexInv
      <3> QED
        BY <1>8, <1>9, <2>2, <2>4, <3>2
    <2>5. CASE p \notin taken /\ p \notin back
      <3>1. \A v \in S : flexible[v] # p
        BY <1>3, <2>5
      <3> QED
        BY <1>8, <1>9, <2>1, <2>2, <2>5, <3>1
    <2> QED
      BY <2>3, <2>4, <2>5
  <1>15. page \in [S -> Mem!Flexible]
    BY <1>7, <1>9
  <1> QED
    BY <1>10, <1>11, <1>13, <1>14, <1>15 DEF FlexInv

LEMMA PoolReturns ==
    ASSUME Mem!GuestMemoryAssumption, PoolInv, NEW S \in SUBSET Mem!Virtual, Mem!GiveBack(S),
           block' = block
    PROVE  /\ PoolInv'
           /\ \A v \in Mem!Virtual : pooled'[v] = IF v \in S THEN 0 ELSE pooled[v]
  <1> DEFINE back == {pooled[v] : v \in S} \ {0}
  <1>1. /\ pool_free' = pool_free \union back
        /\ pooled' = [v \in Mem!Virtual |-> IF v \in S THEN 0 ELSE pooled[v]]
    BY DEF Mem!GiveBack
  <1>2. \A v \in Mem!Virtual : pooled'[v] = IF v \in S THEN 0 ELSE pooled[v]
    BY <1>1
  <1>3. 0 \notin Mem!Direct /\ Mem!Direct = 1 .. DirectPages /\ DirectPages \in Nat
    BY MemNumbers
  <1>4. \A p : p \in back <=> p # 0 /\ \E v \in S : pooled[v] = p
    OBVIOUS
  <1> HIDE DEF back
  <1>5. \A v \in Mem!Virtual : pooled[v] # 0 => pooled[v] \in Mem!Direct
    BY <1>3 DEF PoolInv
  <1>6. back \in SUBSET Mem!Direct
    BY <1>4, <1>5
  <1>7. pooled' \in [Mem!Virtual -> 0 .. DirectPages] /\ pool_free' \in SUBSET Mem!Direct
    BY <1>1, <1>3, <1>6 DEF PoolInv
  <1>8. \A u, v \in Mem!Virtual : pooled'[u] = pooled'[v] /\ pooled'[u] # 0 => u = v
    BY <1>2 DEF PoolInv
  <1>9. ASSUME NEW p \in Mem!Direct
        PROVE  (\E v \in Mem!Virtual : pooled'[v] = p) <=> block[p] = "pool" /\ p \notin pool_free'
    <2>1. (\E v \in Mem!Virtual : pooled[v] = p) <=> block[p] = "pool" /\ p \notin pool_free
      BY DEF PoolInv
    <2>2. p # 0
      BY <1>3
    <2>3. CASE p \in back
      <3>1. PICK u \in S : pooled[u] = p
        BY <1>4, <2>3
      <3>2. \A v \in Mem!Virtual : v \notin S => pooled[v] # p
        BY <2>2, <3>1 DEF PoolInv
      <3> QED
        BY <1>1, <1>2, <2>2, <2>3, <3>2
    <2>4. CASE p \notin back
      <3>1. \A v \in S : pooled[v] # p
        BY <1>4, <2>2, <2>4
      <3> QED
        BY <1>1, <1>2, <2>1, <2>2, <2>4, <3>1
    <2> QED
      BY <2>3, <2>4
  <1>10. \A p \in pool_free' : block[p] = "pool"
    <2>1. \A p \in back : block[p] = "pool"
      BY <1>4, <1>6 DEF PoolInv
    <2> QED
      BY <1>1, <2>1 DEF PoolInv
  <1> QED
    BY <1>2, <1>7, <1>8, <1>9, <1>10 DEF PoolInv

LEMMA PoolTakes ==
    ASSUME Mem!GuestMemoryAssumption, PoolInv, NEW a \in Nat, NEW n \in Nat \ {0},
           NEW S \in SUBSET Mem!Virtual, S = Mem!Span(a, n),
           Mem!Cardinality(pool_free) >= n, \A v \in S : pooled[v] = 0,
           NEW taken, taken = Mem!Lowest(pool_free, n),
           NEW page, page = PagesOf(taken, S, a),
           pooled' = Given(pooled, S, page),
           pool_free' = pool_free \ taken, block' = block
    PROVE  /\ PoolInv'
           /\ page \in [S -> Mem!Direct]
  <1>1. /\ 0 \notin Mem!Direct /\ Mem!Direct = 1 .. DirectPages /\ DirectPages \in Nat
        /\ Mem!Direct \in SUBSET Nat /\ IsFiniteSet(Mem!Direct)
    BY MemNumbers
  <1>2. /\ pool_free \in SUBSET Nat /\ IsFiniteSet(pool_free) /\ n \in Nat
        /\ n <= Cardinality(pool_free)
    <2>1. pool_free \in SUBSET Mem!Direct
      BY DEF PoolInv
    <2>2. IsFiniteSet(pool_free)
      BY <1>1, <2>1, FS_Subset
    <2>3. Mem!Cardinality(pool_free) = Cardinality(pool_free) /\ Cardinality(pool_free) \in Nat
      BY <2>2, MemCount
    <2> QED
      BY <1>1, <2>1, <2>2, <2>3
  <1>3. taken \in SUBSET pool_free /\ IsFiniteSet(taken) /\ Cardinality(taken) = n
    BY <1>2, LowestOf
  <1>4. taken \in SUBSET Nat /\ S = Mem!Span(a, Cardinality(taken))
    BY <1>2, <1>3
  <1>5. /\ page \in [S -> taken] /\ \A u, v \in S : page[u] = page[v] => u = v
        /\ \A q \in taken : \E v \in S : page[v] = q
    <2>1. IsFiniteSet(taken) /\ a \in Nat /\ page = PagesOf(taken, S, a)
      BY <1>3
    <2> QED
      BY ONLY <1>4, <2>1, GivenOut
  <1>6. \A v \in Mem!Virtual : pooled'[v] = IF v \in S THEN page[v] ELSE pooled[v]
    BY DEF Given
  <1>7. \A v \in S : page[v] \in taken /\ page[v] \in pool_free /\ page[v] \in Mem!Direct
    BY <1>3, <1>5 DEF PoolInv
  <1>8. \A q \in pool_free : \A v \in Mem!Virtual : pooled[v] # q
    BY DEF PoolInv
  <1>9. pooled' \in [Mem!Virtual -> 0 .. DirectPages] /\ pool_free' \in SUBSET Mem!Direct
    <2>1. \A v \in Mem!Virtual : pooled'[v] \in 0 .. DirectPages
      BY <1>1, <1>6, <1>7 DEF PoolInv
    <2> QED
      BY <2>1 DEF PoolInv, Given
  <1>10. \A u, v \in Mem!Virtual : pooled'[u] = pooled'[v] /\ pooled'[u] # 0 => u = v
    <2>1. SUFFICES ASSUME NEW u \in Mem!Virtual, NEW v \in Mem!Virtual,
                          pooled'[u] = pooled'[v], pooled'[u] # 0
                   PROVE  u = v
      OBVIOUS
    <2>2. CASE u \in S /\ v \in S
      <3>1. pooled'[u] = page[u] /\ pooled'[v] = page[v]
        BY ONLY <1>6, <2>1, <2>2
      <3> QED
        BY ONLY <1>5, <2>1, <2>2, <3>1
    <2>3. CASE u \notin S /\ v \notin S
      BY <1>6, <2>1, <2>3 DEF PoolInv
    <2>4. CASE u \in S /\ v \notin S
      BY <1>6, <1>7, <1>8, <2>1, <2>4
    <2>5. CASE u \notin S /\ v \in S
      BY <1>6, <1>7, <1>8, <2>1, <2>5
    <2> QED
      BY <2>2, <2>3, <2>4, <2>5
  <1>11. ASSUME NEW p \in Mem!Direct
         PROVE  (\E v \in Mem!Virtual : pooled'[v] = p) <=> block[p] = "pool" /\ p \notin pool_free'
    <2>1. (\E v \in Mem!Virtual : pooled[v] = p) <=> block[p] = "pool" /\ p \notin pool_free
      BY DEF PoolInv
    <2>2. p # 0
      BY <1>1
    <2>3. CASE p \in taken
      <3>1. PICK v \in S : page[v] = p
        BY <1>5, <2>3
      <3>2. pooled'[v] = p
        BY <1>6, <3>1
      <3>3. block[p] = "pool" /\ p \notin pool_free'
        BY <1>3, <2>3 DEF PoolInv
      <3> QED
        BY <3>1, <3>2, <3>3
    <2>4. CASE p \notin taken
      <3>1. \A v \in S : pooled'[v] # p /\ pooled[v] # p
        BY <1>6, <1>7, <2>2, <2>4
      <3> QED
        BY <1>6, <2>1, <2>4, <3>1
    <2> QED
      BY <2>3, <2>4
  <1>12. \A p \in pool_free' : block[p] = "pool"
    BY DEF PoolInv
  <1>13. page \in [S -> Mem!Direct]
    BY <1>5, <1>7
  <1> QED
    BY <1>9, <1>10, <1>11, <1>12, <1>13 DEF PoolInv

-----------------------------------------------------------------------------
(* The invariant of the guest's memory.                                      *)

\* An expansion of the pool owns its direct memory alone.
ExpInv ==
    /\ expansions \in SUBSET [start : Mem!Direct, size : Mem!Direct]
    /\ \A d, e \in expansions : \A p \in Mem!Direct :
           p \in Mem!Span(d.start, d.size) /\ p \in Mem!Span(e.start, e.size) => d = e
    /\ \A p \in Mem!Direct :
           block[p] = "pool" <=> \E e \in expansions : p \in Mem!Span(e.start, e.size)

\* What a page of the guest shows is what its owner gave it.
Backed(v) ==
    /\ range[v].type = "Flexible" <=> flexible[v] # 0
    /\ range[v].type = "Pooled" <=> pooled[v] # 0
    /\ range[v].type = "Direct" => /\ view[v] = Mem!PhysOf(range, v)
                                   /\ block[Mem!PhysOf(range, v)] = "direct"
    /\ range[v].type = "Flexible" => view[v] = flexible[v]
    /\ range[v].type = "Pooled" => view[v] = pooled[v]
    /\ ~Mem!Committed(v) => view[v] = 0

StoreInv ==
    /\ block \in [Mem!Direct -> {"free", "direct", "pool"}]
    /\ view \in [Mem!Virtual -> 0 .. DirectPages + FlexiblePages]
    /\ gpu_mapped \in SUBSET Mem!Virtual
    /\ \A v \in Mem!Virtual : Backed(v)

MemInv ==
    PairOK(range, mapping) /\ FlexInv /\ PoolInv /\ ExpInv /\ StoreInv /\ Mem!GpuSeesMapped

\* A span of the guest's pages.
LEMMA SpanIn ==
    ASSUME Mem!GuestMemoryAssumption, NEW a \in Mem!Virtual, NEW n \in Nat \ {0},
           a + n - 1 <= VirtualPages, NEW S, S = Mem!Span(a, n)
    PROVE  /\ S \in SUBSET Mem!Virtual /\ S # {} /\ a \in Nat /\ S = a .. a + n - 1
           /\ a + n - 1 \in Mem!Virtual /\ a <= a + n - 1
           /\ Mem!Min(S) = a /\ Mem!Max(S) = a + n - 1
           /\ IsFiniteSet(S) /\ Mem!Cardinality(S) = n
  <1>1. Mem!Virtual = 1 .. VirtualPages /\ VirtualPages \in Nat
    BY MemNumbers
  <1>2. a \in Nat /\ a >= 1
    BY <1>1
  <1> DEFINE b == a + n - 1
  <1>3. b \in Nat /\ a <= b /\ S = a .. b /\ b \in Mem!Virtual /\ a \in Int /\ b \in Int
    BY <1>1, <1>2 DEF Mem!Span
  <1>4. (IF a > b THEN 0 ELSE b - a + 1) = n
    BY <1>2
  <1> HIDE DEF b
  <1>5. S \in SUBSET Mem!Virtual /\ a \in S
    BY <1>1, <1>2, <1>3
  <1>6. Mem!Min(S) = a /\ Mem!Max(S) = b
    BY <1>2, <1>3, SpanEnds
  <1>7. IsFiniteSet(S) /\ Cardinality(S) = IF a > b THEN 0 ELSE b - a + 1
    BY <1>3, FS_Interval
  <1>8. Mem!Cardinality(S) = n
    BY <1>4, <1>7, MemCount
  <1> QED
    BY <1>2, <1>3, <1>5, <1>6, <1>7, <1>8 DEF b

\* The pages S get another record.
LEMMA TakenOut ==
    ASSUME Mem!GuestMemoryAssumption, PairOK(range, mapping),
           NEW S \in SUBSET Mem!Virtual, NEW x, NEW y, NewPiece(S, x, y),
           range' = Mem!Without(range, S, x), mapping' = Mem!Without(mapping, S, y)
    PROVE  /\ PairOK(range', mapping')
           /\ \A v \in S : range'[v] = x
           /\ \A v \in Mem!Virtual \ S : SamePage(range, range', v)
  <1>1. PairOK(range', mapping')
    BY WithoutPair
  <1>2. \A v \in S : range'[v] = x
    BY DEF Mem!Without
  <1>3. \A v \in Mem!Virtual : v \notin S => SamePage(range, range', v)
    BY WithoutPair
  <1> QED
    BY <1>1, <1>2, <1>3

\* A page nothing happens to.
LEMMA PageKept ==
    ASSUME NEW v \in Mem!Virtual, Backed(v), SamePage(range, range', v),
           flexible'[v] = flexible[v], pooled'[v] = pooled[v], view'[v] = view[v],
           range[v].type = "Direct" => block'[Mem!PhysOf(range, v)] = block[Mem!PhysOf(range, v)]
    PROVE  Backed(v)'
  BY DEF Backed, SamePage, Mem!Committed

LEMMA NothingThere ==
    ASSUME Mem!GuestMemoryAssumption, NEW S,
           NEW what \in {Mem!None, Mem!Reserved("Reserved"), Mem!Reserved("PoolReserved")}
    PROVE  NewPiece(S, what, Mem!Unmapped) /\ what.type \in {"none", "Reserved", "PoolReserved"}
  <1>1. 0 \in 0 .. VirtualPages /\ 0 \in 0 .. DirectPages
    BY MemNumbers
  <1>2. /\ what.first = 0 /\ what.offset = 0 /\ what.prot = NoProt
        /\ what.type \in {"none", "Reserved", "PoolReserved"}
        /\ what.type = "none" => what = Mem!None
    BY DEF Mem!None, Mem!Reserved
  <1>3. what \in RangeRec /\ Mem!Unmapped \in MappingRec
    BY <1>1 DEF RangeRec, MappingRec, Mem!None, Mem!Reserved, Mem!Unmapped
  <1> QED
    BY <1>2, <1>3 DEF NewPiece

\* Pages become free or reserved; their backing is returned.
LEMMA VacateKeeps ==
    ASSUME Mem!GuestMemoryAssumption, MemInv, NEW S \in SUBSET Mem!Virtual,
           NEW what, what \in {Mem!None, Mem!Reserved("Reserved"), Mem!Reserved("PoolReserved")},
           Mem!Vacate(S, what), gpu_mapped' \in SUBSET gpu_mapped, gpu_mapped' \cap S = {},
           block' = block, expansions' = expansions
    PROVE  MemInv'
  <1>1. /\ PairOK(range, mapping) /\ FlexInv /\ PoolInv /\ ExpInv /\ StoreInv
        /\ Mem!GpuSeesMapped
    BY DEF MemInv
  <1>2. /\ range' = Mem!Without(range, S, what)
        /\ mapping' = Mem!Without(mapping, S, Mem!Unmapped)
        /\ view' = [v \in Mem!Virtual |-> IF v \in S THEN 0 ELSE view[v]]
        /\ Mem!GiveBack(S)
    BY DEF Mem!Vacate
  <1>3. NewPiece(S, what, Mem!Unmapped) /\ what.type \in {"none", "Reserved", "PoolReserved"}
    BY NothingThere
  <1>4. /\ PairOK(range', mapping')
        /\ \A v \in S : range'[v] = what
        /\ \A v \in Mem!Virtual \ S : SamePage(range, range', v)
    BY <1>1, <1>2, <1>3, TakenOut
  <1>5. FlexInv' /\ \A v \in Mem!Virtual : flexible'[v] = IF v \in S THEN 0 ELSE flexible[v]
    BY <1>1, <1>2, FlexReturns
  <1>6. PoolInv' /\ \A v \in Mem!Virtual : pooled'[v] = IF v \in S THEN 0 ELSE pooled[v]
    BY <1>1, <1>2, PoolReturns
  <1>7. \A v \in Mem!Virtual : view'[v] = IF v \in S THEN 0 ELSE view[v]
    BY <1>2
  <1>8. ExpInv'
    BY <1>1 DEF ExpInv
  <1>9. ASSUME NEW v \in Mem!Virtual PROVE Backed(v)'
    <2>1. CASE v \in S
      BY <1>3, <1>4, <1>5, <1>6, <1>7, <2>1 DEF Backed
    <2>2. CASE v \notin S
      BY <1>1, <1>4, <1>5, <1>6, <1>7, <2>2, PageKept DEF StoreInv
    <2> QED
      BY <2>1, <2>2
  <1>10. view' \in [Mem!Virtual -> 0 .. DirectPages + FlexiblePages]
    <2>1. 0 \in 0 .. DirectPages + FlexiblePages
      BY MemNumbers
    <2>2. \A v \in Mem!Virtual : view[v] \in 0 .. DirectPages + FlexiblePages
      BY <1>1 DEF StoreInv
    <2> HIDE DEF MemInv
    <2>3. \A v \in Mem!Virtual : view'[v] \in 0 .. DirectPages + FlexiblePages
      BY <1>7, <2>1, <2>2
    <2> QED
      BY <1>2, <2>3
  <1>11. StoreInv'
    BY <1>1, <1>9, <1>10 DEF StoreInv
  <1>12. Mem!GpuSeesMapped'
    <2>1. SUFFICES ASSUME NEW v \in gpu_mapped' PROVE Mem!Committed(v)'
      BY DEF Mem!GpuSeesMapped
    <2>2. v \in gpu_mapped /\ v \notin S /\ v \in Mem!Virtual /\ Mem!Committed(v)
      BY <1>1 DEF Mem!GpuSeesMapped, StoreInv
    <2> QED
      BY <1>4, <2>2 DEF Mem!Committed, SamePage
  <1> QED
    BY <1>4, <1>5, <1>6, <1>8, <1>11, <1>12 DEF MemInv

\* Pages get a new view of the direct memory.
LEMMA MapAtKeeps ==
    ASSUME Mem!GuestMemoryAssumption, MemInv, NEW a \in Mem!Virtual, NEW n \in Nat \ {0},
           a + n - 1 <= VirtualPages, NEW p \in 1 .. DirectPages - n + 1, NEW prot \in Prots,
           Mem!Allocated(Mem!Span(p, n)), Mem!MapAt(Mem!Span(a, n), p, prot)
    PROVE  MemInv'
  <1> DEFINE S == Mem!Span(a, n)
             x == [type |-> "Direct", prot |-> prot, first |-> a, offset |-> p]
             y == [prot |-> prot, first |-> a, offset |-> p]
  <1>1. /\ PairOK(range, mapping) /\ FlexInv /\ PoolInv /\ ExpInv /\ StoreInv
        /\ Mem!GpuSeesMapped
    BY DEF MemInv
  <1>2. /\ S \in SUBSET Mem!Virtual /\ a \in Nat /\ S = a .. a + n - 1 /\ Mem!Min(S) = a
    BY SpanIn
  <1>3. /\ range' = Mem!Without(range, S, x)
        /\ mapping' = Mem!Without(mapping, S, y)
        /\ view' = [v \in Mem!Virtual |-> IF v \in S THEN p + v - a ELSE view[v]]
        /\ Mem!GiveBack(S)
        /\ gpu_mapped' = gpu_mapped \union S
        /\ block' = block /\ expansions' = expansions
    BY <1>2 DEF Mem!MapAt
  <1>4. /\ Mem!Virtual = 1 .. VirtualPages /\ Mem!Direct = 1 .. DirectPages
        /\ VirtualPages \in Nat /\ DirectPages \in Nat /\ FlexiblePages \in Nat /\ p \in Nat
    BY MemNumbers
  <1> HIDE DEF S
  <1>5. \A v \in S : v \in Nat /\ p + v - a \in Mem!Direct /\ block[p + v - a] = "direct"
    <2>1. SUFFICES ASSUME NEW v \in S
                   PROVE  v \in Nat /\ p + v - a \in Mem!Direct /\ block[p + v - a] = "direct"
      OBVIOUS
    <2>2. v \in Nat /\ a <= v /\ v <= a + n - 1
      BY <1>2
    <2>3. p + v - a \in p .. p + n - 1
      BY <1>2, <1>4, <2>2
    <2>4. p + v - a \in 1 .. DirectPages
      BY <1>2, <1>4, <2>2
    <2> QED
      BY <1>4, <2>2, <2>3, <2>4 DEF Mem!Allocated, Mem!Span
  <1>6. NewPiece(S, x, y)
    <2>1. x \in RangeRec /\ y \in MappingRec
      BY <1>4 DEF RangeRec, MappingRec
    <2>2. a # 0 /\ \E b \in Nat : S = a .. b
      <3>1. a # 0 /\ a + n - 1 \in Nat
        BY <1>2, <1>4
      <3> QED
        BY <1>2, <3>1
    <2> QED
      BY <1>5, <2>1, <2>2 DEF NewPiece
  <1> HIDE DEF x, y
  <1>7. x.type = "Direct" /\ x.first = a /\ x.offset = p
    BY DEF x
  <1>8. /\ PairOK(range', mapping')
        /\ \A v \in S : range'[v] = x
        /\ \A v \in Mem!Virtual \ S : SamePage(range, range', v)
    BY <1>1, <1>2, <1>3, <1>6, TakenOut
  <1>9. FlexInv' /\ \A v \in Mem!Virtual : flexible'[v] = IF v \in S THEN 0 ELSE flexible[v]
    BY <1>1, <1>2, <1>3, FlexReturns
  <1>10. PoolInv' /\ \A v \in Mem!Virtual : pooled'[v] = IF v \in S THEN 0 ELSE pooled[v]
    BY <1>1, <1>2, <1>3, PoolReturns
  <1>11. \A v \in Mem!Virtual : view'[v] = IF v \in S THEN p + v - a ELSE view[v]
    BY <1>3
  <1>12. ExpInv'
    BY <1>1, <1>3 DEF ExpInv
  <1>13. ASSUME NEW v \in Mem!Virtual PROVE Backed(v)'
    <2>1. CASE v \in S
      <3>1. range'[v] = x /\ flexible'[v] = 0 /\ pooled'[v] = 0 /\ view'[v] = p + v - a
        BY <1>8, <1>9, <1>10, <1>11, <2>1
      <3>2. Mem!PhysOf(range', v) = p + v - a
        BY <1>7, <3>1 DEF Mem!PhysOf
      <3> QED
        BY <1>3, <1>5, <1>7, <2>1, <3>1, <3>2 DEF Backed, Mem!Committed
    <2>2. CASE v \notin S
      BY <1>1, <1>3, <1>8, <1>9, <1>10, <1>11, <2>2, PageKept DEF StoreInv
    <2> QED
      BY <2>1, <2>2
  <1>14. view' \in [Mem!Virtual -> 0 .. DirectPages + FlexiblePages]
    <2>1. \A v \in Mem!Virtual : view[v] \in 0 .. DirectPages + FlexiblePages
      BY <1>1 DEF StoreInv
    <2>2. \A v \in S : p + v - a \in 0 .. DirectPages + FlexiblePages
      BY <1>4, <1>5
    <2>3. \A v \in Mem!Virtual : view'[v] \in 0 .. DirectPages + FlexiblePages
      BY <1>11, <2>1, <2>2
    <2> QED
      BY <1>3, <2>3
  <1>15. StoreInv'
    BY <1>1, <1>2, <1>3, <1>13, <1>14 DEF StoreInv
  <1>16. Mem!GpuSeesMapped'
    <2>1. SUFFICES ASSUME NEW v \in gpu_mapped' PROVE Mem!Committed(v)'
      BY DEF Mem!GpuSeesMapped
    <2>2. CASE v \in S
      BY <1>7, <1>8, <2>2 DEF Mem!Committed
    <2>3. CASE v \notin S
      <3>1. v \in gpu_mapped /\ v \in Mem!Virtual /\ Mem!Committed(v)
        BY <1>1, <1>3, <2>3 DEF Mem!GpuSeesMapped, StoreInv
      <3> QED
        BY <1>8, <2>3, <3>1 DEF Mem!Committed, SamePage
    <2> QED
      BY <2>2, <2>3
  <1> QED
    BY <1>8, <1>9, <1>10, <1>12, <1>15, <1>16 DEF MemInv

\* Pages get flexible memory.
LEMMA MapFlexibleKeeps ==
    ASSUME Mem!GuestMemoryAssumption, MemInv, NEW a \in Mem!Virtual, NEW n \in Nat \ {0},
           a + n - 1 <= VirtualPages, NEW prot \in Prots, n <= FlexiblePages - flexible_total,
           \A v \in Mem!Span(a, n) : range[v].type # "Pooled",
           Mem!MapFlexibleAt(Mem!Span(a, n), prot)
    PROVE  MemInv'
  <1> DEFINE S == Mem!Span(a, n)
             x == [Mem!None EXCEPT !.type = "Flexible", !.prot = prot]
             back == Back(S)
             taken == Mem!Lowest(flexible_free \union back, n)
             page == PagesOf(taken, S, a)
  <1>1. /\ PairOK(range, mapping) /\ FlexInv /\ PoolInv /\ ExpInv /\ StoreInv
        /\ Mem!GpuSeesMapped
    BY DEF MemInv
  <1>2. /\ S \in SUBSET Mem!Virtual /\ a \in Nat /\ Mem!Min(S) = a /\ Mem!Cardinality(S) = n
    BY SpanIn
  <1>3. /\ range' = Mem!Without(range, S, x)
        /\ mapping' = Mem!Without(mapping, S, Mem!Unmapped)
        /\ flexible' = Given(flexible, S, page)
        /\ flexible_free' = (flexible_free \union back) \ taken
        /\ flexible_total' = flexible_total - Mem!Cardinality(back) + n
        /\ view' = Given(view, S, page)
        /\ gpu_mapped' = gpu_mapped \union S
        /\ block' = block /\ pooled' = pooled /\ pool_free' = pool_free
        /\ expansions' = expansions
    BY <1>2 DEF Mem!MapFlexibleAt, Back, PagesOf, Given
  <1>4. /\ Mem!Flexible \in SUBSET Nat /\ 0 \notin Mem!Flexible
        /\ VirtualPages \in Nat /\ DirectPages \in Nat /\ FlexiblePages \in Nat
    BY MemNumbers
  <1> HIDE DEF S, back, taken, page
  <1>5. NewPiece(S, x, Mem!Unmapped)
    <2>1. 0 \in 0 .. VirtualPages /\ 0 \in 0 .. DirectPages
      BY <1>4
    <2>2. Mem!None \in RangeRec /\ Mem!Unmapped \in MappingRec /\ Mem!None.first = 0
      BY <2>1 DEF RangeRec, MappingRec, Mem!Unmapped, Mem!None
    <2>3. x \in RangeRec /\ x.type = "Flexible" /\ x.first = 0
      BY <2>2 DEF RangeRec
    <2> HIDE DEF x
    <2> QED
      BY <2>2, <2>3 DEF NewPiece
  <1>6. x.type = "Flexible" /\ x.first = 0
    BY DEF Mem!None
  <1> HIDE DEF x
  <1>7. /\ PairOK(range', mapping')
        /\ \A v \in S : range'[v] = x
        /\ \A v \in Mem!Virtual \ S : SamePage(range, range', v)
    BY <1>1, <1>2, <1>3, <1>5, TakenOut
  <1>8. /\ FlexInv'
        /\ \A v \in S : page[v] \in Mem!Flexible
        /\ \A v \in Mem!Virtual : flexible'[v] = IF v \in S THEN page[v] ELSE flexible[v]
    <2>1. S = Mem!Span(a, n) /\ back = Back(S) /\ taken = Mem!Lowest(flexible_free \union back, n)
          /\ page = PagesOf(taken, S, a) /\ FlexInv /\ n <= FlexiblePages - flexible_total
          /\ Mem!GuestMemoryAssumption /\ n \in Nat \ {0}
      BY <1>1 DEF S, back, taken, page
    <2>2. /\ flexible' = Given(flexible, S, page)
          /\ flexible_free' = (flexible_free \union back) \ taken
          /\ flexible_total' = flexible_total - Mem!Cardinality(back) + n
          /\ S \in SUBSET Mem!Virtual /\ a \in Nat
      BY <1>2, <1>3
    <2>3. FlexInv'
      BY ONLY <2>1, <2>2, FlexTakes
    <2>4. page \in [S -> Mem!Flexible]
      BY ONLY <2>1, <2>2, FlexTakes
    <2>5. \A v \in Mem!Virtual : flexible'[v] = IF v \in S THEN page[v] ELSE flexible[v]
      BY <2>2 DEF Given
    <2> QED
      BY <2>3, <2>4, <2>5
  <1>9. PoolInv' /\ ExpInv'
    BY <1>1, <1>3 DEF PoolInv, ExpInv
  <1>10. \A v \in Mem!Virtual : view'[v] = IF v \in S THEN page[v] ELSE view[v]
    BY <1>3 DEF Given
  <1>11. \A v \in S : pooled[v] = 0
    BY <1>1, <1>2 DEF StoreInv, Backed, S
  <1>12. ASSUME NEW v \in Mem!Virtual PROVE Backed(v)'
    <2>1. CASE v \in S
      <3>1. /\ range'[v] = x /\ flexible'[v] = page[v] /\ pooled'[v] = 0 /\ view'[v] = page[v]
            /\ page[v] # 0
        BY <1>3, <1>4, <1>7, <1>8, <1>10, <1>11, <2>1
      <3> QED
        BY <1>6, <3>1 DEF Backed, Mem!Committed
    <2>2. CASE v \notin S
      BY <1>1, <1>3, <1>7, <1>8, <1>10, <2>2, PageKept DEF StoreInv
    <2> QED
      BY <2>1, <2>2
  <1>13. view' \in [Mem!Virtual -> 0 .. DirectPages + FlexiblePages]
    <2>1. \A v \in Mem!Virtual : view[v] \in 0 .. DirectPages + FlexiblePages
      BY <1>1 DEF StoreInv
    <2>2. Mem!Flexible \in SUBSET (0 .. DirectPages + FlexiblePages)
      BY <1>4 DEF Mem!Flexible
    <2>3. \A v \in Mem!Virtual : view'[v] \in 0 .. DirectPages + FlexiblePages
      BY <1>8, <1>10, <2>1, <2>2
    <2> QED
      BY <1>3, <2>3 DEF Given
  <1>14. StoreInv'
    BY <1>1, <1>2, <1>3, <1>12, <1>13 DEF StoreInv
  <1>15. Mem!GpuSeesMapped'
    <2>1. SUFFICES ASSUME NEW v \in gpu_mapped' PROVE Mem!Committed(v)'
      BY DEF Mem!GpuSeesMapped
    <2>2. CASE v \in S
      BY <1>6, <1>7, <2>2 DEF Mem!Committed
    <2>3. CASE v \notin S
      <3>1. v \in gpu_mapped /\ v \in Mem!Virtual /\ Mem!Committed(v)
        BY <1>1, <1>3, <2>3 DEF Mem!GpuSeesMapped, StoreInv
      <3> QED
        BY <1>7, <2>3, <3>1 DEF Mem!Committed, SamePage
    <2> QED
      BY <2>2, <2>3
  <1> QED
    BY <1>7, <1>8, <1>9, <1>14, <1>15 DEF MemInv

-----------------------------------------------------------------------------
(* Direct memory and the pool's expansions.                                  *)

\* Direct memory that is not the pool's changes hands.
LEMMA BlockKept ==
    ASSUME PoolInv, ExpInv, pooled' = pooled, pool_free' = pool_free, expansions' = expansions,
           \A p \in Mem!Direct : block'[p] = "pool" <=> block[p] = "pool"
    PROVE  PoolInv' /\ ExpInv'
  <1>1. PoolInv'
    BY DEF PoolInv
  <1>2. ExpInv'
    BY DEF ExpInv
  <1> QED
    BY <1>1, <1>2

\* The ranges, the backing and the views are as they were.
LEMMA StoreKept ==
    ASSUME StoreInv, range' = range, flexible' = flexible, pooled' = pooled, view' = view,
           gpu_mapped' = gpu_mapped,
           block' \in [Mem!Direct -> {"free", "direct", "pool"}],
           \A p \in Mem!Direct : block[p] = "direct" => block'[p] = "direct",
           PairOK(range, mapping)
    PROVE  StoreInv'
  <1>1. ASSUME NEW v \in Mem!Virtual PROVE Backed(v)'
    <2>1. Backed(v) /\ PageOK(range, mapping, v)
      BY DEF StoreInv, PairOK
    <2>2. range[v].type = "Direct" => block'[Mem!PhysOf(range, v)] = block[Mem!PhysOf(range, v)]
      BY <2>1 DEF Backed, PageOK
    <2>3. SamePage(range, range', v)
      BY DEF SamePage
    <2> QED
      BY <2>1, <2>2, <2>3, PageKept
  <1> QED
    BY <1>1 DEF StoreInv

\* The place Alloc finds is free.
LEMMA FoundFree ==
    ASSUME Mem!GuestMemoryAssumption, NEW lo \in Mem!Direct, NEW n \in 1 .. DirectPages - lo + 1,
           Mem!AllocPlaces(lo, n) # {}, NEW start, start = Mem!Min(Mem!AllocPlaces(lo, n))
    PROVE  /\ start \in Mem!Direct /\ n \in Mem!Direct /\ Mem!Span(start, n) \in SUBSET Mem!Direct
           /\ \A q \in Mem!Span(start, n) : block[q] = "free"
  <1>1. Mem!Direct = 1 .. DirectPages /\ DirectPages \in Nat
    BY MemNumbers
  <1>2. Mem!AllocPlaces(lo, n) \in SUBSET Nat
    BY <1>1 DEF Mem!AllocPlaces
  <1>3. start \in Mem!AllocPlaces(lo, n)
    BY <1>2, SmallestOf
  <1>4. /\ start \in Mem!Direct /\ start + n - 1 <= DirectPages
        /\ \A q \in Mem!Span(start, n) : block[q] = "free"
    BY <1>3 DEF Mem!AllocPlaces
  <1>5. n \in Mem!Direct
    BY <1>1
  <1>6. Mem!Span(start, n) \in SUBSET Mem!Direct
    BY <1>1, <1>4, <1>5 DEF Mem!Span
  <1> QED
    BY <1>4, <1>5, <1>6

LEMMA AllocateKeeps ==
    ASSUME Mem!GuestMemoryAssumption, MemInv,
           NEW lo \in Mem!Direct, NEW n \in 1 .. DirectPages - lo + 1,
           Mem!KernelAllocateDirectMemory(lo, n)
    PROVE  MemInv'
  <1> DEFINE start == Mem!Min(Mem!AllocPlaces(lo, n))
             P == Mem!Span(start, n)
  <1>1. /\ PairOK(range, mapping) /\ FlexInv /\ PoolInv /\ ExpInv /\ StoreInv
        /\ Mem!GpuSeesMapped
    BY DEF MemInv
  <1>2. /\ Mem!AllocPlaces(lo, n) # {}
        /\ block' = [q \in Mem!Direct |-> IF q \in P THEN "direct" ELSE block[q]]
        /\ range' = range /\ mapping' = mapping /\ flexible' = flexible
        /\ flexible_free' = flexible_free /\ flexible_total' = flexible_total
        /\ pooled' = pooled /\ pool_free' = pool_free /\ expansions' = expansions
        /\ view' = view /\ gpu_mapped' = gpu_mapped
    BY DEF Mem!KernelAllocateDirectMemory, Mem!Alloc
  <1>3. \A q \in P : block[q] = "free"
    BY <1>2, FoundFree
  <1> HIDE DEF P
  <1>4. \A q \in Mem!Direct : block'[q] = IF q \in P THEN "direct" ELSE block[q]
    BY <1>2
  <1>5. block' \in [Mem!Direct -> {"free", "direct", "pool"}]
    BY <1>1, <1>2 DEF StoreInv
  <1>6. PoolInv' /\ ExpInv'
    BY <1>1, <1>2, <1>3, <1>4, BlockKept
  <1>7. StoreInv'
    BY <1>1, <1>2, <1>3, <1>4, <1>5, StoreKept
  <1>8. PairOK(range, mapping)' /\ FlexInv' /\ Mem!GpuSeesMapped'
    BY <1>1, <1>2 DEF FlexInv, Mem!GpuSeesMapped, Mem!Committed
  <1> QED
    BY <1>6, <1>7, <1>8 DEF MemInv

LEMMA ExpandKeeps ==
    ASSUME Mem!GuestMemoryAssumption, MemInv,
           NEW lo \in Mem!Direct, NEW n \in 1 .. DirectPages - lo + 1,
           Mem!KernelMemoryPoolExpand(lo, n)
    PROVE  MemInv'
  <1> DEFINE start == Mem!Min(Mem!AllocPlaces(lo, n))
             P == Mem!Span(start, n)
             e == [start |-> start, size |-> n]
  <1>1. /\ PairOK(range, mapping) /\ FlexInv /\ PoolInv /\ ExpInv /\ StoreInv
        /\ Mem!GpuSeesMapped
    BY DEF MemInv
  <1>2. /\ Mem!AllocPlaces(lo, n) # {}
        /\ block' = [q \in Mem!Direct |-> IF q \in P THEN "pool" ELSE block[q]]
        /\ expansions' = expansions \union {e}
        /\ pool_free' = pool_free \union P
        /\ range' = range /\ mapping' = mapping /\ flexible' = flexible
        /\ flexible_free' = flexible_free /\ flexible_total' = flexible_total
        /\ pooled' = pooled /\ view' = view /\ gpu_mapped' = gpu_mapped
    BY DEF Mem!KernelMemoryPoolExpand, Mem!Alloc
  <1>3. /\ start \in Mem!Direct /\ n \in Mem!Direct /\ P \in SUBSET Mem!Direct
        /\ \A q \in P : block[q] = "free"
    BY <1>2, FoundFree
  <1>4. e \in [start : Mem!Direct, size : Mem!Direct] /\ Mem!Span(e.start, e.size) = P
    BY <1>3
  <1> HIDE DEF P, e, start
  <1>5. \A q \in Mem!Direct : block'[q] = IF q \in P THEN "pool" ELSE block[q]
    BY <1>2
  <1>6. block' \in [Mem!Direct -> {"free", "direct", "pool"}]
    BY <1>1, <1>2 DEF StoreInv
  <1>7. PoolInv'
    <2>1. pooled' \in [Mem!Virtual -> 0 .. DirectPages] /\ pool_free' \in SUBSET Mem!Direct
      BY <1>1, <1>2, <1>3 DEF PoolInv
    <2>2. \A u, v \in Mem!Virtual : pooled'[u] = pooled'[v] /\ pooled'[u] # 0 => u = v
      BY <1>1, <1>2 DEF PoolInv
    <2>3. ASSUME NEW q \in Mem!Direct
          PROVE  (\E v \in Mem!Virtual : pooled'[v] = q) <=> block'[q] = "pool" /\ q \notin pool_free'
      <3>1. (\E v \in Mem!Virtual : pooled[v] = q) <=> block[q] = "pool" /\ q \notin pool_free
        BY <1>1 DEF PoolInv
      <3> QED
        BY <1>2, <1>3, <1>5, <3>1
    <2>4. \A q \in pool_free' : block'[q] = "pool"
      BY <1>1, <1>2, <1>3, <1>5 DEF PoolInv
    <2> QED
      BY <2>1, <2>2, <2>3, <2>4 DEF PoolInv
  <1>8. ExpInv'
    <2>1. expansions' \in SUBSET [start : Mem!Direct, size : Mem!Direct]
      BY <1>1, <1>2, <1>4 DEF ExpInv
    <2>2. \A d \in expansions : \A q \in Mem!Direct : q \in Mem!Span(d.start, d.size) => q \notin P
      BY <1>1, <1>3 DEF ExpInv
    <2>3. \A c, d \in expansions' : \A q \in Mem!Direct :
              q \in Mem!Span(c.start, c.size) /\ q \in Mem!Span(d.start, d.size) => c = d
      <3>1. SUFFICES ASSUME NEW c \in expansions', NEW d \in expansions', NEW q \in Mem!Direct,
                            q \in Mem!Span(c.start, c.size), q \in Mem!Span(d.start, d.size)
                     PROVE  c = d
        OBVIOUS
      <3>2. CASE c \in expansions /\ d \in expansions
        BY <1>1, <3>1, <3>2 DEF ExpInv
      <3>3. CASE c = e \/ d = e
        BY <1>2, <1>4, <2>2, <3>1, <3>3
      <3> QED
        BY <1>2, <3>2, <3>3
    <2>4. ASSUME NEW q \in Mem!Direct
          PROVE  block'[q] = "pool" <=> \E d \in expansions' : q \in Mem!Span(d.start, d.size)
      <3>1. block[q] = "pool" <=> \E d \in expansions : q \in Mem!Span(d.start, d.size)
        BY <1>1 DEF ExpInv
      <3>2. CASE q \in P
        <4>1. e \in expansions' /\ q \in Mem!Span(e.start, e.size)
          BY <1>2, <1>4, <3>2
        <4>2. block'[q] = "pool"
          BY <1>5, <3>2
        <4> QED
          BY <4>1, <4>2
      <3>3. CASE q \notin P
        BY <1>2, <1>4, <1>5, <3>1, <3>3
      <3> QED
        BY <3>2, <3>3
    <2> QED
      BY <2>1, <2>3, <2>4 DEF ExpInv
  <1>9. StoreInv'
    BY <1>1, <1>2, <1>3, <1>5, <1>6, StoreKept
  <1>10. PairOK(range, mapping)' /\ FlexInv' /\ Mem!GpuSeesMapped'
    BY <1>1, <1>2 DEF FlexInv, Mem!GpuSeesMapped, Mem!Committed
  <1> QED
    BY <1>7, <1>8, <1>9, <1>10 DEF MemInv

LEMMA ReleaseExpansionKeeps ==
    ASSUME Mem!GuestMemoryAssumption, MemInv,
           NEW p \in Mem!Direct, NEW n \in 1 .. DirectPages - p + 1,
           [start |-> p, size |-> n] \in expansions, Mem!Span(p, n) \subseteq pool_free,
           Mem!ReleaseExpansion(p, n)
    PROVE  MemInv'
  <1> DEFINE P == Mem!Span(p, n)
             e == [start |-> p, size |-> n]
  <1>1. /\ PairOK(range, mapping) /\ FlexInv /\ PoolInv /\ ExpInv /\ StoreInv
        /\ Mem!GpuSeesMapped
    BY DEF MemInv
  <1>2. /\ expansions' = expansions \ {e}
        /\ pool_free' = pool_free \ P
        /\ block' = [q \in Mem!Direct |-> IF q \in P THEN "free" ELSE block[q]]
        /\ range' = range /\ mapping' = mapping /\ flexible' = flexible
        /\ flexible_free' = flexible_free /\ flexible_total' = flexible_total
        /\ pooled' = pooled /\ view' = view /\ gpu_mapped' = gpu_mapped
    BY DEF Mem!ReleaseExpansion
  <1>3. e \in expansions /\ Mem!Span(e.start, e.size) = P /\ P \in SUBSET pool_free
    OBVIOUS
  <1> HIDE DEF P, e
  <1>4. \A q \in P : q \in Mem!Direct /\ block[q] = "pool"
    BY <1>1, <1>3 DEF PoolInv
  <1>5. \A q \in Mem!Direct : block'[q] = IF q \in P THEN "free" ELSE block[q]
    BY <1>2
  <1>6. block' \in [Mem!Direct -> {"free", "direct", "pool"}]
    BY <1>1, <1>2 DEF StoreInv
  <1>7. PoolInv'
    <2>1. pooled' \in [Mem!Virtual -> 0 .. DirectPages] /\ pool_free' \in SUBSET Mem!Direct
      BY <1>1, <1>2 DEF PoolInv
    <2>2. \A u, v \in Mem!Virtual : pooled'[u] = pooled'[v] /\ pooled'[u] # 0 => u = v
      BY <1>1, <1>2 DEF PoolInv
    <2>3. ASSUME NEW q \in Mem!Direct
          PROVE  (\E v \in Mem!Virtual : pooled'[v] = q) <=> block'[q] = "pool" /\ q \notin pool_free'
      <3>1. (\E v \in Mem!Virtual : pooled[v] = q) <=> block[q] = "pool" /\ q \notin pool_free
        BY <1>1 DEF PoolInv
      <3> QED
        BY <1>2, <1>3, <1>5, <3>1
    <2>4. \A q \in pool_free' : block'[q] = "pool"
      BY <1>1, <1>2, <1>5 DEF PoolInv
    <2> QED
      BY <2>1, <2>2, <2>3, <2>4 DEF PoolInv
  <1>8. ExpInv'
    <2>1. /\ expansions' \in SUBSET [start : Mem!Direct, size : Mem!Direct]
          /\ \A c, d \in expansions' : \A q \in Mem!Direct :
                q \in Mem!Span(c.start, c.size) /\ q \in Mem!Span(d.start, d.size) => c = d
      BY <1>1, <1>2 DEF ExpInv
    <2>2. \A d \in expansions' : \A q \in Mem!Direct : q \in Mem!Span(d.start, d.size) => q \notin P
      BY <1>1, <1>2, <1>3 DEF ExpInv
    <2>3. ASSUME NEW q \in Mem!Direct
          PROVE  block'[q] = "pool" <=> \E d \in expansions' : q \in Mem!Span(d.start, d.size)
      <3>1. block[q] = "pool" <=> \E d \in expansions : q \in Mem!Span(d.start, d.size)
        BY <1>1 DEF ExpInv
      <3> QED
        BY <1>2, <1>3, <1>5, <2>2, <3>1
    <2> QED
      BY <2>1, <2>3 DEF ExpInv
  <1>9. StoreInv'
    BY <1>1, <1>2, <1>4, <1>5, <1>6, StoreKept
  <1>10. PairOK(range, mapping)' /\ FlexInv' /\ Mem!GpuSeesMapped'
    BY <1>1, <1>2 DEF FlexInv, Mem!GpuSeesMapped, Mem!Committed
  <1> QED
    BY <1>7, <1>8, <1>9, <1>10 DEF MemInv

\* The pages that show direct memory.
LEMMA AliasesDirect ==
    ASSUME Mem!GuestMemoryAssumption, MemInv, NEW P, NEW v \in Mem!Virtual
    PROVE  /\ v \in Mem!AliasPages(P) => range[v].type = "Direct" /\ flexible[v] = 0 /\ pooled[v] = 0
           /\ range[v].type = "Direct" /\ v \notin Mem!AliasPages(P) => Mem!PhysOf(range, v) \notin P
  <1>1. PageOK(range, mapping, v) /\ Backed(v)
    BY DEF MemInv, PairOK, StoreInv
  <1>2. mapping[v] # Mem!Unmapped <=> range[v].type = "Direct"
    BY <1>1 DEF PageOK, Mem!Unmapped
  <1>3. v \in Mem!AliasPages(P) <=> mapping[v] # Mem!Unmapped /\ Mem!PhysOf(mapping, v) \in P
    BY DEF Mem!AliasPages
  <1> QED
    BY <1>1, <1>2, <1>3 DEF PageOK, Backed

LEMMA ReleaseAliasesKeeps ==
    ASSUME Mem!GuestMemoryAssumption, MemInv, NEW P \in SUBSET Mem!Direct, Mem!Allocated(P),
           Mem!ReleaseAliases(P)
    PROVE  MemInv'
  <1> DEFINE A == Mem!AliasPages(P)
  <1>1. /\ PairOK(range, mapping) /\ FlexInv /\ PoolInv /\ ExpInv /\ StoreInv
        /\ Mem!GpuSeesMapped
    BY DEF MemInv
  <1>2. A \in SUBSET Mem!Virtual
    BY DEF Mem!AliasPages
  <1>3. /\ \A v \in A : range[v].type = "Direct" /\ flexible[v] = 0 /\ pooled[v] = 0
        /\ \A v \in Mem!Virtual \ A : range[v].type = "Direct" => Mem!PhysOf(range, v) \notin P
    BY <1>2, AliasesDirect
  <1> HIDE DEF A
  <1>4. CASE /\ range' = Mem!Without(range, A, Mem!None)
             /\ mapping' = Mem!Without(mapping, A, Mem!Unmapped)
             /\ view' = [v \in Mem!Virtual |-> IF v \in A THEN 0 ELSE view[v]]
             /\ block' = [q \in Mem!Direct |-> IF q \in P THEN "free" ELSE block[q]]
             /\ gpu_mapped' = gpu_mapped \ A
             /\ flexible' = flexible /\ flexible_free' = flexible_free
             /\ flexible_total' = flexible_total /\ pooled' = pooled
             /\ pool_free' = pool_free /\ expansions' = expansions
    <2>1. NewPiece(A, Mem!None, Mem!Unmapped) /\ Mem!None.type = "none"
      BY NothingThere DEF Mem!None
    <2>2. /\ PairOK(range', mapping')
          /\ \A v \in A : range'[v] = Mem!None
          /\ \A v \in Mem!Virtual \ A : SamePage(range, range', v)
      BY <1>1, <1>2, <1>4, <2>1, TakenOut
    <2>3. \A q \in Mem!Direct : block'[q] = IF q \in P THEN "free" ELSE block[q]
      BY <1>4
    <2>4. \A q \in P : block[q] = "direct"
      BY DEF Mem!Allocated
    <2>5. PoolInv' /\ ExpInv'
      BY <1>1, <1>4, <2>3, <2>4, BlockKept
    <2>6. FlexInv'
      BY <1>1, <1>4 DEF FlexInv
    <2>7. \A v \in Mem!Virtual : view'[v] = IF v \in A THEN 0 ELSE view[v]
      BY <1>4
    <2>8. ASSUME NEW v \in Mem!Virtual PROVE Backed(v)'
      <3>1. CASE v \in A
        BY <1>3, <1>4, <2>1, <2>2, <2>7, <3>1 DEF Backed
      <3>2. CASE v \notin A
        <4>1. Backed(v) /\ PageOK(range, mapping, v)
          BY <1>1 DEF StoreInv, PairOK
        <4>2. range[v].type = "Direct" => block'[Mem!PhysOf(range, v)] = block[Mem!PhysOf(range, v)]
          BY <1>3, <2>3, <3>2, <4>1 DEF PageOK
        <4>3. SamePage(range, range', v) /\ view'[v] = view[v]
          BY <2>2, <2>7, <3>2
        <4> QED
          BY <1>4, <4>1, <4>2, <4>3, PageKept
      <3> QED
        BY <3>1, <3>2
    <2>9. view' \in [Mem!Virtual -> 0 .. DirectPages + FlexiblePages]
      <3>1. 0 \in 0 .. DirectPages + FlexiblePages
        BY MemNumbers
      <3>2. \A v \in Mem!Virtual : view[v] \in 0 .. DirectPages + FlexiblePages
        BY <1>1 DEF StoreInv
      <3> HIDE DEF MemInv
      <3>3. \A v \in Mem!Virtual : view'[v] \in 0 .. DirectPages + FlexiblePages
        BY <2>7, <3>1, <3>2
      <3> QED
        BY <1>4, <3>3
    <2>10. StoreInv'
      <3>1. block' \in [Mem!Direct -> {"free", "direct", "pool"}]
        BY <1>1, <1>4 DEF StoreInv
      <3> QED
        BY <1>1, <1>4, <2>8, <2>9, <3>1 DEF StoreInv
    <2>11. Mem!GpuSeesMapped'
      <3>1. SUFFICES ASSUME NEW v \in gpu_mapped' PROVE Mem!Committed(v)'
        BY DEF Mem!GpuSeesMapped
      <3>2. v \in gpu_mapped /\ v \in Mem!Virtual /\ v \notin A /\ Mem!Committed(v)
        BY <1>1, <1>4 DEF Mem!GpuSeesMapped, StoreInv
      <3> QED
        BY <2>2, <3>2 DEF Mem!Committed, SamePage
    <2> QED
      BY <2>2, <2>5, <2>6, <2>10, <2>11 DEF MemInv
  <1>5. CASE /\ gpu_mapped' = gpu_mapped \union A
             /\ range' = range /\ block' = block /\ mapping' = mapping /\ flexible' = flexible
             /\ flexible_free' = flexible_free /\ flexible_total' = flexible_total
             /\ pooled' = pooled /\ pool_free' = pool_free /\ expansions' = expansions
             /\ view' = view
    <2>1. PairOK(range, mapping)' /\ FlexInv' /\ PoolInv' /\ ExpInv'
      BY <1>1, <1>5 DEF FlexInv, PoolInv, ExpInv
    <2>2. \A v \in Mem!Virtual : Backed(v)'
      BY <1>1, <1>5 DEF StoreInv, Backed, Mem!Committed
    <2>3. StoreInv'
      BY <1>1, <1>2, <1>5, <2>2 DEF StoreInv
    <2>4. Mem!GpuSeesMapped'
      BY <1>1, <1>3, <1>5 DEF Mem!GpuSeesMapped, Mem!Committed
    <2> QED
      BY <2>1, <2>3, <2>4 DEF MemInv
  <1> QED
    BY <1>4, <1>5 DEF Mem!ReleaseAliases, A

-----------------------------------------------------------------------------
(* Ranges and mappings that are cut, protected and named.                    *)

\* What is mapped where does not change.
LEMMA MapSame ==
    ASSUME MemInv, PairOK(range', mapping'),
           \A v \in Mem!Virtual : /\ range'[v].type = range[v].type
                                  /\ Mem!PhysOf(range', v) = Mem!PhysOf(range, v),
           block' = block, flexible' = flexible, flexible_free' = flexible_free,
           flexible_total' = flexible_total, pooled' = pooled, pool_free' = pool_free,
           expansions' = expansions, view' = view,
           gpu_mapped' \in SUBSET Mem!Virtual, \A v \in gpu_mapped' : Mem!Committed(v)
    PROVE  MemInv'
  <1>1. /\ PairOK(range, mapping) /\ FlexInv /\ PoolInv /\ ExpInv /\ StoreInv
        /\ Mem!GpuSeesMapped
    BY DEF MemInv
  <1>2. FlexInv' /\ PoolInv' /\ ExpInv'
    BY <1>1 DEF FlexInv, PoolInv, ExpInv
  <1>3. \A v \in Mem!Virtual : Backed(v)'
    BY <1>1 DEF StoreInv, Backed, Mem!Committed
  <1>4. StoreInv'
    BY <1>1, <1>3 DEF StoreInv
  <1>5. Mem!GpuSeesMapped'
    BY DEF Mem!GpuSeesMapped, Mem!Committed
  <1> QED
    BY <1>2, <1>4, <1>5 DEF MemInv

\* The GPU keeps its pages.
LEMMA GpuSame ==
    ASSUME MemInv, gpu_mapped' = gpu_mapped
    PROVE  gpu_mapped' \in SUBSET Mem!Virtual /\ \A v \in gpu_mapped' : Mem!Committed(v)
  BY DEF MemInv, StoreInv, Mem!GpuSeesMapped

LEMMA RollBackKeeps ==
    ASSUME Mem!GuestMemoryAssumption, MemInv, NEW a \in Mem!Virtual, NEW n \in Nat \ {0},
           a + n - 1 <= VirtualPages, Mem!RollBack(Mem!Span(a, n))
    PROVE  MemInv'
  <1> DEFINE S == Mem!Span(a, n)
             b == a + n - 1
  <1>1. PairOK(range, mapping)
    BY DEF MemInv
  <1>2. /\ S \in SUBSET Mem!Virtual /\ a \in Nat /\ S = a .. b /\ b \in Mem!Virtual /\ a <= b
        /\ Mem!Min(S) = a /\ Mem!Max(S) = b
    BY SpanIn
  <1> HIDE DEF S, b
  <1>3. /\ \E C \in Mem!Chunks(S) :
              mapping' = Mem!Cut(mapping, UNION {{Mem!Min(B), Mem!Max(B) + 1} :
                             B \in {B \in Mem!Chunks(S) : Mem!Max(B) < Mem!Min(C)}})
        /\ range' = Mem!Cut(range, {a, b + 1})
        /\ gpu_mapped' = (gpu_mapped \ S) \union {v \in S : Mem!Committed(v)}
        /\ block' = block /\ flexible' = flexible /\ flexible_free' = flexible_free
        /\ flexible_total' = flexible_total /\ pooled' = pooled /\ pool_free' = pool_free
        /\ expansions' = expansions /\ view' = view
    BY <1>2 DEF Mem!RollBack, S
  <1>4. PICK C \in Mem!Chunks(S) :
              mapping' = Mem!Cut(mapping, UNION {{Mem!Min(B), Mem!Max(B) + 1} :
                             B \in {B \in Mem!Chunks(S) : Mem!Max(B) < Mem!Min(C)}})
    BY <1>3
  <1> DEFINE undone == {B \in Mem!Chunks(S) : Mem!Max(B) < Mem!Min(C)}
             cm == UNION {{Mem!Min(B), Mem!Max(B) + 1} : B \in undone}
  <1>5. undone \in SUBSET Mem!Chunks(a .. b)
    BY <1>2
  <1>6. mapping' = Mem!Cut(mapping, cm)
    BY <1>4
  <1> HIDE DEF undone
  <1>7. /\ cm \in SUBSET Int
        /\ \A v \in Mem!Virtual, c \in cm :
              range[v].type = "Direct" /\ mapping[v].first < c /\ c <= v
                 => c \in {a, b + 1} \/ c <= range[v].first
    <2>1. /\ cm = UNION {{Mem!Min(B), Mem!Max(B) + 1} : B \in undone}
          /\ Mem!GuestMemoryAssumption /\ a \in Mem!Virtual /\ b \in Mem!Virtual /\ a <= b
          /\ PairOK(range, mapping)
      BY <1>1, <1>2
    <2> HIDE DEF cm
    <2>2. cm \in SUBSET Int /\ CutTogether(cm, {a, b + 1})
      BY ONLY <1>5, <2>1, CutsMatch
    <2> QED
      BY <2>2 DEF CutTogether
  <1> HIDE DEF cm
  <1>8. {a, b + 1} \in SUBSET Int
    BY <1>2, MemNumbers
  <1>9. PairOK(range', mapping')
    BY <1>1, <1>3, <1>6, <1>7, <1>8, CutPair
  <1>10. \A v \in Mem!Virtual : SamePage(range, range', v)
    BY <1>1, <1>3, <1>6, <1>7, <1>8, CutPair
  <1>11. gpu_mapped' \in SUBSET Mem!Virtual /\ \A v \in gpu_mapped' : Mem!Committed(v)
    BY <1>2, <1>3 DEF MemInv, StoreInv, Mem!GpuSeesMapped
  <1>12. \A v \in Mem!Virtual : /\ range'[v].type = range[v].type
                                /\ Mem!PhysOf(range', v) = Mem!PhysOf(range, v)
    BY <1>10 DEF SamePage
  <1> QED
    BY <1>3, <1>9, <1>11, <1>12, MapSame

LEMMA NameKeeps ==
    ASSUME Mem!GuestMemoryAssumption, MemInv, NEW a \in Mem!Virtual, NEW n \in Nat \ {0},
           Mem!KernelSetVirtualRangeName(a, n)
    PROVE  MemInv'
  <1> DEFINE cr == {a, a + n}
             none == {}
  <1>1. PairOK(range, mapping)
    BY DEF MemInv
  <1>2. /\ range' = Mem!Cut(range, cr) /\ mapping' = mapping
        /\ gpu_mapped' = gpu_mapped
        /\ block' = block /\ flexible' = flexible /\ flexible_free' = flexible_free
        /\ flexible_total' = flexible_total /\ pooled' = pooled /\ pool_free' = pool_free
        /\ expansions' = expansions /\ view' = view
    BY DEF Mem!KernelSetVirtualRangeName
  <1>3. cr \in SUBSET Int
    BY MemNumbers
  <1>4. mapping' = Mem!Cut(mapping, none)
    <2>1. \A v \in Mem!Virtual : Mem!Cut(mapping, {})[v] = mapping[v]
      BY DEF Mem!Cut
    <2>2. Mem!Cut(mapping, {}) = [v \in Mem!Virtual |-> Mem!Cut(mapping, {})[v]]
      BY DEF Mem!Cut
    <2>3. mapping = [v \in Mem!Virtual |-> mapping[v]]
      BY <1>1 DEF PairOK
    <2> QED
      BY <1>2, <2>1, <2>2, <2>3
  <1>5. /\ none \in SUBSET Int
        /\ \A v \in Mem!Virtual, c \in none :
              range[v].type = "Direct" /\ mapping[v].first < c /\ c <= v
                 => c \in cr \/ c <= range[v].first
    OBVIOUS
  <1> HIDE DEF cr, none
  <1>6. PairOK(range', mapping')
    BY <1>1, <1>2, <1>3, <1>4, <1>5, CutPair
  <1>7. \A v \in Mem!Virtual : SamePage(range, range', v)
    BY <1>1, <1>2, <1>3, <1>4, <1>5, CutPair
  <1>8. \A v \in Mem!Virtual : /\ range'[v].type = range[v].type
                               /\ Mem!PhysOf(range', v) = Mem!PhysOf(range, v)
    BY <1>7 DEF SamePage
  <1>9. gpu_mapped' \in SUBSET Mem!Virtual /\ \A v \in gpu_mapped' : Mem!Committed(v)
    BY <1>2, GpuSame
  <1> QED
    BY <1>2, <1>6, <1>8, <1>9, MapSame

LEMMA ProtectKeeps ==
    ASSUME Mem!GuestMemoryAssumption, MemInv, NEW a \in Mem!Virtual, NEW n \in Nat \ {0},
           a + n - 1 <= VirtualPages, NEW prot \in Prots, Mem!KernelMprotect(a, n, prot)
    PROVE  MemInv'
  <1> DEFINE S == Mem!Span(a, n)
             b == a + n - 1
             direct == {v \in S : range[v].type = "Direct"}
             cm == UNION {{Mem!Min(C), Mem!Max(C) + 1} :
                             C \in {D \in Mem!Chunks(S) : D \subseteq direct}}
  <1>1. PairOK(range, mapping)
    BY DEF MemInv
  <1>2. a \in Nat /\ S = a .. b /\ b \in Mem!Virtual /\ a <= b /\ a + n = b + 1
    BY SpanIn
  <1>3. /\ \A v \in S : Mem!Committed(v)
        /\ range' = Protected(range, {a, a + n}, S, prot)
        /\ mapping' = Protected(mapping, cm, direct, prot)
        /\ gpu_mapped' = gpu_mapped
        /\ block' = block /\ flexible' = flexible /\ flexible_free' = flexible_free
        /\ flexible_total' = flexible_total /\ pooled' = pooled /\ pool_free' = pool_free
        /\ expansions' = expansions /\ view' = view
    BY DEF Mem!KernelMprotect, Protected
  <1> HIDE DEF S, b
  <1>4. /\ direct = {v \in a .. b : range[v].type = "Direct"}
        /\ cm = UNION {{Mem!Min(C), Mem!Max(C) + 1} :
                          C \in {D \in Mem!Chunks(a .. b) : D \subseteq direct}}
    BY <1>2
  <1> HIDE DEF direct, cm
  <1>5. /\ range' = Protected(range, {a, b + 1}, a .. b, prot)
        /\ mapping' = Protected(mapping, cm, direct, prot)
        /\ \A v \in a .. b : Mem!Committed(v)
    BY <1>2, <1>3
  <1>6. PairOK(range', mapping')
    BY <1>1, <1>2, <1>4, <1>5, ProtectPair
  <1>7. \A v \in Mem!Virtual : /\ range'[v].type = range[v].type
                               /\ Mem!PhysOf(range', v) = Mem!PhysOf(range, v)
    BY <1>1, <1>2, <1>4, <1>5, ProtectPair
  <1>8. gpu_mapped' \in SUBSET Mem!Virtual /\ \A v \in gpu_mapped' : Mem!Committed(v)
    BY <1>3, GpuSame
  <1> QED
    BY <1>3, <1>6, <1>7, <1>8, MapSame

-----------------------------------------------------------------------------
(* The calls.                                                                *)

\* The place a call finds for itself is free.
LEMMA PlaceFree ==
    ASSUME Mem!GuestMemoryAssumption, NEW a \in Mem!Virtual, NEW n \in Nat \ {0},
           Mem!FreePlaces(a, n) # {}, NEW place, place = Mem!Min(Mem!FreePlaces(a, n))
    PROVE  /\ place \in Mem!Virtual /\ place + n - 1 <= VirtualPages
           /\ \A v \in Mem!Span(place, n) : range[v] = Mem!None
  <1>1. Mem!FreePlaces(a, n) \in SUBSET Nat
    BY MemNumbers DEF Mem!FreePlaces
  <1>2. place \in Mem!FreePlaces(a, n)
    BY <1>1, SmallestOf
  <1> QED
    BY <1>2 DEF Mem!FreePlaces

LEMMA MunmapKeeps ==
    ASSUME Mem!GuestMemoryAssumption, MemInv, NEW a \in Mem!Virtual, NEW n \in Nat \ {0},
           a + n - 1 <= VirtualPages, Mem!KernelMunmap(a, n)
    PROVE  MemInv'
  <1> DEFINE S == Mem!Span(a, n)
             b == a + n - 1
  <1>1. /\ S \in SUBSET Mem!Virtual /\ a \in Nat /\ S = a .. b /\ b \in Mem!Virtual /\ a <= b
        /\ a + n = b + 1 /\ b \in Nat
    BY SpanIn, MemNumbers
  <1>2. /\ \E stop \in {Mem!Min(C) : C \in Mem!Chunks(S)} \union {a + n} :
              Mem!Vacate(a .. stop - 1, Mem!None)
        /\ gpu_mapped' = gpu_mapped \ S
        /\ block' = block /\ expansions' = expansions
    BY DEF Mem!KernelMunmap
  <1> HIDE DEF S, b
  <1>3. PICK stop \in {Mem!Min(C) : C \in Mem!Chunks(S)} \union {a + n} :
              Mem!Vacate(a .. stop - 1, Mem!None)
    BY <1>2
  <1>4. stop \in a .. b + 1
    <2>1. CASE stop = a + n
      BY <1>1, <2>1
    <2>2. CASE stop # a + n
      <3>1. PICK C \in Mem!Chunks(a .. b) : stop = Mem!Min(C)
        BY <1>1, <2>2
      <3>2. Mem!Min(C) \in a .. b
        BY <1>1, ChunkShape
      <3> QED
        BY <1>1, <3>1, <3>2
    <2> QED
      BY <2>1, <2>2
  <1> DEFINE T == a .. stop - 1
  <1>5. T \in SUBSET S
    BY <1>1, <1>4
  <1>6. T \in SUBSET Mem!Virtual /\ gpu_mapped' \in SUBSET gpu_mapped /\ gpu_mapped' \cap T = {}
    BY <1>1, <1>2, <1>5
  <1>7. Mem!Vacate(T, Mem!None)
    BY <1>3
  <1> HIDE DEF T
  <1> QED
    BY <1>2, <1>6, <1>7, VacateKeeps

LEMMA DecommitKeeps ==
    ASSUME Mem!GuestMemoryAssumption, MemInv, NEW a \in Mem!Virtual, NEW n \in Nat \ {0},
           a + n - 1 <= VirtualPages, Mem!KernelMemoryPoolDecommit(a, n)
    PROVE  MemInv'
  <1> DEFINE S == {v \in Mem!Span(a, n) : range[v].type = "Pooled"}
  <1>1. Mem!Span(a, n) \in SUBSET Mem!Virtual
    BY SpanIn
  <1>2. /\ Mem!Vacate(S, Mem!Reserved("PoolReserved"))
        /\ gpu_mapped' = gpu_mapped \ Mem!Span(a, n)
        /\ block' = block /\ expansions' = expansions
    BY DEF Mem!KernelMemoryPoolDecommit
  <1>3. S \in SUBSET Mem!Virtual /\ gpu_mapped' \in SUBSET gpu_mapped /\ gpu_mapped' \cap S = {}
    BY <1>1, <1>2
  <1> HIDE DEF S
  <1> QED
    BY <1>2, <1>3, VacateKeeps

\* Pages become reserved, though the mapping was meant for them or the pool.
LEMMA ReserveKeeps ==
    ASSUME Mem!GuestMemoryAssumption, MemInv, NEW S \in SUBSET Mem!Virtual,
           Mem!ReserveAt(S) \/ Mem!PoolReserveAt(S) \/ Mem!MapFails(S)
    PROVE  MemInv'
  <1>1. PICK what \in {Mem!Reserved("Reserved"), Mem!Reserved("PoolReserved")} :
            Mem!Vacate(S, what)
    BY DEF Mem!ReserveAt, Mem!PoolReserveAt, Mem!MapFails
  <1>2. gpu_mapped' = gpu_mapped \ S /\ block' = block /\ expansions' = expansions
    BY DEF Mem!ReserveAt, Mem!PoolReserveAt, Mem!MapFails
  <1>3. gpu_mapped' \in SUBSET gpu_mapped /\ gpu_mapped' \cap S = {}
    BY <1>2
  <1> QED
    BY <1>1, <1>2, <1>3, VacateKeeps

LEMMA CommitKeeps ==
    ASSUME Mem!GuestMemoryAssumption, MemInv, NEW a \in Mem!Virtual, NEW n \in Nat \ {0},
           a + n - 1 <= VirtualPages, NEW prot \in Prots, Mem!KernelMemoryPoolCommit(a, n, prot)
    PROVE  MemInv'
  <1> DEFINE S == Mem!Span(a, n)
             x == [Mem!None EXCEPT !.type = "Pooled", !.prot = prot]
             taken == Mem!Lowest(pool_free, n)
             page == PagesOf(taken, S, a)
  <1>1. /\ PairOK(range, mapping) /\ FlexInv /\ PoolInv /\ ExpInv /\ StoreInv
        /\ Mem!GpuSeesMapped
    BY DEF MemInv
  <1>2. S \in SUBSET Mem!Virtual /\ a \in Nat
    BY SpanIn
  <1>3. /\ \A v \in S : range[v].type = "PoolReserved"
        /\ Mem!Cardinality(pool_free) >= n
        /\ range' = [v \in Mem!Virtual |-> IF v \in S THEN x ELSE range[v]]
        /\ pooled' = Given(pooled, S, page) /\ pool_free' = pool_free \ taken
        /\ view' = Given(view, S, page) /\ gpu_mapped' = gpu_mapped \union S
        /\ block' = block /\ mapping' = mapping /\ flexible' = flexible
        /\ flexible_free' = flexible_free /\ flexible_total' = flexible_total
        /\ expansions' = expansions
    BY DEF Mem!KernelMemoryPoolCommit, PagesOf, Given
  <1>4. /\ Mem!Direct \in SUBSET Nat /\ 0 \notin Mem!Direct
        /\ VirtualPages \in Nat /\ DirectPages \in Nat /\ FlexiblePages \in Nat
        /\ Mem!Direct = 1 .. DirectPages
    BY MemNumbers
  <1>5. x \in RangeRec /\ x.type = "Pooled" /\ x.first = 0
    <2>1. 0 \in 0 .. VirtualPages /\ 0 \in 0 .. DirectPages
      BY <1>4
    <2>2. Mem!None \in RangeRec /\ Mem!None.first = 0
      BY <2>1 DEF RangeRec, Mem!None
    <2> QED
      BY <2>2 DEF RangeRec
  <1> HIDE DEF S, x, taken, page
  <1>6. \A v \in Mem!Virtual : range'[v] = IF v \in S THEN x ELSE range[v]
    BY <1>3
  <1>7. \A v \in S : range[v].first = 0 /\ mapping[v].first = 0 /\ pooled[v] = 0 /\ flexible[v] = 0
    BY <1>1, <1>2, <1>3 DEF PairOK, PageOK, StoreInv, Backed
  <1>8. PairOK(range', mapping')
    <2>1. Pieces(range')
      <3>1. SUFFICES ASSUME NEW v \in Mem!Virtual, range'[v].first # 0
                     PROVE  range'[v].first \in 1 .. v /\ \A w \in range'[v].first .. v : range'[w] = range'[v]
        BY DEF Pieces
      <3>2. v \notin S /\ range'[v] = range[v]
        BY <1>5, <1>6, <3>1
      <3>3. range[v].first \in 1 .. v /\ \A w \in range[v].first .. v : range[w] = range[v]
        BY <1>1, <3>1, <3>2 DEF PairOK, Pieces
      <3>4. \A w \in range[v].first .. v : w \in Mem!Virtual
        BY <1>4, <3>3 DEF Mem!Virtual
      <3>5. \A w \in range[v].first .. v : range'[w] = range[v]
        BY <1>6, <1>7, <3>1, <3>2, <3>3, <3>4
      <3> QED
        BY <3>2, <3>3, <3>5
    <2>2. ASSUME NEW v \in Mem!Virtual PROVE PageOK(range', mapping', v)
      <3>1. PageOK(range, mapping, v)
        BY <1>1 DEF PairOK
      <3>2. CASE v \in S
        BY <1>3, <1>5, <1>6, <1>7, <3>1, <3>2 DEF PageOK
      <3>3. CASE v \notin S
        BY <1>3, <1>6, <3>1, <3>3 DEF PageOK, Mem!PhysOf
      <3> QED
        BY <3>2, <3>3
    <2>3. range' \in [Mem!Virtual -> RangeRec]
      BY <1>1, <1>3, <1>5 DEF PairOK
    <2> QED
      BY <1>1, <1>3, <2>1, <2>2, <2>3 DEF PairOK
  <1>9. PoolInv' /\ page \in [S -> Mem!Direct]
    <2>1. /\ S = Mem!Span(a, n) /\ taken = Mem!Lowest(pool_free, n) /\ page = PagesOf(taken, S, a)
          /\ PoolInv /\ \A v \in S : pooled[v] = 0
          /\ Mem!GuestMemoryAssumption /\ n \in Nat \ {0}
      BY <1>1, <1>7 DEF S, taken, page
    <2> QED
      BY ONLY <1>2, <1>3, <2>1, PoolTakes
  <1>10. FlexInv' /\ ExpInv'
    BY <1>1, <1>3 DEF FlexInv, ExpInv
  <1>11. \A v \in Mem!Virtual : /\ view'[v] = IF v \in S THEN page[v] ELSE view[v]
                                /\ pooled'[v] = IF v \in S THEN page[v] ELSE pooled[v]
    BY <1>3 DEF Given
  <1>12. ASSUME NEW v \in Mem!Virtual PROVE Backed(v)'
    <2>1. CASE v \in S
      <3>1. /\ range'[v] = x /\ flexible'[v] = 0 /\ pooled'[v] = page[v] /\ view'[v] = page[v]
            /\ page[v] # 0
        BY <1>3, <1>4, <1>6, <1>7, <1>9, <1>11, <2>1
      <3> QED
        BY <1>5, <3>1 DEF Backed, Mem!Committed
    <2>2. CASE v \notin S
      <3>1. SamePage(range, range', v)
        BY <1>6, <2>2 DEF SamePage, Mem!PhysOf
      <3> QED
        BY <1>1, <1>3, <1>11, <2>2, <3>1, PageKept DEF StoreInv
    <2> QED
      BY <2>1, <2>2
  <1>13. view' \in [Mem!Virtual -> 0 .. DirectPages + FlexiblePages]
    <2>1. \A v \in Mem!Virtual : view[v] \in 0 .. DirectPages + FlexiblePages
      BY <1>1 DEF StoreInv
    <2>2. Mem!Direct \in SUBSET (0 .. DirectPages + FlexiblePages)
      BY <1>4
    <2>3. \A v \in Mem!Virtual : view'[v] \in 0 .. DirectPages + FlexiblePages
      BY <1>9, <1>11, <2>1, <2>2
    <2> QED
      BY <1>3, <2>3 DEF Given
  <1>14. StoreInv'
    BY <1>1, <1>2, <1>3, <1>12, <1>13 DEF StoreInv
  <1>15. Mem!GpuSeesMapped'
    <2>1. SUFFICES ASSUME NEW v \in gpu_mapped' PROVE Mem!Committed(v)'
      BY DEF Mem!GpuSeesMapped
    <2>2. CASE v \in S
      BY <1>2, <1>5, <1>6, <2>2 DEF Mem!Committed
    <2>3. CASE v \notin S
      BY <1>1, <1>3, <1>6, <2>3 DEF Mem!GpuSeesMapped, StoreInv, Mem!Committed
    <2> QED
      BY <2>2, <2>3
  <1> QED
    BY <1>8, <1>9, <1>10, <1>14, <1>15 DEF MemInv

LEMMA ReleaseKeeps ==
    ASSUME Mem!GuestMemoryAssumption, MemInv,
           NEW p \in Mem!Direct, NEW n \in 1 .. DirectPages - p + 1,
           Mem!KernelReleaseDirectMemory(p, n)
    PROVE  MemInv'
  <1>1. CASE [start |-> p, size |-> n] \in expansions /\ Mem!Span(p, n) \subseteq pool_free
    BY <1>1, ReleaseExpansionKeeps DEF Mem!KernelReleaseDirectMemory
  <1>2. CASE ~([start |-> p, size |-> n] \in expansions /\ Mem!Span(p, n) \subseteq pool_free)
    <2> DEFINE P == Mem!Span(p, n)
    <2>1. P \in SUBSET Mem!Direct
      BY MemNumbers DEF Mem!Span
    <2>2. Mem!Allocated(P) /\ Mem!ReleaseAliases(P)
      BY <1>2 DEF Mem!KernelReleaseDirectMemory
    <2> HIDE DEF P
    <2> QED
      BY <2>1, <2>2, ReleaseAliasesKeeps
  <1> QED
    BY <1>1, <1>2

LEMMA MapDirectKeeps ==
    ASSUME Mem!GuestMemoryAssumption, MemInv, NEW a \in Mem!Virtual, NEW n \in Nat \ {0},
           a + n - 1 <= VirtualPages, NEW fixed \in BOOLEAN, NEW prot \in Prots,
           NEW p \in 1 .. DirectPages - n + 1,
           Mem!KernelMapDirectMemory(a, n, fixed, p, prot)
    PROVE  MemInv'
  <1> DEFINE place == Mem!Min(Mem!FreePlaces(a, n))
  <1>1. Mem!Allocated(Mem!Span(p, n))
    BY DEF Mem!KernelMapDirectMemory
  <1>2. CASE Mem!MapAt(Mem!Span(a, n), p, prot)
    BY <1>1, <1>2, MapAtKeeps
  <1>3. CASE Mem!MapFails(Mem!Span(a, n))
    BY <1>3, ReserveKeeps, SpanIn
  <1>4. CASE Mem!RollBack(Mem!Span(a, n))
    BY <1>4, RollBackKeeps
  <1>5. CASE Mem!FreePlaces(a, n) # {} /\ Mem!MapAt(Mem!Span(place, n), p, prot)
    <2>1. place \in Mem!Virtual /\ place + n - 1 <= VirtualPages
      BY <1>5, PlaceFree
    <2>2. Mem!MapAt(Mem!Span(place, n), p, prot)
      BY <1>5
    <2> HIDE DEF place
    <2> QED
      BY <1>1, <2>1, <2>2, MapAtKeeps
  <1> QED
    BY <1>2, <1>3, <1>4, <1>5 DEF Mem!KernelMapDirectMemory

LEMMA MapNamedFlexibleKeeps ==
    ASSUME Mem!GuestMemoryAssumption, MemInv, NEW a \in Mem!Virtual, NEW n \in Nat \ {0},
           a + n - 1 <= VirtualPages, NEW fixed \in BOOLEAN, NEW prot \in Prots,
           Mem!KernelMapNamedFlexibleMemory(a, n, fixed, prot)
    PROVE  MemInv'
  <1> DEFINE place == Mem!Min(Mem!FreePlaces(a, n))
  <1>1. n <= FlexiblePages - flexible_total
    BY DEF Mem!KernelMapNamedFlexibleMemory
  <1>2. CASE Mem!Replaceable(Mem!Span(a, n)) /\ Mem!MapFlexibleAt(Mem!Span(a, n), prot)
    <2>1. \A v \in Mem!Span(a, n) : range[v].type # "Pooled"
      BY <1>2 DEF Mem!Replaceable
    <2> QED
      BY <1>1, <1>2, <2>1, MapFlexibleKeeps
  <1>3. CASE Mem!MapFails(Mem!Span(a, n))
    BY <1>3, ReserveKeeps, SpanIn
  <1>4. CASE Mem!RollBack(Mem!Span(a, n))
    BY <1>4, RollBackKeeps
  <1>5. CASE Mem!FreePlaces(a, n) # {} /\ Mem!MapFlexibleAt(Mem!Span(place, n), prot)
    <2>1. /\ place \in Mem!Virtual /\ place + n - 1 <= VirtualPages
          /\ \A v \in Mem!Span(place, n) : range[v] = Mem!None
      BY <1>5, PlaceFree
    <2>2. \A v \in Mem!Span(place, n) : range[v].type # "Pooled"
      BY <2>1 DEF Mem!None
    <2>3. Mem!MapFlexibleAt(Mem!Span(place, n), prot)
      BY <1>5
    <2> HIDE DEF place
    <2> QED
      BY <1>1, <2>1, <2>2, <2>3, MapFlexibleKeeps
  <1> QED
    BY <1>2, <1>3, <1>4, <1>5 DEF Mem!KernelMapNamedFlexibleMemory

LEMMA ReserveRangeKeeps ==
    ASSUME Mem!GuestMemoryAssumption, MemInv, NEW a \in Mem!Virtual, NEW n \in Nat \ {0},
           a + n - 1 <= VirtualPages, NEW fixed \in BOOLEAN,
           Mem!KernelReserveVirtualRange(a, n, fixed) \/ Mem!KernelMemoryPoolReserve(a, n, fixed)
    PROVE  MemInv'
  <1> DEFINE place == Mem!Min(Mem!FreePlaces(a, n))
  <1>1. CASE Mem!ReserveAt(Mem!Span(a, n)) \/ Mem!PoolReserveAt(Mem!Span(a, n))
    BY <1>1, ReserveKeeps, SpanIn
  <1>2. CASE Mem!RollBack(Mem!Span(a, n))
    BY <1>2, RollBackKeeps
  <1>3. CASE /\ Mem!FreePlaces(a, n) # {}
             /\ Mem!ReserveAt(Mem!Span(place, n)) \/ Mem!PoolReserveAt(Mem!Span(place, n))
    <2>1. place \in Mem!Virtual /\ place + n - 1 <= VirtualPages
      BY <1>3, PlaceFree
    <2>2. Mem!ReserveAt(Mem!Span(place, n)) \/ Mem!PoolReserveAt(Mem!Span(place, n))
      BY <1>3
    <2> HIDE DEF place
    <2>3. Mem!Span(place, n) \in SUBSET Mem!Virtual
      BY <2>1, SpanIn
    <2> QED
      BY <2>2, <2>3, ReserveKeeps
  <1> QED
    BY <1>1, <1>2, <1>3 DEF Mem!KernelReserveVirtualRange, Mem!KernelMemoryPoolReserve

LEMMA MemStarts == ASSUME Mem!GuestMemoryAssumption, Mem!Init PROVE MemInv
  <1>1. /\ VirtualPages \in Nat /\ DirectPages \in Nat /\ FlexiblePages \in Nat
        /\ 0 \notin Mem!Flexible /\ 0 \notin Mem!Direct
        /\ Cardinality(Mem!Flexible) = FlexiblePages
    BY MemNumbers
  <1>2. /\ \A v \in Mem!Virtual : /\ range[v] = Mem!None /\ mapping[v] = Mem!Unmapped
                                  /\ flexible[v] = 0 /\ pooled[v] = 0 /\ view[v] = 0
        /\ \A p \in Mem!Direct : block[p] = "free"
        /\ flexible_free = Mem!Flexible /\ flexible_total = 0 /\ pool_free = {}
        /\ expansions = {} /\ gpu_mapped = {}
    BY DEF Mem!Init
  <1>3. /\ Mem!None.first = 0 /\ Mem!None.type = "none" /\ Mem!Unmapped.first = 0
        /\ Mem!None \in RangeRec /\ Mem!Unmapped \in MappingRec
    <2>1. 0 \in 0 .. VirtualPages /\ 0 \in 0 .. DirectPages
      BY <1>1
    <2> QED
      BY <2>1 DEF Mem!None, Mem!Unmapped, RangeRec, MappingRec
  <1>4. PairOK(range, mapping)
    <2>1. range \in [Mem!Virtual -> RangeRec] /\ mapping \in [Mem!Virtual -> MappingRec]
      BY <1>3 DEF Mem!Init
    <2>2. Pieces(range) /\ Pieces(mapping)
      BY <1>2, <1>3 DEF Pieces
    <2>3. \A v \in Mem!Virtual : PageOK(range, mapping, v)
      BY <1>2, <1>3 DEF PageOK
    <2> QED
      BY <2>1, <2>2, <2>3 DEF PairOK
  <1>5. FlexInv
    <2>1. flexible \in [Mem!Virtual -> Mem!Flexible \union {0}]
      BY DEF Mem!Init
    <2> QED
      BY <1>1, <1>2, <2>1 DEF FlexInv
  <1>6. PoolInv
    <2>1. pooled \in [Mem!Virtual -> 0 .. DirectPages]
      BY <1>1 DEF Mem!Init
    <2> QED
      BY <1>1, <1>2, <2>1 DEF PoolInv
  <1>7. ExpInv
    BY <1>2 DEF ExpInv
  <1>8. StoreInv
    <2>1. /\ block \in [Mem!Direct -> {"free", "direct", "pool"}]
          /\ view \in [Mem!Virtual -> 0 .. DirectPages + FlexiblePages]
      BY <1>1 DEF Mem!Init
    <2>2. \A v \in Mem!Virtual : Backed(v)
      BY <1>2, <1>3 DEF Backed, Mem!Committed
    <2> QED
      BY <1>2, <2>1, <2>2 DEF StoreInv
  <1> QED
    BY <1>2, <1>4, <1>5, <1>6, <1>7, <1>8 DEF MemInv, Mem!GpuSeesMapped

LEMMA MemKeeps == ASSUME Mem!GuestMemoryAssumption, MemInv, [Mem!Next]_Mem!vars PROVE MemInv'
  <1>1. ASSUME NEW p \in Mem!Direct, NEW n \in 1 .. DirectPages - p + 1,
               \/ Mem!KernelAllocateDirectMemory(p, n) \/ Mem!KernelReleaseDirectMemory(p, n)
               \/ Mem!KernelMemoryPoolExpand(p, n)
        PROVE  MemInv'
    BY <1>1, AllocateKeeps, ReleaseKeeps, ExpandKeeps
  <1>2. ASSUME NEW a \in Mem!Virtual, NEW n \in 1 .. VirtualPages - a + 1
        PROVE  n \in Nat \ {0} /\ a + n - 1 <= VirtualPages
    BY MemNumbers
  <1>3. ASSUME NEW a \in Mem!Virtual, NEW n \in 1 .. VirtualPages - a + 1,
               \/ Mem!KernelMunmap(a, n) \/ Mem!KernelSetVirtualRangeName(a, n)
               \/ Mem!KernelMemoryPoolDecommit(a, n)
        PROVE  MemInv'
    BY <1>2, <1>3, MunmapKeeps, NameKeeps, DecommitKeeps
  <1>4. ASSUME NEW a \in Mem!Virtual, NEW n \in 1 .. VirtualPages - a + 1, NEW prot \in Prots,
               Mem!KernelMprotect(a, n, prot) \/ Mem!KernelMemoryPoolCommit(a, n, prot)
        PROVE  MemInv'
    BY <1>2, <1>4, ProtectKeeps, CommitKeeps
  <1>5. ASSUME NEW a \in Mem!Virtual, NEW n \in 1 .. VirtualPages - a + 1, NEW fixed \in BOOLEAN,
               Mem!KernelReserveVirtualRange(a, n, fixed) \/ Mem!KernelMemoryPoolReserve(a, n, fixed)
        PROVE  MemInv'
    BY <1>2, <1>5, ReserveRangeKeeps
  <1>6. ASSUME NEW a \in Mem!Virtual, NEW n \in 1 .. VirtualPages - a + 1, NEW fixed \in BOOLEAN,
               NEW prot \in Prots, Mem!KernelMapNamedFlexibleMemory(a, n, fixed, prot)
        PROVE  MemInv'
    BY <1>2, <1>6, MapNamedFlexibleKeeps
  <1>7. ASSUME NEW a \in Mem!Virtual, NEW n \in 1 .. VirtualPages - a + 1, NEW fixed \in BOOLEAN,
               NEW prot \in Prots, NEW p \in 1 .. DirectPages - n + 1,
               Mem!KernelMapDirectMemory(a, n, fixed, p, prot)
        PROVE  MemInv'
    BY <1>2, <1>7, MapDirectKeeps
  <1>8. CASE UNCHANGED Mem!vars
    BY <1>8 DEF Mem!vars, MemInv, FlexInv, PoolInv, ExpInv, StoreInv, Backed, Mem!Committed,
                Mem!GpuSeesMapped
  <1> QED
    BY <1>1, <1>3, <1>4, <1>5, <1>6, <1>7, <1>8 DEF Mem!Next

-----------------------------------------------------------------------------
(* What the invariant says.                                                  *)

LEMMA NoneOrOne ==
    ASSUME NEW S, NEW u
    PROVE  /\ S = {} => Mem!Cardinality(S) = 0
           /\ S = {u} => Mem!Cardinality(S) = 1
  BY FS_EmptySet, FS_Singleton, MemCount

LEMMA MemTyped == ASSUME Mem!GuestMemoryAssumption, MemInv PROVE Mem!TypeOK
  <1>1. /\ PairOK(range, mapping) /\ FlexInv /\ PoolInv /\ ExpInv /\ StoreInv
    BY DEF MemInv
  <1>2. flexible_total \in 0 .. FlexiblePages
    <2>1. /\ IsFiniteSet(Mem!Flexible) /\ Cardinality(Mem!Flexible) = FlexiblePages
          /\ FlexiblePages \in Nat
      BY MemNumbers
    <2>2. /\ flexible_free \in SUBSET Mem!Flexible
          /\ flexible_total = FlexiblePages - Cardinality(flexible_free)
      BY <1>1 DEF FlexInv
    <2>3. IsFiniteSet(flexible_free) /\ Cardinality(flexible_free) <= Cardinality(Mem!Flexible)
      BY <2>1, <2>2, FS_Subset
    <2>4. Cardinality(flexible_free) \in Nat
      BY <2>3, FS_CardinalityType
    <2> QED
      BY <2>1, <2>2, <2>3, <2>4
  <1>3. /\ range \in [Mem!Virtual -> RangeRec] /\ mapping \in [Mem!Virtual -> MappingRec]
    BY <1>1 DEF PairOK
  <1> QED
    BY <1>1, <1>2, <1>3
    DEF Mem!TypeOK, FlexInv, PoolInv, ExpInv, StoreInv, RangeRec, MappingRec

LEMMA OwnersImplied == ASSUME Mem!GuestMemoryAssumption, MemInv PROVE Mem!OwnersAgree
  <1>1. SUFFICES ASSUME NEW v \in Mem!Virtual
        PROVE  /\ (range[v].type = "Direct") = (mapping[v] # Mem!Unmapped)
               /\ mapping[v] # Mem!Unmapped =>
                      /\ mapping[v].prot = range[v].prot
                      /\ Mem!PhysOf(mapping, v) = Mem!PhysOf(range, v)
                      /\ block[Mem!PhysOf(range, v)] = "direct"
               /\ (range[v].type = "Flexible") = (flexible[v] # 0)
               /\ (range[v].type = "Pooled") = (pooled[v] # 0)
               /\ view[v] = CASE range[v].type = "Direct" -> Mem!PhysOf(range, v)
                              [] range[v].type = "Flexible" -> flexible[v]
                              [] range[v].type = "Pooled" -> pooled[v]
                              [] OTHER -> 0
    BY DEF Mem!OwnersAgree
  <1>2. PageOK(range, mapping, v) /\ Backed(v)
    BY DEF MemInv, PairOK, StoreInv
  <1>3. mapping[v] # Mem!Unmapped <=> range[v].type = "Direct"
    BY <1>2 DEF PageOK, Mem!Unmapped
  <1>4. view[v] = CASE range[v].type = "Direct" -> Mem!PhysOf(range, v)
                    [] range[v].type = "Flexible" -> flexible[v]
                    [] range[v].type = "Pooled" -> pooled[v]
                    [] OTHER -> 0
    <2>1. CASE range[v].type \in {"Direct", "Flexible", "Pooled"}
      BY <1>2, <2>1 DEF Backed
    <2>2. CASE range[v].type \notin {"Direct", "Flexible", "Pooled"}
      BY <1>2, <2>2 DEF Backed, Mem!Committed
    <2> QED
      BY <2>1, <2>2
  <1> QED
    BY <1>2, <1>3, <1>4 DEF PageOK, Backed

LEMMA LossImplied == ASSUME Mem!GuestMemoryAssumption, MemInv PROVE Mem!NothingLost
  <1>1. /\ FlexInv /\ PoolInv /\ ExpInv
    BY DEF MemInv
  <1>2. 0 \notin Mem!Flexible /\ 0 \notin Mem!Direct
    BY MemNumbers
  <1>3. ASSUME NEW p \in Mem!Flexible
        PROVE  Mem!Cardinality({v \in Mem!Virtual : flexible[v] = p})
                   = IF p \in flexible_free THEN 0 ELSE 1
    <2> DEFINE U == {v \in Mem!Virtual : flexible[v] = p}
    <2>1. CASE p \in flexible_free
      <3>1. U = {}
        BY <1>1, <2>1 DEF FlexInv
      <3> HIDE DEF U
      <3> QED
        BY <2>1, <3>1, NoneOrOne DEF U
    <2>2. CASE p \notin flexible_free
      <3>1. PICK u \in Mem!Virtual : flexible[u] = p
        BY <1>1, <2>2 DEF FlexInv
      <3>2. U = {u}
        BY <1>1, <1>2, <3>1 DEF FlexInv
      <3>3. Mem!Cardinality(U) = 1
        BY <3>2, NoneOrOne
      <3> QED
        BY <2>2, <3>3
    <2> QED
      BY <2>1, <2>2
  <1>4. flexible_total = FlexiblePages - Mem!Cardinality(flexible_free)
    <2>1. IsFiniteSet(flexible_free)
      BY <1>1, MemNumbers, FS_Subset DEF FlexInv
    <2> QED
      BY <1>1, <2>1, MemCount DEF FlexInv
  <1>5. ASSUME NEW p \in Mem!Direct
        PROVE  Mem!Cardinality({v \in Mem!Virtual : pooled[v] = p})
                   = IF block[p] = "pool" /\ p \notin pool_free THEN 1 ELSE 0
    <2> DEFINE U == {v \in Mem!Virtual : pooled[v] = p}
    <2>1. (\E v \in Mem!Virtual : pooled[v] = p) <=> block[p] = "pool" /\ p \notin pool_free
      BY <1>1 DEF PoolInv
    <2>2. CASE ~(block[p] = "pool" /\ p \notin pool_free)
      <3>1. U = {}
        BY <2>1, <2>2
      <3>2. Mem!Cardinality(U) = 0
        BY <3>1, NoneOrOne
      <3> QED
        BY <2>2, <3>2
    <2>3. CASE block[p] = "pool" /\ p \notin pool_free
      <3>1. PICK u \in Mem!Virtual : pooled[u] = p
        BY <2>1, <2>3
      <3>2. U = {u}
        BY <1>1, <1>2, <3>1 DEF PoolInv
      <3>3. Mem!Cardinality(U) = 1
        BY <3>2, NoneOrOne
      <3> QED
        BY <2>3, <3>3
    <2> QED
      BY <2>2, <2>3
  <1>6. pool_free \subseteq {p \in Mem!Direct : block[p] = "pool"}
    BY <1>1 DEF PoolInv
  <1>7. ASSUME NEW p \in Mem!Direct
        PROVE  Mem!Cardinality({e \in expansions : p \in Mem!Span(e.start, e.size)})
                   = IF block[p] = "pool" THEN 1 ELSE 0
    <2> DEFINE U == {e \in expansions : p \in Mem!Span(e.start, e.size)}
    <2>1. block[p] = "pool" <=> \E e \in expansions : p \in Mem!Span(e.start, e.size)
      BY <1>1 DEF ExpInv
    <2>2. CASE block[p] # "pool"
      <3>1. U = {}
        BY <2>1, <2>2
      <3>2. Mem!Cardinality(U) = 0
        BY <3>1, NoneOrOne
      <3> QED
        BY <2>2, <3>2
    <2>3. CASE block[p] = "pool"
      <3>1. PICK d \in expansions : p \in Mem!Span(d.start, d.size)
        BY <2>1, <2>3
      <3>2. U = {d}
        BY <1>1, <3>1 DEF ExpInv
      <3>3. Mem!Cardinality(U) = 1
        BY <3>2, NoneOrOne
      <3> QED
        BY <2>3, <3>3
    <2> QED
      BY <2>2, <2>3
  <1> QED
    BY <1>3, <1>4, <1>5, <1>6, <1>7 DEF Mem!NothingLost

LEMMA UnmapImplied == ASSUME Mem!GuestMemoryAssumption, MemInv PROVE Mem!RangesUnmappable
  <1>1. SUFFICES ASSUME NEW C \in Mem!Chunks(Mem!Virtual) PROVE Mem!Unmappable(C)
    BY DEF Mem!RangesUnmappable
  <1>2. /\ Mem!Virtual = 1 .. VirtualPages /\ VirtualPages \in Nat /\ 1 <= VirtualPages
        /\ 0 \notin Mem!Flexible /\ 0 \notin Mem!Direct /\ 1 \in Nat
        /\ PairOK(range, mapping)
    BY MemNumbers DEF MemInv
  <1>3. C \in Mem!Chunks(1 .. VirtualPages)
    BY <1>2
  <1>4. PICK c, e \in 1 .. VirtualPages :
              /\ c <= e /\ C = c .. e /\ Mem!Min(C) = c /\ Mem!Max(C) = e
              /\ \A v \in C : range[v] = range[c]
              /\ range[c] # Mem!None
    BY ONLY <1>2, <1>3, ChunkShape
  <1>5. \A v \in C : v \in Mem!Virtual /\ range[v] = range[c]
    BY <1>2, <1>4
  <1>6. ASSUME NEW v \in C
        PROVE  /\ Backed(v) /\ PageOK(range, mapping, v) /\ v \in Mem!Virtual
               /\ range[v].type = range[c].type
    BY <1>5 DEF MemInv, StoreInv, PairOK
  <1>7. range[c].type \in {"Reserved", "PoolReserved", "Direct", "Flexible", "Pooled"}
    <2>1. c \in C
      BY <1>4
    <2> QED
      BY <1>4, <1>6, <2>1 DEF PageOK, RangeRec
  <1>8. CASE range[c].type \in {"Reserved", "PoolReserved"}
    <2>1. \A v \in C : view[v] = 0
      BY <1>6, <1>8 DEF Backed, Mem!Committed
    <2> QED
      BY <1>4, <1>8, <2>1 DEF Mem!Unmappable
  <1>9. CASE range[c].type = "Direct"
    <2>1. \A v \in C : view[v] # 0
      BY <1>2, <1>6, <1>9 DEF Backed, PageOK
    <2>2. Mem!HasMapping(C)
      <3>1. c \in C /\ e \in C /\ range[e] = range[c] /\ c \in Mem!Virtual /\ e \in Mem!Virtual
        BY <1>4, <1>5
      <3>2. PageOK(range, mapping, e) /\ range[e].type = "Direct"
        BY <1>6, <1>9, <3>1
      <3>3. /\ mapping[e].first \in Nat /\ mapping[e].first <= range[e].first /\ mapping[e].first # 0
        BY <1>2, <3>1, <3>2, PageNumbers DEF PageOK
      <3>4. range[c].first \in 0 .. c
        BY <1>2, <3>1, PageNumbers
      <3>5. \A w \in mapping[e].first .. e : mapping[w] = mapping[e]
        BY <1>2, <3>1, <3>3 DEF PairOK, Pieces
      <3>6. \A w \in c .. e : mapping[w] = mapping[e]
        BY <1>4, <3>1, <3>3, <3>4, <3>5
      <3>7. c \in c .. e
        BY <1>4
      <3>8. mapping[c] = mapping[e] /\ \A w \in c .. e : mapping[w] = mapping[c]
        BY <3>6, <3>7
      <3>9. mapping[c] # Mem!Unmapped
        BY <3>3, <3>8 DEF Mem!Unmapped
      <3> QED
        BY <1>4, <3>8, <3>9 DEF Mem!HasMapping, Mem!Together
    <2> QED
      BY <1>4, <1>9, <2>1, <2>2 DEF Mem!Unmappable
  <1>10. CASE range[c].type = "Flexible"
    <2>1. \A v \in C : flexible[v] # 0 /\ view[v] # 0
      BY <1>6, <1>10 DEF Backed
    <2> QED
      BY <1>4, <1>10, <2>1 DEF Mem!Unmappable
  <1>11. CASE range[c].type = "Pooled"
    <2>1. \A v \in C : pooled[v] # 0 /\ view[v] # 0
      BY <1>6, <1>11 DEF Backed
    <2> QED
      BY <1>4, <1>11, <2>1 DEF Mem!Unmappable
  <1> QED
    BY <1>7, <1>8, <1>9, <1>10, <1>11

-----------------------------------------------------------------------------
\* MemorySound (memory.cpp: VirtualRanges, PhysicalMemory, FlexibleMemory,
\* PooledMemory, GuestBackingStore and the GPU's map): for any sizes of the
\* address space, of direct and of flexible memory, and whether or not the host
\* fails, every page's records agree, no page of flexible or pooled memory is
\* lost or given out twice, everything mapped can be unmapped, and the GPU sees
\* no page that is gone.
THEOREM MemoryCorrect == ASSUME Mem!GuestMemoryAssumption PROVE Mem!Spec => []MemorySound
  <1>1. Mem!Init => MemInv
    BY MemStarts
  <1>2. MemInv /\ [Mem!Next]_Mem!vars => MemInv'
    BY MemKeeps
  <1>3. MemInv => MemorySound
    <2>1. SUFFICES ASSUME MemInv PROVE MemorySound
      OBVIOUS
    <2>2. Mem!GpuSeesMapped
      BY <2>1 DEF MemInv
    <2> QED
      BY <2>1, <2>2, MemTyped, OwnersImplied, LossImplied, UnmapImplied
      DEF MemorySound, Mem!MemorySound
  <1> QED
    BY <1>1, <1>2, <1>3, PTL DEF Mem!Spec

-----------------------------------------------------------------------------
(* The ports, their flip queue and the pool of frames. *)

FlipStates == {"Reserved", "Recording", "Ready", "Presenting"}
Request ==
    [id : Nat, port : Ports, generation : Nat, index : Indexes, source : {"Cpu", "GpuEop"},
     state : FlipStates, frame : Frames \cup {NoFrame}]
PortType ==
    [opened : BOOLEAN, closing : BOOLEAN, generation : Nat, rate : Nat, vblank : Nat,
     occupied : BOOLEAN, pending : Int]
GuestType ==
    {Idle} \cup [pc : {"rate"}, port : Ports, rate : Nat]
    \cup [pc : {"cancel", "deleteEvents"}, port : Ports, events : SUBSET Nat]
    \cup [pc : {"submit"}, id : Nat] \cup [pc : {"register"}, port : Ports, new : BOOLEAN]
Packet == [pc : {"reserve", "wait"}, port : Ports, index : Indexes]
WorkType == [pc : {"prepare"}, id : Nat, source : {"Cpu"}] \cup Packet
GpuType ==
    {Idle} \cup Packet
    \cup [pc : {"prepare", "flush"}, id : Nat, source : {"Cpu", "GpuEop"}]
    \cup [pc : {"look", "record", "drop", "flush"}, id : Nat, source : {"Cpu", "GpuEop"},
          request : Request]
PresentType ==
    [pc : {"flip", "idle", "end"}] \cup [pc : {"chosen", "presenting"}, request : Request]

FlipTypes ==
    /\ port \in [Ports -> PortType] /\ registered \in [Ports -> SUBSET Nat]
    /\ requests \in Seq(Request) /\ cpu \in Seq(Request) /\ cancelled \in Seq(Request)
    /\ nextId \in Nat /\ free \in Seq(Frames) /\ last \in Frames \cup {NoFrame}
    /\ guest \in [Guests -> GuestType] /\ work \in Seq(WorkType) /\ gpu \in GpuType
    /\ eop \in Seq(Nat) /\ present \in PresentType /\ left \in Nat

AllRequests == Range(requests) \cup Range(cpu) \cup Range(cancelled)

\* A request has a number of its own and is in one list, once.
IdsOnce(s) == \A i, j \in DOMAIN s : s[i].id = s[j].id => i = j
RequestsOnce ==
    /\ IdsOnce(requests) /\ IdsOnce(cpu) /\ IdsOnce(cancelled)
    /\ \A r \in Range(requests), c \in Range(cpu) : r.id # c.id
    /\ \A r \in Range(requests), x \in Range(cancelled) : r.id # x.id
    /\ \A c \in Range(cpu), x \in Range(cancelled) : c.id # x.id
    /\ \A r \in AllRequests : r.id < nextId

\* One thread at a time, or one list between two, has the number of a request
\* that is yet to be prepared or completed.
ToPrepare == {i \in DOMAIN work : work[i].pc = "prepare"}
Submitting == {g \in Guests : guest[g].pc = "submit"}
InHand == gpu.pc \in {"prepare", "look", "record", "drop", "flush"}
NumbersOnce ==
    /\ \A g, h \in Submitting : guest[g].id = guest[h].id => g = h
    /\ \A i, j \in ToPrepare : work[i].id = work[j].id => i = j
    /\ IsInjective(eop)
    /\ \A g \in Submitting, i \in ToPrepare : guest[g].id # work[i].id
    /\ \A g \in Submitting : guest[g].id \notin Range(eop) /\ (InHand => guest[g].id # gpu.id)
    /\ \A i \in ToPrepare : work[i].id \notin Range(eop) /\ (InHand => work[i].id # gpu.id)
    /\ InHand => gpu.id \notin Range(eop)

\* What state the request is in for which somebody has a number.
Unprepared == {r.id : r \in {q \in AllRequests : q.state = "Reserved"}}
Prepared ==
    {r.id : r \in {q \in Range(requests) \cup Range(cancelled) :
                     q.state = "Recording" /\ q.frame = NoFrame}}
Completable ==
    {r.id : r \in {q \in Range(requests) : q.state = "Recording" /\ q.frame # NoFrame}
                 \cup {q \in Range(cancelled) : q.state = "Recording"}}
Promised ==
    /\ \A g \in Submitting : guest[g].id \in Unprepared
    /\ \A i \in ToPrepare : work[i].id \in Unprepared
    /\ gpu.pc = "prepare" => gpu.id \in Unprepared
    /\ gpu.pc \in {"look", "record", "drop"} => gpu.id \in Prepared
    /\ gpu.pc = "flush" => gpu.id \in Completable
    /\ \A id \in Range(eop) : id \in Completable

\* In which list a request may be in which state, and with which frame.
StatesRight ==
    /\ \A r \in AllRequests :
          /\ r.state = "Reserved" => r.frame = NoFrame
          /\ ~Unfinished(r) => r.frame # NoFrame
    /\ \A r \in Range(cpu) : r.state = "Reserved"
    /\ \A r \in Range(cancelled) : Unfinished(r)
    /\ \A r \in Range(requests) : r.state = "Presenting" =>
           present.pc = "presenting" /\ r.id = present.request.id

\* The present thread's request stays in front while the thread has it.
FrontKept ==
    Processing =>
        /\ requests # <<>> /\ present.request.state = "Ready"
        /\ present.pc = "chosen" => requests[1] = present.request
        /\ present.pc = "presenting" =>
               requests[1] = [present.request EXCEPT !.state = "Presenting"]

\* A frame is free, once, or with one request.
FramesOnce ==
    /\ IsInjective(free)
    /\ \A r, s \in AllRequests : r.frame # NoFrame /\ r.frame = s.frame => r = s
    /\ \A r \in AllRequests : r.frame \notin Range(free)
    /\ \A f \in Frames : f \in Range(free) \/ \E r \in AllRequests : r.frame = f
    /\ last # NoFrame => last \in Range(free)

\* A request that is not cancelled is of an open port, as it was opened, or of
\* one that is about to cancel it.
BeingCancelled(p) == \E g \in Guests : guest[g].pc = "cancel" /\ guest[g].port = p
PortsHaveTheirs ==
    /\ \A r \in Range(requests) \cup Range(cpu) :
          \/ /\ port[r.port].opened /\ port[r.port].generation = r.generation
             /\ port[r.port].pending > 0
          \/ BeingCancelled(r.port)
    /\ \A p \in Ports : Closing(p) => ~port[p].opened

\* A guest that sets the rate of ports may do so while another closes them.
RateMayRace == \E g, h \in Guests : g # h /\ "rate" \in Calls[g] /\ "close" \in Calls[h]
ClosedReset ==
    /\ \A p \in Ports : ~port[p].opened =>
          registered[p] = {} /\ ~port[p].occupied /\ (port[p].rate = 0 \/ RateMayRace)
    /\ ~RateMayRace => \A g \in Guests : guest[g].pc = "rate" =>
          port[guest[g].port].opened /\ "rate" \in Calls[g]
ExitRight == FlipQueueConsistent \/ (exit = "open" /\ RateMayRace)

QueueInv ==
    RequestsOnce /\ NumbersOnce /\ Promised /\ StatesRight /\ FrontKept /\ FramesOnce
PortInv == PortsHaveTheirs /\ ClosedReset /\ ExitRight
FlipInv == FlipTypes /\ QueueInv /\ PortInv

RequestList(s) == s \in Seq(Request) /\ IdsOnce(s)

\* An item of a list of requests is a request.
LEMMA RequestAt ==
    ASSUME NEW s, RequestList(s), NEW i \in DOMAIN s
    PROVE  s[i] \in Request /\ s[i] \in Range(s) /\ Len(s) \in Nat /\ DOMAIN s = 1 .. Len(s)
  BY LenProperties, ElementOfSeq DEF RequestList, Range

\* Where a request of a list is found, and that one is not that is not there.
LEMMA AtFinds ==
    ASSUME NEW s, RequestList(s), NEW id
    PROVE  /\ At(s, id) # 0 => At(s, id) \in DOMAIN s /\ s[At(s, id)].id = id /\ s[At(s, id)] \in Range(s)
           /\ At(s, id) = 0 => \A r \in Range(s) : r.id # id
           /\ \A r \in Range(s) : r.id = id => At(s, id) \in DOMAIN s /\ At(s, id) # 0 /\ s[At(s, id)] = r
  <1> DEFINE n == Len(s)
             I == {i \in 1 .. n : s[i].id = id}
  <1>1. n \in Nat /\ DOMAIN s = 1 .. n
    BY LenProperties DEF RequestList
  <1>2. At(s, id) = IF I # {} THEN Min(I) ELSE 0
    BY DEF At, SelectInSeq
  <1>3. \A i, j \in I : i = j
    BY <1>1 DEF RequestList, IdsOnce
  <1>4. ASSUME NEW i \in I PROVE At(s, id) = i
    <2>1. I = {i}
      BY <1>3, <1>4
    <2>2. Min({i}) = i
      BY <1>4 DEF Min
    <2> HIDE DEF I
    <2> QED
      BY <1>2, <2>1, <2>2
  <1>5. I = {} => At(s, id) = 0
    BY <1>2
  <1>6. \A r \in Range(s) : r.id = id => \E i \in I : s[i] = r
    BY <1>1 DEF Range
  <1>7. \A i \in I : i \in DOMAIN s /\ i # 0 /\ s[i].id = id /\ s[i] \in Range(s)
    BY <1>1 DEF Range
  <1> HIDE DEF I
  <1> QED
    BY <1>4, <1>5, <1>6, <1>7

Replaced(s, w, k, r) == k \in DOMAIN s /\ w = [s EXCEPT ![k] = r]

\* Replacing a request by one with the same number keeps a list of requests.
LEMMA RequestReplaced ==
    ASSUME NEW s, RequestList(s), NEW r \in Request, NEW w, NEW k, Replaced(s, w, k, r), r.id = s[k].id
    PROVE  /\ RequestList(w) /\ Len(w) = Len(s)
           /\ Range(w) = (Range(s) \ {s[k]}) \cup {r}
           /\ s # <<>> /\ w # <<>> /\ w[1] = IF k = 1 THEN r ELSE s[1]
  <1> DEFINE n == Len(s)
  <1>1. n \in Nat /\ DOMAIN s = 1 .. n /\ s \in [1 .. n -> Request] /\ k \in 1 .. n
    BY LenProperties DEF RequestList, Replaced
  <1>2. w \in [1 .. n -> Request] /\ \A i \in 1 .. n : w[i] = IF i = k THEN r ELSE s[i]
    BY <1>1 DEF Replaced
  <1>3. w \in Seq(Request) /\ Len(w) = n /\ DOMAIN w = 1 .. n
    BY <1>1, <1>2
  <1>4. \A i, j \in 1 .. n : s[i].id = s[j].id => i = j
    BY <1>1 DEF RequestList, IdsOnce
  <1>5. IdsOnce(w)
    BY <1>2, <1>3, <1>4 DEF IdsOnce
  <1>6. Range(w) = (Range(s) \ {s[k]}) \cup {r}
    <2>1. ASSUME NEW x \in Range(w) PROVE x \in (Range(s) \ {s[k]}) \cup {r}
      <3>1. PICK i \in 1 .. n : w[i] = x
        BY <1>3 DEF Range
      <3> QED
        BY <1>1, <1>2, <1>4, <3>1 DEF Range
    <2>2. ASSUME NEW x \in Range(s) \ {s[k]} PROVE x \in Range(w)
      <3>1. PICK i \in 1 .. n : s[i] = x
        BY <1>1 DEF Range
      <3>2. w[i] = x
        BY <1>2, <2>2, <3>1
      <3> QED
        BY <1>3, <3>2 DEF Range
    <2>3. r \in Range(w)
      BY <1>1, <1>2, <1>3 DEF Range
    <2> QED
      BY <2>1, <2>2, <2>3
  <1>7. w # <<>> /\ s # <<>> /\ w[1] = IF k = 1 THEN r ELSE s[1]
    BY <1>1, <1>2, <1>3
  <1> QED
    BY <1>3, <1>5, <1>6, <1>7 DEF RequestList

\* Removing a request takes that one from the list and keeps the rest (list::erase).
LEMMA RequestRemoved ==
    ASSUME NEW s, RequestList(s), NEW k \in DOMAIN s
    PROVE  /\ RequestList(RemoveAt(s, k)) /\ Len(RemoveAt(s, k)) = Len(s) - 1
           /\ Range(RemoveAt(s, k)) = Range(s) \ {s[k]}
           /\ k # 1 => RemoveAt(s, k) # <<>> /\ RemoveAt(s, k)[1] = s[1]
  <1> DEFINE n == Len(s)
             p == SubSeq(s, 1, k - 1)
             q == SubSeq(s, k + 1, n)
             w == p \o q
  <1>1. n \in Nat /\ DOMAIN s = 1 .. n /\ k \in 1 .. n /\ \A i \in 1 .. n : s[i] \in Request
    BY LenProperties, ElementOfSeq DEF RequestList
  <1>2. RemoveAt(s, k) = w
    BY DEF RemoveAt
  <1>3. p \in Seq(Request) /\ Len(p) = k - 1 /\ \A i \in 1 .. k - 1 : p[i] = s[i]
    BY <1>1
  <1>4. q \in Seq(Request) /\ Len(q) = n - k /\ \A i \in 1 .. n - k : q[i] = s[k + i]
    <2>1. k + 1 \in Int /\ n \in Int /\ \A i \in k + 1 .. n : s[i] \in Request
      BY <1>1
    <2>2. /\ q \in Seq(Request) /\ Len(q) = IF k + 1 <= n THEN n - (k + 1) + 1 ELSE 0
          /\ \A i \in 1 .. n - (k + 1) + 1 : q[i] = s[k + 1 + i - 1]
      BY <2>1, SubSeqProperties DEF RequestList
    <2> HIDE DEF q
    <2>3. Len(q) = n - k
      BY <1>1, <2>2
    <2>4. ASSUME NEW i \in 1 .. n - k PROVE q[i] = s[k + i]
      <3>1. k + 1 + i - 1 = k + i /\ i \in 1 .. n - (k + 1) + 1
        BY <1>1
      <3> QED
        BY <2>2, <3>1
    <2> QED
      BY <2>2, <2>3, <2>4
  <1> HIDE DEF p, q
  <1>5. /\ w \in Seq(Request) /\ Len(w) = Len(p) + Len(q)
        /\ \A i \in 1 .. Len(p) + Len(q) : w[i] = IF i <= Len(p) THEN p[i] ELSE q[i - Len(p)]
    BY <1>3, <1>4, ConcatProperties
  <1> HIDE DEF w
  <1>6. Len(w) = n - 1
    BY <1>1, <1>3, <1>4, <1>5
  <1>7. ASSUME NEW i \in 1 .. n - 1 PROVE w[i] = s[IF i < k THEN i ELSE i + 1]
    <2>1. CASE i < k
      BY <1>1, <1>3, <1>4, <1>5, <2>1
    <2>2. CASE ~(i < k)
      <3>1. i - (k - 1) \in 1 .. n - k /\ k + (i - (k - 1)) = i + 1 /\ ~(i <= Len(p)) /\ i \in 1 .. Len(p) + Len(q)
        BY <1>1, <1>3, <1>4, <2>2
      <3>2. w[i] = q[i - (k - 1)]
        BY <1>3, <1>5, <3>1
      <3>3. q[i - (k - 1)] = s[k + (i - (k - 1))]
        BY <1>4, <3>1
      <3> QED
        BY <2>2, <3>1, <3>2, <3>3
    <2> QED
      BY <2>1, <2>2
  <1> DEFINE m(i) == IF i < k THEN i ELSE i + 1
  <1>8. /\ DOMAIN w = 1 .. n - 1
        /\ \A i \in 1 .. n - 1 : m(i) \in 1 .. n /\ m(i) # k /\ w[i] = s[m(i)]
        /\ \A i, j \in 1 .. n - 1 : m(i) = m(j) => i = j
        /\ \A j \in 1 .. n : j # k => \E i \in 1 .. n - 1 : m(i) = j
    <2>1. DOMAIN w = 1 .. n - 1
      BY <1>5, <1>6, LenProperties
    <2>2. \A i \in 1 .. n - 1 : m(i) \in 1 .. n /\ m(i) # k /\ w[i] = s[m(i)]
      BY <1>1, <1>7
    <2>3. \A i, j \in 1 .. n - 1 : m(i) = m(j) => i = j
      BY <1>1
    <2>4. ASSUME NEW j \in 1 .. n, j # k PROVE \E i \in 1 .. n - 1 : m(i) = j
      <3>1. CASE j < k
        BY <1>1, <3>1
      <3>2. CASE j > k
        <4>1. j - 1 \in 1 .. n - 1 /\ m(j - 1) = j
          BY <1>1, <3>2
        <4> QED
          BY <4>1
      <3> QED
        BY <1>1, <2>4, <3>1, <3>2
    <2> HIDE DEF m
    <2> QED
      BY <2>1, <2>2, <2>3, <2>4
  <1>9. \A i, j \in 1 .. n : s[i].id = s[j].id => i = j
    BY <1>1 DEF RequestList, IdsOnce
  <1>10. k # 1 => w # <<>> /\ w[1] = s[1]
    BY <1>1, <1>6, <1>7, <1>5
  <1> HIDE DEF m
  <1>11. IdsOnce(w)
    <2>1. ASSUME NEW i \in 1 .. n - 1, NEW j \in 1 .. n - 1, w[i].id = w[j].id PROVE i = j
      <3>1. m(i) \in 1 .. n /\ m(j) \in 1 .. n /\ s[m(i)].id = s[m(j)].id
        BY <1>8, <2>1
      <3>2. m(i) = m(j)
        BY <1>9, <3>1
      <3> QED
        BY <1>8, <3>2
    <2> QED
      BY <1>8, <2>1 DEF IdsOnce
  <1>12. Range(w) = Range(s) \ {s[k]}
    <2>1. \A i \in 1 .. n - 1 : s[m(i)] # s[k]
      BY <1>1, <1>8, <1>9
    <2>2. \A x \in Range(w) : x \in Range(s) \ {s[k]}
      BY <1>1, <1>8, <2>1 DEF Range
    <2>3. ASSUME NEW x \in Range(s) \ {s[k]} PROVE x \in Range(w)
      <3>1. PICK j \in 1 .. n : s[j] = x /\ j # k
        BY <1>1, <2>3 DEF Range
      <3>2. PICK i \in 1 .. n - 1 : m(i) = j
        BY <1>8, <3>1
      <3> QED
        BY <1>8, <3>1, <3>2 DEF Range
    <2> QED
      BY <2>2, <2>3
  <1> QED
    BY <1>2, <1>5, <1>6, <1>10, <1>11, <1>12 DEF RequestList

\* Appending a request whose number is new (list::push_back).
LEMMA RequestAppended ==
    ASSUME NEW s, RequestList(s), NEW r \in Request, \A x \in Range(s) : x.id # r.id
    PROVE  /\ RequestList(Append(s, r)) /\ Len(Append(s, r)) = Len(s) + 1
           /\ Range(Append(s, r)) = Range(s) \cup {r}
           /\ Append(s, r) # <<>>
           /\ s # <<>> => Append(s, r)[1] = s[1]
  <1> DEFINE w == Append(s, r)
             n == Len(s)
  <1>1. /\ w \in Seq(Request) /\ w # <<>> /\ Len(w) = n + 1
        /\ \A k \in 1 .. n : w[k] = s[k]
        /\ w[n + 1] = r
    BY AppendProperties DEF RequestList
  <1>2. n \in Nat /\ DOMAIN s = 1 .. n /\ \A i \in 1 .. n : s[i].id # r.id
    BY LenProperties DEF RequestList, Range
  <1>3. DOMAIN w = 1 .. n + 1
    BY <1>1, LenProperties
  <1> HIDE DEF w
  <1>4. IdsOnce(w)
    <2>1. \A i, j \in 1 .. n : s[i].id = s[j].id => i = j
      BY <1>2 DEF RequestList, IdsOnce
    <2> QED
      BY <1>1, <1>2, <1>3, <2>1 DEF IdsOnce
  <1>5. Range(w) = Range(s) \cup {r}
    <2>1. \A x \in Range(w) : x \in Range(s) \cup {r}
      BY <1>1, <1>2, <1>3 DEF Range
    <2>2. \A x \in Range(s) : x \in Range(w)
      BY <1>1, <1>2, <1>3 DEF Range
    <2>3. n + 1 \in 1 .. n + 1
      BY <1>2
    <2>4. r \in Range(w)
      BY <1>1, <1>3, <2>3 DEF Range
    <2> QED
      BY <2>1, <2>2, <2>4
  <1>6. s # <<>> => w[1] = s[1]
    <2>1. s # <<>> => 1 \in 1 .. n
      BY <1>2, EmptySeq DEF RequestList
    <2> QED
      BY <1>1, <2>1
  <1> QED
    BY <1>1, <1>4, <1>5, <1>6 DEF w, RequestList

\* Taking the front request away.
LEMMA RequestTail ==
    ASSUME NEW s, RequestList(s), s # <<>>
    PROVE  /\ RequestList(Tail(s)) /\ Len(Tail(s)) = Len(s) - 1
           /\ Range(Tail(s)) = Range(s) \ {s[1]}
           /\ Head(s) = s[1] /\ s[1] \in Range(s) /\ s[1] \in Request /\ 1 \in DOMAIN s
  <1> DEFINE n == Len(s)
             w == Tail(s)
  <1>1. n \in Nat \ {0} /\ DOMAIN s = 1 .. n
    BY EmptySeq, LenProperties DEF RequestList
  <1>2. /\ w \in Seq(Request) /\ Len(w) = n - 1
        /\ \A i \in 1 .. n - 1 : w[i] = s[i + 1]
    BY HeadTailProperties DEF RequestList
  <1>3. DOMAIN w = 1 .. n - 1
    BY <1>2, LenProperties
  <1>4. Head(s) = s[1] /\ 1 \in 1 .. n
    BY <1>1
  <1> HIDE DEF w
  <1>5. \A i, j \in 1 .. n : s[i].id = s[j].id => i = j
    BY <1>1 DEF RequestList, IdsOnce
  <1>6. \A i \in 1 .. n - 1 : i + 1 \in 1 .. n /\ i + 1 # 1
    BY <1>1
  <1>7. IdsOnce(w)
    <2>1. ASSUME NEW i \in 1 .. n - 1, NEW j \in 1 .. n - 1, w[i].id = w[j].id PROVE i = j
      <3>1. i + 1 = j + 1
        BY <1>2, <1>5, <1>6, <2>1
      <3> QED
        BY <3>1
    <2> QED
      BY <1>3, <2>1 DEF IdsOnce
  <1>8. Range(w) = Range(s) \ {s[1]}
    <2>1. \A i \in 1 .. n - 1 : w[i] \in Range(s) /\ w[i] # s[1]
      BY <1>1, <1>2, <1>4, <1>5, <1>6 DEF Range
    <2>2. ASSUME NEW x \in Range(s) \ {s[1]} PROVE x \in Range(w)
      <3>1. PICK j \in 1 .. n : s[j] = x /\ j # 1
        BY <1>1, <2>2 DEF Range
      <3>2. j - 1 \in 1 .. n - 1 /\ (j - 1) + 1 = j
        BY <1>1, <3>1
      <3>3. w[j - 1] = x
        BY <1>2, <3>1, <3>2
      <3> QED
        BY <1>3, <3>2, <3>3 DEF Range
    <2> QED
      BY <1>3, <2>1, <2>2 DEF Range
  <1> QED
    BY <1>1, <1>2, <1>4, <1>7, <1>8, RequestAt DEF w, RequestList

\* Joining two lists of requests without a number in common (list::splice).
LEMMA RequestsJoined ==
    ASSUME NEW a, RequestList(a), NEW b, RequestList(b),
           \A x \in Range(a), y \in Range(b) : x.id # y.id
    PROVE  RequestList(a \o b) /\ Range(a \o b) = Range(a) \cup Range(b)
  <1> DEFINE w == a \o b
             n == Len(a)
             m == Len(b)
  <1>1. n \in Nat /\ DOMAIN a = 1 .. n /\ m \in Nat /\ DOMAIN b = 1 .. m
    BY LenProperties DEF RequestList
  <1>2. /\ w \in Seq(Request) /\ Len(w) = n + m
        /\ \A i \in 1 .. n + m : w[i] = IF i <= n THEN a[i] ELSE b[i - n]
    BY ConcatProperties DEF RequestList
  <1>3. DOMAIN w = 1 .. n + m
    BY <1>2, LenProperties
  <1> HIDE DEF w
  <1>4. \A i \in 1 .. n + m : (i <= n => i \in 1 .. n) /\ (~(i <= n) => i - n \in 1 .. m)
    BY <1>1
  <1>5. ASSUME NEW i \in 1 .. n + m, NEW j \in 1 .. n + m, w[i].id = w[j].id PROVE i = j
    <2>1. CASE i <= n /\ j <= n
      <3>1. w[i] = a[i] /\ w[j] = a[j] /\ i \in DOMAIN a /\ j \in DOMAIN a
        BY <1>1, <1>2, <1>4, <2>1
      <3> QED
        BY <1>5, <3>1 DEF RequestList, IdsOnce
    <2>2. CASE ~(i <= n) /\ ~(j <= n)
      <3>1. w[i] = b[i - n] /\ w[j] = b[j - n] /\ i - n \in DOMAIN b /\ j - n \in DOMAIN b
        BY <1>1, <1>2, <1>4, <2>2
      <3>2. i - n = j - n
        BY <1>5, <3>1 DEF RequestList, IdsOnce
      <3> QED
        BY <1>1, <3>2
    <2>3. CASE i <= n /\ ~(j <= n)
      <3>1. w[i] \in Range(a) /\ w[j] \in Range(b)
        BY <1>1, <1>2, <1>4, <2>3 DEF Range
      <3> QED
        BY <1>5, <3>1
    <2>4. CASE ~(i <= n) /\ j <= n
      <3>1. w[j] \in Range(a) /\ w[i] \in Range(b)
        BY <1>1, <1>2, <1>4, <2>4 DEF Range
      <3> QED
        BY <1>5, <3>1
    <2> QED
      BY <2>1, <2>2, <2>3, <2>4
  <1>6. IdsOnce(w)
    BY <1>3, <1>5 DEF IdsOnce
  <1>7. Range(w) = Range(a) \cup Range(b)
    <2>1. \A x \in Range(w) : x \in Range(a) \cup Range(b)
      BY <1>1, <1>2, <1>3, <1>4 DEF Range
    <2>2. ASSUME NEW x \in Range(a) PROVE x \in Range(w)
      <3>1. PICK i \in 1 .. n : a[i] = x
        BY <1>1, <2>2 DEF Range
      <3>2. i \in 1 .. n + m /\ i <= n
        BY <1>1
      <3> QED
        BY <1>2, <1>3, <3>1, <3>2 DEF Range
    <2>3. ASSUME NEW x \in Range(b) PROVE x \in Range(w)
      <3>1. PICK i \in 1 .. m : b[i] = x
        BY <1>1, <2>3 DEF Range
      <3>2. i + n \in 1 .. n + m /\ ~(i + n <= n) /\ (i + n) - n = i
        BY <1>1
      <3>3. w[i + n] = x
        BY <1>2, <3>1, <3>2
      <3> QED
        BY <1>3, <3>2, <3>3 DEF Range
    <2> QED
      BY <2>1, <2>2, <2>3
  <1> QED
    BY <1>2, <1>6, <1>7 DEF w, RequestList

\* Only keeps the items at the places given, once each and in their order.
Kept(s, I, k, w) ==
    /\ w \in Seq(Request) /\ IdsOnce(w)
    /\ Range(w) = {s[i] : i \in {j \in I : j <= k}}
    /\ 1 \in I /\ k >= 1 => w # <<>> /\ w[1] = s[1]

\* What Only keeps of a list: those items, once each and in their order.
LEMMA OnlyKeeps ==
    ASSUME NEW s, RequestList(s), NEW I \in SUBSET DOMAIN s
    PROVE  /\ RequestList(Only(s, I)) /\ Range(Only(s, I)) = {s[i] : i \in I}
           /\ 1 \in I => Only(s, I) # <<>> /\ Only(s, I)[1] = s[1]
  <1> DEFINE n == Len(s)
             A == Seq(Request)
             F == [x \in (1 .. n) \X A |-> IF x[1] \in I THEN Append(x[2], s[x[1]]) ELSE x[2]]
             Is(f) == f = [k \in 0 .. n |-> IF k = 0 THEN <<>>
                                      ELSE IF k \in I THEN Append(f[k - 1], s[k]) ELSE f[k - 1]]
  <1>1. n \in Nat /\ DOMAIN s = 1 .. n /\ \A k \in 1 .. n : s[k] \in Request
    BY LenProperties, ElementOfSeq DEF RequestList
  <1>2. \A k \in 1 .. n, a \in A : F[<<k, a>>] = IF k \in I THEN Append(a, s[k]) ELSE a
    OBVIOUS
  <1>3. ASSUME NEW k \in 1 .. n, NEW a \in A PROVE F[<<k, a>>] \in A
    BY <1>1, <1>2, AppendProperties
  <1>4. <<>> \in A
    OBVIOUS
  <1> HIDE DEF F, A
  <1>5. PICK g \in [0 .. n -> A] : StepsOf(g, n, <<>>, F)
    BY <1>1, <1>3, <1>4, RecursionOnList
  <1>6. Is(g)
    <2> DEFINE h == [k \in 0 .. n |-> IF k = 0 THEN <<>>
                                      ELSE IF k \in I THEN Append(g[k - 1], s[k]) ELSE g[k - 1]]
    <2>1. ASSUME NEW k \in 0 .. n PROVE g[k] = h[k]
      <3>1. CASE k = 0
        BY <1>5, <3>1 DEF StepsOf
      <3>2. CASE k # 0
        <4>1. k \in 1 .. n /\ k - 1 \in 0 .. n
          BY <1>1, <3>2
        <4>2. g[k] = F[<<k, g[k - 1]>>] /\ g[k - 1] \in A
          BY <1>5, <4>1 DEF StepsOf
        <4> QED
          BY <1>2, <3>2, <4>1, <4>2
      <3> QED
        BY <3>1, <3>2
    <2>2. DOMAIN g = 0 .. n /\ DOMAIN h = 0 .. n /\ g = [k \in DOMAIN g |-> g[k]] /\ h = [k \in DOMAIN h |-> h[k]]
      BY <1>5
    <2> HIDE DEF h
    <2>3. g = h
      BY <2>1, <2>2
    <2> QED
      BY <2>3 DEF h
  <1> DEFINE f == CHOOSE f : Is(f)
  <1>7. Is(f)
    BY <1>6
  <1>8. Only(s, I) = f[n]
    BY DEF Only
  <1> HIDE DEF f
  <1>9. f[0] = <<>> /\ \A k \in 1 .. n : f[k] = IF k \in I THEN Append(f[k - 1], s[k]) ELSE f[k - 1]
    <2>1. 0 \in 0 .. n /\ \A k \in 1 .. n : k \in 0 .. n /\ k # 0
      BY <1>1
    <2> QED
      BY <1>7, <2>1
  <1> HIDE DEF Is
  <1> DEFINE S == {k \in 0 .. n : Kept(s, I, k, f[k])}
  <1>10. 0 \in S
    <2>1. {s[i] : i \in {j \in I : j <= 0}} = {}
      BY <1>1
    <2>2. <<>> \in Seq(Request) /\ Range(<<>>) = {} /\ IdsOnce(<<>>)
      BY DEF Range, IdsOnce
    <2>3. 0 \in 0 .. n /\ ~(0 >= 1)
      BY <1>1
    <2> QED
      BY <1>9, <2>1, <2>2, <2>3 DEF Kept
  <1>11. ASSUME NEW k \in 1 .. n, k - 1 \in S PROVE k \in S
    <2> DEFINE v == f[k - 1]
               w == f[k]
    <2>1. Kept(s, I, k - 1, v) /\ k \in 0 .. n /\ k - 1 \in 0 .. n
      BY <1>1, <1>11
    <2>2. CASE k \in I
      <3>1. w = Append(v, s[k]) /\ s[k] \in Request
        BY <1>1, <1>9, <2>2
      <3>2. ASSUME NEW x \in Range(v) PROVE x.id # s[k].id
        <4>1. PICK i \in I : i <= k - 1 /\ x = s[i]
          BY <2>1, <3>2 DEF Kept
        <4>2. i # k /\ i \in DOMAIN s /\ k \in DOMAIN s
          BY <1>1, <4>1
        <4> QED
          BY <4>1, <4>2 DEF RequestList, IdsOnce
      <3>3. RequestList(v)
        BY <2>1 DEF Kept, RequestList
      <3> HIDE DEF v, w
      <3>4. /\ RequestList(w) /\ Range(w) = Range(v) \cup {s[k]}
            /\ w # <<>> /\ (v # <<>> => w[1] = v[1])
        BY <3>1, <3>2, <3>3, RequestAppended
      <3>5. {j \in I : j <= k} = {j \in I : j <= k - 1} \cup {k}
        BY <1>1, <2>2
      <3>6. Range(w) = {s[i] : i \in {j \in I : j <= k}}
        BY <2>1, <3>4, <3>5 DEF Kept
      <3>7. 1 \in I => w[1] = s[1]
        <4>1. CASE k = 1
          <5>1. {j \in I : j <= k - 1} = {}
            BY <1>1, <4>1
          <5>2. Range(v) = {}
            BY <2>1, <5>1 DEF Kept
          <5>3. v = <<>>
            <6>1. ~\E i \in DOMAIN v : TRUE
              BY <5>2 DEF Range
            <6>2. Len(v) \in Nat /\ DOMAIN v = 1 .. Len(v)
              BY <3>3, LenProperties DEF RequestList
            <6>3. Len(v) = 0
              BY <6>1, <6>2
            <6> QED
              BY <3>3, <6>3, EmptySeq DEF RequestList
          <5>4. Len(v) = 0
            BY <5>3
          <5> QED
            BY <3>1, <3>3, <4>1, <5>4, AppendProperties DEF RequestList
        <4>2. CASE k # 1
          <5>1. k - 1 >= 1
            BY <1>1, <4>2
          <5> QED
            BY <2>1, <3>4, <5>1 DEF Kept
        <4> QED
          BY <4>1, <4>2
      <3>8. Kept(s, I, k, w)
        BY <3>4, <3>6, <3>7 DEF Kept, RequestList
      <3> QED
        BY <2>1, <3>8 DEF w
    <2>3. CASE k \notin I
      <3>1. w = v
        BY <1>9, <2>3
      <3>2. {j \in I : j <= k} = {j \in I : j <= k - 1}
        BY <1>1, <2>3
      <3>3. 1 \in I => k - 1 >= 1
        BY <1>1, <2>3
      <3> HIDE DEF v, w
      <3>4. Kept(s, I, k, w)
        BY <2>1, <3>1, <3>2, <3>3 DEF Kept
      <3> QED
        BY <2>1, <3>4 DEF w
    <2> QED
      BY <2>2, <2>3
  <1> HIDE DEF S
  <1>12. \A k \in 0 .. n : k \in S
    BY <1>1, <1>10, <1>11, InductionUpTo
  <1>13. Kept(s, I, n, f[n])
    BY <1>1, <1>12 DEF S
  <1>14. {j \in I : j <= n} = I /\ (1 \in I => n >= 1)
    BY <1>1
  <1> QED
    BY <1>8, <1>13, <1>14 DEF Kept, RequestList

\* A step that leaves the lists, their frames and who has a number alone.
LEMMA QueueUntouched ==
    ASSUME QueueInv, UNCHANGED <<requests, cpu, cancelled, nextId, free, last, work, gpu, eop, present>>,
           Submitting' = Submitting, \A g \in Submitting : guest'[g].id = guest[g].id
    PROVE  QueueInv'
  <1>0. UNCHANGED <<AllRequests, ToPrepare, InHand, Processing>> /\ Submitting' = Submitting
    BY DEF AllRequests, ToPrepare, InHand, Processing
  <1>1. RequestsOnce'
    BY <1>0 DEF QueueInv, RequestsOnce, IdsOnce
  <1>2. NumbersOnce'
    BY <1>0 DEF QueueInv, NumbersOnce
  <1>3. Promised'
    <2>1. UNCHANGED <<Unprepared, Prepared, Completable>>
      BY <1>0 DEF Unprepared, Prepared, Completable
    <2> QED
      BY <1>0, <2>1 DEF QueueInv, Promised
  <1>4. StatesRight'
    BY <1>0 DEF QueueInv, StatesRight
  <1>5. FrontKept'
    BY <1>0 DEF QueueInv, FrontKept
  <1>6. FramesOnce'
    BY <1>0 DEF QueueInv, FramesOnce
  <1> QED
    BY <1>1, <1>2, <1>3, <1>4, <1>5, <1>6 DEF QueueInv

\* A step that leaves the ports alone and keeps the ports of the requests.
LEMMA PortsUntouched ==
    ASSUME PortInv, UNCHANGED <<port, registered, exit>>,
           \A g \in Guests : \/ guest'[g] = guest[g]
                             \/ guest'[g].pc \in {"idle", "submit"} /\ guest[g].pc \in {"idle", "submit"},
           \A r \in Range(requests') \cup Range(cpu') : \E s \in Range(requests) \cup Range(cpu) :
               s.port = r.port /\ s.generation = r.generation
    PROVE  PortInv'
  <1>1. \A p \in Ports : (Closing(p)' <=> Closing(p))
    BY DEF Closing
  <1>2. \A p : (BeingCancelled(p)' <=> BeingCancelled(p))
    BY DEF BeingCancelled
  <1>3. PortsHaveTheirs'
    BY <1>1, <1>2 DEF PortInv, PortsHaveTheirs
  <1>4. ClosedReset'
    BY DEF PortInv, ClosedReset, RateMayRace
  <1>5. ExitRight'
    BY DEF PortInv, ExitRight, FlipQueueConsistent, RateMayRace
  <1> QED
    BY <1>3, <1>4, <1>5 DEF PortInv

-----------------------------------------------------------------------------
(* Ports *)

\* A port is a record, and what changing one gives.
LEMMA PortChanged ==
    ASSUME FlipTypes, NEW p \in Ports, NEW r \in PortType
    PROVE  /\ [port EXCEPT ![p] = r] \in [Ports -> PortType]
           /\ [port EXCEPT ![p] = r][p] = r
           /\ \A o \in Ports \ {p} : [port EXCEPT ![p] = r][o] = port[o]
  BY DEF FlipTypes

\* Moving one guest thread leaves the others where they are.
LEMMA GuestChanged ==
    ASSUME FlipTypes, NEW g \in Guests, NEW v
    PROVE  /\ [guest EXCEPT ![g] = v][g] = v
           /\ \A h \in Guests \ {g} : [guest EXCEPT ![g] = v][h] = guest[h]
           /\ v \in GuestType => [guest EXCEPT ![g] = v] \in [Guests -> GuestType]
  BY DEF FlipTypes

\* Who is in a call about a port has one.
LEMMA GuestPort ==
    ASSUME FlipTypes
    PROVE  /\ \A h \in Guests : guest[h].pc = "rate" => guest[h].port \in Ports /\ guest[h].rate \in Nat
           /\ \A h \in Guests : guest[h].pc \in {"cancel", "deleteEvents"} => guest[h].port \in Ports
                                /\ guest[h].events \in SUBSET Nat
           /\ \A h \in Guests : guest[h].pc = "submit" => guest[h].id \in Nat
           /\ \A h \in Guests : guest[h].pc = "register" => guest[h].port \in Ports
  <1>1. ASSUME NEW h \in Guests
        PROVE  /\ guest[h].pc = "rate" => guest[h].port \in Ports /\ guest[h].rate \in Nat
               /\ guest[h].pc \in {"cancel", "deleteEvents"} =>
                      guest[h].port \in Ports /\ guest[h].events \in SUBSET Nat
               /\ guest[h].pc = "submit" => guest[h].id \in Nat
               /\ guest[h].pc = "register" => guest[h].port \in Ports
    <2>1. guest[h] \in GuestType
      BY DEF FlipTypes
    <2> QED
      BY <2>1 DEF GuestType, Idle
  <1> QED
    BY <1>1

\* Open finds its port as Close left it, or the rate of flips was set late.
LEMMA OpenKeeps ==
    ASSUME FlipInv, NEW g \in Guests, NEW p \in Ports, Open(g, p)
    PROVE  FlipInv'
  <1>0. /\ UNCHANGED <<requests, cpu, cancelled, nextId, free, last, work, gpu, eop, present, left,
                       guest, registered>>
        /\ FlipTypes /\ DriverFree /\ ~port[p].opened /\ exit = "none"
    BY DEF Open, FlipInv, queueVars, eventLists, poolVars, threadVars, Running
  <1>1. QueueInv'
    BY <1>0, QueueUntouched DEF FlipInv, Submitting
  <1>2. CASE exit' = "open" /\ UNCHANGED port /\ (registered[p] # {} \/ port[p].rate # 0 \/ port[p].occupied)
    <2>1. FlipTypes'
      BY <1>0, <1>2 DEF FlipTypes
    <2>2. RateMayRace
      BY <1>0, <1>2 DEF FlipInv, PortInv, ClosedReset
    <2>3. PortsHaveTheirs' /\ ClosedReset'
      BY <1>0, <1>2 DEF FlipInv, PortInv, PortsHaveTheirs, ClosedReset, BeingCancelled, Closing, RateMayRace
    <2> QED
      BY <1>1, <1>2, <2>1, <2>2, <2>3 DEF FlipInv, PortInv, ExitRight, RateMayRace
  <1>3. CASE /\ UNCHANGED exit
             /\ registered[p] = {} /\ port[p].rate = 0
             /\ port' = [port EXCEPT ![p] = [@ EXCEPT !.opened = TRUE, !.closing = FALSE,
                            !.generation = port[p].generation + 1, !.vblank = 0, !.pending = 0]]
    <2> DEFINE r == [port[p] EXCEPT !.opened = TRUE, !.closing = FALSE,
                            !.generation = port[p].generation + 1, !.vblank = 0, !.pending = 0]
    <2>1. port[p] \in PortType
      BY <1>0 DEF FlipTypes
    <2>2. r \in PortType /\ r.opened
      <3>1. port[p].generation + 1 \in Nat /\ 0 \in Nat /\ 0 \in Int
        BY <2>1 DEF PortType
      <3> QED
        BY <2>1, <3>1, Zenon DEF PortType
    <2>3. port' = [port EXCEPT ![p] = r]
      BY <1>3
    <2> HIDE DEF r
    <2>4. port' \in [Ports -> PortType] /\ port'[p] = r /\ \A o \in Ports \ {p} : port'[o] = port[o]
      BY <1>0, <2>2, <2>3, PortChanged
    <2>5. FlipTypes'
      BY <1>0, <2>4 DEF FlipTypes
    <2>6. \A q \in Range(requests) \cup Range(cpu) : q.port # p
      <3>1. ~BeingCancelled(p)
        BY <1>0 DEF DriverFree, Closing, BeingCancelled
      <3> QED
        BY <1>0, <3>1 DEF FlipInv, PortInv, PortsHaveTheirs
    <2>7. \A q \in Range(requests) \cup Range(cpu) : q.port \in Ports
      <3>1. RequestList(requests) /\ RequestList(cpu)
        BY DEF FlipInv, FlipTypes, QueueInv, RequestsOnce, RequestList
      <3> QED
        BY <3>1, RequestAt DEF Range, Request
    <2>8. PortsHaveTheirs'
      BY <1>0, <2>4, <2>6, <2>7 DEF FlipInv, PortInv, PortsHaveTheirs, BeingCancelled, Closing, DriverFree
    <2>9. ClosedReset'
      <3>1. RateMayRace' <=> RateMayRace
        BY DEF RateMayRace
      <3>2. \A h \in Guests : guest[h].pc = "rate" => guest[h].port \in Ports
        BY <1>0, GuestPort
      <3> QED
        BY <1>0, <2>2, <2>4, <3>1, <3>2 DEF FlipInv, PortInv, ClosedReset
    <2> QED
      BY <1>0, <1>1, <1>3, <2>5, <2>8, <2>9 DEF FlipInv, PortInv, ExitRight, FlipQueueConsistent
  <1> QED
    BY <1>2, <1>3 DEF Open, Die

\* What a step about one port and one thread shows of the other ports' requests.
LEMMA PortsOfRequests ==
    ASSUME FlipInv
    PROVE  \A q \in Range(requests) \cup Range(cpu) : q.port \in Ports /\ q.generation \in Nat
  <1>1. RequestList(requests) /\ RequestList(cpu)
    BY DEF FlipInv, FlipTypes, QueueInv, RequestsOnce, RequestList
  <1> QED
    BY <1>1, RequestAt DEF Range, Request

\* Which threads make which calls does not change.
LEMMA RacesStay == RateMayRace' <=> RateMayRace
  BY DEF RateMayRace

\* Registering and unregistering the buffers of an open port.
LEMMA SetBuffersKeeps ==
    ASSUME FlipInv, NEW g \in Guests, NEW p \in Ports, NEW b \in BOOLEAN, SetBuffers(g, p, b)
    PROVE  FlipInv'
  <1>0. /\ UNCHANGED <<requests, cpu, cancelled, nextId, free, last, work, gpu, eop, present, left,
                       guest, registered, exit>>
        /\ FlipTypes /\ port[p].opened
    BY DEF SetBuffers, FlipInv, queueVars, eventLists, poolVars, threadVars, Running
  <1>1. QueueInv'
    BY <1>0, QueueUntouched DEF FlipInv, Submitting
  <1> DEFINE r == [port[p] EXCEPT !.occupied = b]
  <1>2. port[p] \in PortType
    BY <1>0 DEF FlipTypes
  <1>3. r \in PortType /\ r.opened /\ r.generation = port[p].generation /\ r.pending = port[p].pending
    BY <1>0, <1>2 DEF PortType
  <1>4. port' = [port EXCEPT ![p] = r]
    BY DEF SetBuffers
  <1> HIDE DEF r
  <1>5. port' \in [Ports -> PortType] /\ port'[p] = r /\ \A o \in Ports \ {p} : port'[o] = port[o]
    BY <1>0, <1>3, <1>4, PortChanged
  <1>6. FlipTypes'
    BY <1>0, <1>5 DEF FlipTypes
  <1>7. \A o \in Ports : port'[o].opened = port[o].opened /\ port'[o].generation = port[o].generation
                         /\ port'[o].pending = port[o].pending
    BY <1>0, <1>2, <1>3, <1>5 DEF PortType
  <1>8. PortsHaveTheirs'
    BY <1>0, <1>7, PortsOfRequests DEF FlipInv, PortInv, PortsHaveTheirs, BeingCancelled, Closing
  <1>9. ClosedReset'
    <2>1. \A o \in Ports : ~port'[o].opened => port'[o] = port[o]
      BY <1>3, <1>5
    <2> QED
      BY <1>0, <1>7, <2>1, RacesStay, GuestPort DEF FlipInv, PortInv, ClosedReset
  <1> QED
    BY <1>0, <1>1, <1>6, <1>8, <1>9, RacesStay DEF FlipInv, PortInv, ExitRight, FlipQueueConsistent

\* SetFlipRate looks the port up.
LEMMA SetFlipRateBeginKeeps ==
    ASSUME FlipInv, NEW g \in Guests, NEW p \in Ports, NEW rate \in Nat, SetFlipRateBegin(g, p, rate),
           "rate" \in Calls[g]
    PROVE  FlipInv'
  <1> DEFINE v == [pc |-> "rate", port |-> p, rate |-> rate]
  <1>0. /\ UNCHANGED <<requests, cpu, cancelled, nextId, free, last, work, gpu, eop, present, left,
                       port, registered, exit>>
        /\ FlipTypes /\ port[p].opened /\ guest[g] = Idle /\ guest' = [guest EXCEPT ![g] = v]
    BY DEF SetFlipRateBegin, FlipInv, queueVars, poolVars, portVars, eventLists
  <1>1. v \in GuestType /\ v.pc = "rate" /\ v.port = p
    BY DEF GuestType
  <1> HIDE DEF v
  <1>2. /\ guest' \in [Guests -> GuestType] /\ guest'[g] = v
        /\ \A h \in Guests \ {g} : guest'[h] = guest[h]
    BY <1>0, <1>1, GuestChanged
  <1>3. guest[g].pc = "idle"
    BY <1>0 DEF Idle
  <1>4. FlipTypes'
    BY <1>0, <1>2 DEF FlipTypes
  <1>5. Submitting' = Submitting /\ \A h \in Submitting : guest'[h].id = guest[h].id
    BY <1>1, <1>2, <1>3 DEF Submitting
  <1>6. QueueInv'
    BY <1>0, <1>5, QueueUntouched DEF FlipInv
  <1>7. \A o : (Closing(o)' <=> Closing(o)) /\ (BeingCancelled(o)' <=> BeingCancelled(o))
    BY <1>1, <1>2, <1>3 DEF Closing, BeingCancelled
  <1>8. PortsHaveTheirs'
    BY <1>0, <1>7 DEF FlipInv, PortInv, PortsHaveTheirs
  <1>9. ClosedReset'
    BY <1>0, <1>1, <1>2, RacesStay DEF FlipInv, PortInv, ClosedReset
  <1> QED
    BY <1>0, <1>6, <1>4, <1>8, <1>9, RacesStay DEF FlipInv, PortInv, ExitRight, FlipQueueConsistent

\* SetFlipRate writes the rate, perhaps of a port that was closed meanwhile.
LEMMA SetFlipRateEndKeeps ==
    ASSUME FlipInv, NEW g \in Guests, SetFlipRateEnd(g)
    PROVE  FlipInv'
  <1> DEFINE p == guest[g].port
             r == [port[p] EXCEPT !.rate = guest[g].rate]
  <1>0. /\ UNCHANGED <<requests, cpu, cancelled, nextId, free, last, work, gpu, eop, present, left,
                       registered, exit>>
        /\ FlipTypes /\ guest' = [guest EXCEPT ![g] = Idle] /\ guest[g].pc = "rate"
        /\ port' = [port EXCEPT ![p] = r]
    BY DEF SetFlipRateEnd, FlipInv, queueVars, eventLists, poolVars
  <1>1. p \in Ports /\ guest[g].rate \in Nat
    BY <1>0, GuestPort
  <1>2. port[p] \in PortType
    BY <1>0, <1>1 DEF FlipTypes
  <1>3. /\ r \in PortType /\ r.opened = port[p].opened /\ r.generation = port[p].generation
        /\ r.pending = port[p].pending /\ r.occupied = port[p].occupied
    BY <1>1, <1>2 DEF PortType
  <1> HIDE DEF r, p
  <1>5. port' \in [Ports -> PortType] /\ port'[p] = r /\ \A o \in Ports \ {p} : port'[o] = port[o]
    BY <1>0, <1>1, <1>3, PortChanged
  <1>6. Idle \in GuestType /\ Idle.pc = "idle"
    BY DEF GuestType, Idle
  <1>7. /\ guest' \in [Guests -> GuestType] /\ guest'[g] = Idle
        /\ \A h \in Guests \ {g} : guest'[h] = guest[h]
    BY <1>0, <1>6, GuestChanged
  <1>8. FlipTypes'
    BY <1>0, <1>5, <1>7 DEF FlipTypes
  <1>9. Submitting' = Submitting /\ \A h \in Submitting : guest'[h].id = guest[h].id
    BY <1>0, <1>6, <1>7 DEF Submitting
  <1>10. QueueInv'
    BY <1>0, <1>9, QueueUntouched DEF FlipInv
  <1>11. \A o : (Closing(o)' <=> Closing(o)) /\ (BeingCancelled(o)' <=> BeingCancelled(o))
    BY <1>0, <1>6, <1>7 DEF Closing, BeingCancelled
  <1>12. \A o \in Ports : port'[o].opened = port[o].opened /\ port'[o].generation = port[o].generation
                         /\ port'[o].pending = port[o].pending /\ port'[o].occupied = port[o].occupied
    BY <1>0, <1>2, <1>3, <1>5
  <1>13. PortsHaveTheirs'
    BY <1>0, <1>12, <1>11, PortsOfRequests DEF FlipInv, PortInv, PortsHaveTheirs
  <1>14. ClosedReset'
    <2>1. ~RateMayRace => port[p].opened
      BY <1>0 DEF FlipInv, PortInv, ClosedReset, p
    <2>2. \A o \in Ports : ~port'[o].opened => port'[o].rate = port[o].rate \/ RateMayRace
      BY <1>5, <1>12, <2>1
    <2>3. \A o \in Ports : ~port'[o].opened =>
              registered'[o] = {} /\ ~port'[o].occupied /\ (port'[o].rate = 0 \/ RateMayRace)
      BY <1>0, <1>12, <2>2 DEF FlipInv, PortInv, ClosedReset
    <2>4. ~RateMayRace => \A h \in Guests : guest'[h].pc = "rate" =>
              port'[guest'[h].port].opened /\ "rate" \in Calls[h]
      BY <1>0, <1>6, <1>7, <1>12, GuestPort DEF FlipInv, PortInv, ClosedReset
    <2> QED
      BY <2>3, <2>4, RacesStay DEF ClosedReset
  <1> QED
    BY <1>0, <1>10, <1>8, <1>13, <1>14, RacesStay DEF FlipInv, PortInv, ExitRight, FlipQueueConsistent

\* The present thread without a request, before and after.
LEMMA PresentElsewhere ==
    ASSUME QueueInv, UNCHANGED <<requests, cpu, cancelled, nextId, free, last, work, gpu, eop, guest>>,
           present.pc \notin {"chosen", "presenting"}, present'.pc \notin {"chosen", "presenting"}
    PROVE  QueueInv'
  <1>0. UNCHANGED <<AllRequests, ToPrepare, InHand, Submitting>> /\ ~Processing'
    BY DEF AllRequests, ToPrepare, InHand, Processing, Submitting
  <1>1. RequestsOnce'
    BY <1>0 DEF QueueInv, RequestsOnce, IdsOnce
  <1>2. NumbersOnce'
    BY <1>0 DEF QueueInv, NumbersOnce
  <1>3. Promised'
    <2>1. UNCHANGED <<Unprepared, Prepared, Completable>>
      BY <1>0 DEF Unprepared, Prepared, Completable
    <2> QED
      BY <1>0, <2>1 DEF QueueInv, Promised
  <1>4. StatesRight'
    BY <1>0 DEF QueueInv, StatesRight
  <1>5. FrontKept'
    BY <1>0 DEF FrontKept
  <1>6. FramesOnce'
    BY <1>0 DEF QueueInv, FramesOnce
  <1> QED
    BY <1>1, <1>2, <1>3, <1>4, <1>5, <1>6 DEF QueueInv

\* Close marks its port as closing.
LEMMA CloseBeginKeeps ==
    ASSUME FlipInv, NEW g \in Guests, NEW p \in Ports, CloseBegin(g, p), "close" \in Calls[g]
    PROVE  FlipInv'
  <1> DEFINE r == [port[p] EXCEPT !.opened = FALSE, !.closing = TRUE,
                    !.generation = port[p].generation + 1, !.rate = 0, !.occupied = FALSE]
             v == [pc |-> "cancel", port |-> p, events |-> registered[p]]
  <1>0. /\ UNCHANGED <<requests, cpu, cancelled, nextId, free, last, work, gpu, eop, present, left, exit>>
        /\ FlipTypes /\ guest' = [guest EXCEPT ![g] = v] /\ guest[g] = Idle
        /\ port' = [port EXCEPT ![p] = r] /\ registered' = [registered EXCEPT ![p] = {}]
        /\ port[p].opened /\ DriverFree
    BY DEF CloseBegin, FlipInv, queueVars, eventLists, poolVars
  <1>1. port[p] \in PortType /\ registered[p] \in SUBSET Nat
    BY <1>0 DEF FlipTypes
  <1>2. r \in PortType /\ ~r.opened /\ r.rate = 0 /\ ~r.occupied
    <2>1. port[p].generation + 1 \in Nat /\ 0 \in Nat
      BY <1>1 DEF PortType
    <2>2. r \in PortType
      BY <1>1, <2>1, Zenon DEF PortType
    <2>3. ~r.opened /\ r.rate = 0 /\ ~r.occupied
      BY <1>1 DEF PortType
    <2> QED
      BY <2>2, <2>3
  <1>3. v \in GuestType /\ v.pc = "cancel" /\ v.port = p
    BY <1>1 DEF GuestType
  <1> HIDE DEF r, v
  <1>4. port' \in [Ports -> PortType] /\ port'[p] = r /\ \A o \in Ports \ {p} : port'[o] = port[o]
    BY <1>0, <1>2, PortChanged
  <1>5. /\ guest' \in [Guests -> GuestType] /\ guest'[g] = v
        /\ \A h \in Guests \ {g} : guest'[h] = guest[h]
    BY <1>0, <1>3, GuestChanged
  <1>6. /\ registered' \in [Ports -> SUBSET Nat] /\ registered'[p] = {}
        /\ \A o \in Ports \ {p} : registered'[o] = registered[o]
    BY <1>0 DEF FlipTypes
  <1>7. FlipTypes'
    BY <1>0, <1>4, <1>5, <1>6 DEF FlipTypes
  <1>8. guest[g].pc = "idle"
    BY <1>0 DEF Idle
  <1>9. Submitting' = Submitting /\ \A h \in Submitting : guest'[h].id = guest[h].id
    BY <1>3, <1>5, <1>8 DEF Submitting
  <1>10. QueueInv'
    BY <1>0, <1>9, QueueUntouched DEF FlipInv
  <1>11. PortsHaveTheirs'
    <2>1. BeingCancelled(p)'
      BY <1>3, <1>5 DEF BeingCancelled
    <2>2. \A o : BeingCancelled(o) => BeingCancelled(o)'
      BY <1>5, <1>8 DEF BeingCancelled
    <2>3. \A o \in Ports : ~Closing(o)
      BY <1>0 DEF DriverFree
    <2>4. \A o \in Ports \ {p} : ~Closing(o)'
      BY <2>3, <1>3, <1>5, <1>8 DEF Closing
    <2>5. ASSUME NEW q \in Range(requests') \cup Range(cpu')
          PROVE  \/ /\ port'[q.port].opened /\ port'[q.port].generation = q.generation
                    /\ port'[q.port].pending > 0
                 \/ BeingCancelled(q.port)'
      BY <1>0, <1>4, <2>1, <2>2, <2>5, PortsOfRequests DEF FlipInv, PortInv, PortsHaveTheirs
    <2>6. \A o \in Ports : Closing(o)' => ~port'[o].opened
      BY <1>2, <1>4, <2>4
    <2> QED
      BY <2>5, <2>6 DEF PortsHaveTheirs
  <1>12. ClosedReset'
    <2>1. \A o \in Ports : ~port'[o].opened =>
              registered'[o] = {} /\ ~port'[o].occupied /\ (port'[o].rate = 0 \/ RateMayRace)
      BY <1>0, <1>2, <1>4, <1>6 DEF FlipInv, PortInv, ClosedReset
    <2>2. ASSUME ~RateMayRace, NEW h \in Guests, guest'[h].pc = "rate"
          PROVE  port'[guest'[h].port].opened /\ "rate" \in Calls[h]
      <3>1. h # g /\ guest[h].pc = "rate" /\ guest'[h] = guest[h]
        BY <1>3, <1>5, <2>2
      <3>2. "rate" \in Calls[h]
        BY <2>2, <3>1 DEF FlipInv, PortInv, ClosedReset
      <3> QED
        BY <2>2, <3>1, <3>2 DEF RateMayRace
    <2> QED
      BY <2>1, <2>2, RacesStay DEF ClosedReset
  <1> QED
    BY <1>0, <1>7, <1>10, <1>11, <1>12, RacesStay DEF FlipInv, PortInv, ExitRight, FlipQueueConsistent

\* A step about events only: a port that is not open gets no registration.
LEMMA EventsKeepFlips ==
    ASSUME FlipInv,
           UNCHANGED <<requests, cpu, cancelled, nextId, free, last, work, gpu, eop, present, left, exit,
                       port>>,
           guest' \in [Guests -> GuestType],
           \A h \in Guests : \/ guest'[h] = guest[h]
                             \/ /\ guest[h].pc \in {"idle", "register", "deleteEvents"}
                                /\ guest'[h].pc \in {"idle", "register"},
           registered' \in [Ports -> SUBSET Nat],
           \A p \in Ports : port[p].opened \/ registered'[p] \subseteq registered[p]
    PROVE  FlipInv'
  <1>1. FlipTypes'
    BY DEF FlipInv, FlipTypes
  <1>2. Submitting' = Submitting /\ \A h \in Submitting : guest'[h].id = guest[h].id
    BY DEF Submitting
  <1>3. QueueInv'
    BY <1>2, QueueUntouched DEF FlipInv
  <1>4. \A o : (Closing(o)' => Closing(o)) /\ (BeingCancelled(o)' <=> BeingCancelled(o))
    BY DEF Closing, BeingCancelled
  <1>5. PortsHaveTheirs'
    BY <1>4 DEF FlipInv, PortInv, PortsHaveTheirs
  <1>6. ClosedReset'
    BY RacesStay DEF FlipInv, PortInv, ClosedReset
  <1> QED
    BY <1>1, <1>3, <1>5, <1>6, RacesStay DEF FlipInv, PortInv, ExitRight, FlipQueueConsistent

\* The list without a registration is one, and shorter.
LEMMA ListShrinks ==
    ASSUME FlipTypes, NEW q
    PROVE  /\ WithoutOwner(q) \in [Ports -> SUBSET Nat]
           /\ \A p \in Ports : WithoutOwner(q)[p] \subseteq registered[p]
  BY DEF WithoutOwner, FlipTypes

\* The end of a call that registers, or of Close: the thread is idle again.
LEMMA CallEnds ==
    ASSUME FlipTypes, NEW g \in Guests, guest[g].pc \in {"register", "deleteEvents"},
           guest' = [guest EXCEPT ![g] = Idle]
    PROVE  /\ guest' \in [Guests -> GuestType]
           /\ \A h \in Guests : \/ guest'[h] = guest[h]
                                \/ /\ guest[h].pc \in {"idle", "register", "deleteEvents"}
                                   /\ guest'[h].pc \in {"idle", "register"}
  <1>1. Idle \in GuestType /\ Idle.pc = "idle"
    BY DEF GuestType, Idle
  <1> QED
    BY <1>1, GuestChanged

\* Close deletes the event of its port, or that of another one on the queue.
LEMMA CloseEndKeeps ==
    ASSUME FlipInv, NEW g \in Guests, CloseEnd(g)
    PROVE  FlipInv'
  <1>0. /\ UNCHANGED <<requests, cpu, cancelled, nextId, free, last, work, gpu, eop, present, left, exit,
                       port>>
        /\ FlipTypes /\ guest' = [guest EXCEPT ![g] = Idle] /\ guest[g].pc = "deleteEvents"
    BY DEF CloseEnd, FlipInv, queueVars, eventLists, poolVars
  <1>1. registered' \in {registered, WithoutOwner(QueueOf[guest[g].port])}
    BY DEF CloseEnd, DeletesFlipEvent, KeepsFlipEvent
  <1>2. /\ registered' \in [Ports -> SUBSET Nat]
        /\ \A p \in Ports : registered'[p] \subseteq registered[p]
    BY <1>0, <1>1, ListShrinks DEF FlipTypes
  <1> QED
    BY <1>0, <1>2, CallEnds, EventsKeepFlips

\* The second section of a call that registers leaves its port as it was.
LEMMA AddFlipEventKeeps ==
    ASSUME FlipInv, NEW g \in Guests, AddFlipEvent(g)
    PROVE  FlipInv'
  <1>0. /\ UNCHANGED <<requests, cpu, cancelled, nextId, free, last, work, gpu, eop, present, left, exit,
                       port>>
        /\ FlipTypes /\ guest' = [guest EXCEPT ![g] = Idle] /\ guest[g].pc = "register"
    BY DEF AddFlipEvent, FlipInv, queueVars, eventLists, poolVars
  <1>1. \/ registered' = registered
        \/ registered' = [registered EXCEPT ![guest[g].port] =
                              registered[guest[g].port] \ {port[guest[g].port].generation}]
    BY DEF AddFlipEvent
  <1>2. guest[g].port \in Ports
    BY <1>0, GuestPort
  <1>3. /\ registered' \in [Ports -> SUBSET Nat]
        /\ \A p \in Ports : registered'[p] \subseteq registered[p]
    BY <1>0, <1>1, <1>2 DEF FlipTypes
  <1> QED
    BY <1>0, <1>3, CallEnds, EventsKeepFlips

\* The first section: only a port that is open gets a registration.
LEMMA RegisterFlipEventKeeps ==
    ASSUME FlipInv, NEW g \in Guests, NEW p \in Ports, RegisterFlipEvent(g, p)
    PROVE  FlipInv'
  <1> DEFINE v == [pc |-> "register", port |-> p, new |-> port[p].generation \notin registered[p]]
  <1>0. /\ UNCHANGED <<requests, cpu, cancelled, nextId, free, last, work, gpu, eop, present, left, exit,
                       port>>
        /\ FlipTypes /\ guest' = [guest EXCEPT ![g] = v] /\ guest[g] = Idle /\ port[p].opened
        /\ registered' = [registered EXCEPT ![p] = registered[p] \cup {port[p].generation}]
    BY DEF RegisterFlipEvent, FlipInv, queueVars, eventLists, poolVars
  <1>1. v \in GuestType /\ v.pc = "register" /\ guest[g].pc = "idle"
    BY <1>0 DEF GuestType, Idle
  <1> HIDE DEF v
  <1>2. /\ guest' \in [Guests -> GuestType] /\ guest'[g] = v
        /\ \A h \in Guests \ {g} : guest'[h] = guest[h]
    BY <1>0, <1>1, GuestChanged
  <1>3. port[p].generation \in Nat
    BY <1>0 DEF FlipTypes, PortType
  <1>4. /\ registered' \in [Ports -> SUBSET Nat]
        /\ \A o \in Ports : port[o].opened \/ registered'[o] \subseteq registered[o]
    BY <1>0, <1>3 DEF FlipTypes
  <1> QED
    BY <1>0, <1>1, <1>2, <1>4, EventsKeepFlips

\* Deleting events, waiting for them and copying the list touch no flip.
LEMMA EventStepsKeep ==
    ASSUME FlipInv,
           \/ \E g \in Guests, p \in Ports : DeleteFlipEvent(g, p)
           \/ CopyRegistrations \/ Equeues
    PROVE  FlipInv'
  <1> USE DEF portVars, eventLists, queueVars, poolVars, threadVars
  <1>0. guest \in [Guests -> GuestType] /\ registered \in [Ports -> SUBSET Nat] /\ FlipTypes
    BY DEF FlipInv, FlipTypes
  <1>1. UNCHANGED <<requests, cpu, cancelled, nextId, free, last, work, gpu, eop, present, left, exit,
                    port, guest>>
    BY DEF DeleteFlipEvent, CopyRegistrations, Equeues, EqueueUnlisted, EqueueCloses, EqueuePoll, EqueueWait
  <1>2. registered' = registered \/ \E q : registered' = WithoutOwner(q)
    BY DEF DeleteFlipEvent, DeletesFlipEvent, CopyRegistrations, Equeues, EqueueUnlisted, EqueueCloses,
           EqueuePoll, EqueueWait
  <1>3. /\ registered' \in [Ports -> SUBSET Nat]
        /\ \A p \in Ports : registered'[p] \subseteq registered[p]
    BY <1>0, <1>2, ListShrinks
  <1> QED
    BY <1>0, <1>1, <1>3, EventsKeepFlips

\* The end of a vertical blank touches no flip.
LEMMA VblankEndKeeps ==
    ASSUME FlipInv, VblankEnd
    PROVE  FlipInv'
  <1>0. /\ UNCHANGED <<requests, cpu, cancelled, nextId, free, last, work, gpu, eop, left, exit, guest,
                       registered>>
        /\ FlipTypes /\ present.pc \in {"end", "idle"} /\ present' = [pc |-> "flip"]
        /\ port' = [p \in Ports |-> IF port[p].opened
                                THEN [port[p] EXCEPT !.vblank = (port[p].vblank + 1) % Cycle] ELSE port[p]]
    BY DEF VblankEnd, FlipInv, queueVars, eventLists, poolVars
  <1>1. Cycle \in {1, 2, 6}
    BY VideoOutAssumption DEF Cycle
  <1>2. ASSUME NEW p \in Ports
        PROVE  /\ port'[p] \in PortType /\ port'[p].opened = port[p].opened
               /\ port'[p].generation = port[p].generation /\ port'[p].pending = port[p].pending
               /\ port'[p].rate = port[p].rate /\ port'[p].occupied = port[p].occupied
    <2>1. port[p] \in PortType
      BY <1>0 DEF FlipTypes
    <2>2. (port[p].vblank + 1) % Cycle \in Nat
      <3>1. port[p].vblank + 1 \in Int
        BY <2>1 DEF PortType
      <3> QED
        BY <1>1, <3>1
    <2>3. port'[p] = IF port[p].opened
                     THEN [port[p] EXCEPT !.vblank = (port[p].vblank + 1) % Cycle] ELSE port[p]
      BY <1>0
    <2> QED
      BY <2>1, <2>2, <2>3 DEF PortType
  <1>3. port' \in [Ports -> PortType]
    BY <1>0, <1>2
  <1>4. present'.pc = "flip" /\ present' \in PresentType
    BY <1>0 DEF PresentType
  <1>5. FlipTypes'
    BY <1>0, <1>3, <1>4 DEF FlipTypes
  <1>6. PortsHaveTheirs'
    BY <1>0, <1>2, PortsOfRequests DEF FlipInv, PortInv, PortsHaveTheirs, Closing, BeingCancelled
  <1>7. ClosedReset'
    BY <1>0, <1>2, RacesStay, GuestPort DEF FlipInv, PortInv, ClosedReset
  <1>8. QueueInv'
    BY <1>0, <1>4, PresentElsewhere DEF FlipInv
  <1> QED
    BY <1>0, <1>5, <1>6, <1>7, <1>8, RacesStay DEF FlipInv, PortInv, ExitRight, FlipQueueConsistent

-----------------------------------------------------------------------------
(* Submitting *)

\* The three lists are lists of requests.
LEMMA ListsAre ==
    ASSUME FlipTypes, RequestsOnce
    PROVE  /\ RequestList(requests) /\ RequestList(cpu) /\ RequestList(cancelled)
           /\ AllRequests \subseteq Request
           /\ Range(requests) \subseteq AllRequests /\ Range(cpu) \subseteq AllRequests
           /\ Range(cancelled) \subseteq AllRequests
  <1>1. RequestList(requests) /\ RequestList(cpu) /\ RequestList(cancelled)
    BY DEF FlipTypes, RequestsOnce, RequestList
  <1>2. Range(requests) \subseteq Request /\ Range(cpu) \subseteq Request /\ Range(cancelled) \subseteq Request
    BY <1>1, RequestAt DEF Range
  <1> QED
    BY <1>1, <1>2 DEF AllRequests

\* Nobody has the number of a request that is not there yet.
LEMMA NumbersBelow ==
    ASSUME FlipInv
    PROVE  /\ \A g \in Submitting : guest[g].id # nextId
           /\ \A i \in ToPrepare : work[i].id # nextId
           /\ InHand => gpu.id # nextId
           /\ nextId \notin Range(eop)
  <1>1. /\ FlipTypes /\ RequestsOnce /\ Promised /\ nextId \in Nat
        /\ \A r \in AllRequests : r.id < nextId /\ r.id \in Nat
    BY ListsAre DEF FlipInv, QueueInv, RequestsOnce, Request, FlipTypes
  <1>2. nextId \notin Unprepared \cup Prepared \cup Completable
    BY <1>1 DEF Unprepared, Prepared, Completable, AllRequests
  <1> QED
    BY <1>1, <1>2 DEF Promised, InHand

\* A step that only passes numbers on.
LEMMA NumbersMoved ==
    ASSUME QueueInv, UNCHANGED <<requests, cpu, cancelled, nextId, free, last, present>>,
           NumbersOnce', Promised'
    PROVE  QueueInv'
  <1>0. UNCHANGED <<AllRequests, Processing>>
    BY DEF AllRequests, Processing
  <1>1. RequestsOnce'
    BY <1>0 DEF QueueInv, RequestsOnce, IdsOnce
  <1>4. StatesRight'
    BY <1>0 DEF QueueInv, StatesRight
  <1>5. FrontKept'
    BY <1>0 DEF QueueInv, FrontKept
  <1>6. FramesOnce'
    BY <1>0 DEF QueueInv, FramesOnce
  <1> QED
    BY <1>1, <1>4, <1>5, <1>6 DEF QueueInv

\* The promises of numbers stand as long as those who made them stand still.
LEMMA PromisesStay ==
    ASSUME UNCHANGED <<requests, cpu, cancelled>>
    PROVE  UNCHANGED <<Unprepared, Prepared, Completable>>
  BY DEF Unprepared, Prepared, Completable, AllRequests

\* One more thing to do.
LEMMA WorkAppended ==
    ASSUME FlipTypes, NEW w \in WorkType, work' = Append(work, w)
    PROVE  /\ work' \in Seq(WorkType)
           /\ ToPrepare' = IF w.pc = "prepare" THEN ToPrepare \cup {Len(work) + 1} ELSE ToPrepare
           /\ \A i \in ToPrepare : work'[i] = work[i]
           /\ work'[Len(work) + 1] = w
           /\ Len(work) + 1 \notin ToPrepare
  <1> DEFINE n == Len(work)
  <1>1. work \in Seq(WorkType) /\ n \in Nat /\ DOMAIN work = 1 .. n
    BY LenProperties DEF FlipTypes
  <1>2. /\ work' \in Seq(WorkType) /\ Len(work') = n + 1
        /\ \A k \in 1 .. n : work'[k] = work[k]
        /\ work'[n + 1] = w
    BY <1>1, AppendProperties
  <1>3. DOMAIN work' = 1 .. n + 1
    BY <1>2, LenProperties
  <1> HIDE DEF n
  <1>4. ToPrepare \subseteq 1 .. n
    BY <1>1 DEF ToPrepare
  <1>5. ToPrepare' = IF w.pc = "prepare" THEN ToPrepare \cup {n + 1} ELSE ToPrepare
    BY <1>1, <1>2, <1>3 DEF ToPrepare
  <1> QED
    BY <1>1, <1>2, <1>4, <1>5 DEF n

\* What the GPU thread takes from its work leaves it, and the rest stays.
LEMMA WorkTaken ==
    ASSUME FlipTypes, work # <<>>, work' = Tail(work)
    PROVE  /\ work' \in Seq(WorkType) /\ Head(work) = work[1] /\ work[1] \in WorkType
           /\ 1 \in ToPrepare <=> work[1].pc = "prepare"
           /\ \A i \in ToPrepare' : i \in Nat /\ i # 0 /\ i + 1 \in ToPrepare /\ work'[i] = work[i + 1]
  <1> DEFINE n == Len(work)
  <1>1. work \in Seq(WorkType) /\ n \in Nat \ {0} /\ DOMAIN work = 1 .. n
    BY LenProperties, EmptySeq DEF FlipTypes
  <1>2. /\ work' \in Seq(WorkType) /\ Len(work') = n - 1
        /\ \A i \in 1 .. n - 1 : work'[i] = work[i + 1]
    BY <1>1, HeadTailProperties
  <1>3. DOMAIN work' = 1 .. n - 1
    BY <1>2, LenProperties
  <1>4. Head(work) = work[1] /\ work[1] \in WorkType /\ 1 \in DOMAIN work
    BY <1>1
  <1> HIDE DEF n
  <1>5. ASSUME NEW i \in ToPrepare'
        PROVE  i \in Nat /\ i # 0 /\ i + 1 \in ToPrepare /\ work'[i] = work[i + 1]
    <2>1. i \in 1 .. n - 1 /\ work'[i].pc = "prepare"
      BY <1>3 DEF ToPrepare
    <2>2. i + 1 \in DOMAIN work /\ i \in Nat /\ i # 0
      BY <1>1, <2>1
    <2> QED
      BY <1>2, <2>1, <2>2 DEF ToPrepare
  <1> QED
    BY <1>2, <1>4, <1>5 DEF ToPrepare

\* Packets for the GPU thread hold no request yet.
LEMMA SubmitPacketsKeeps ==
    ASSUME FlipInv, NEW g \in Guests, NEW packet \in Packet, SubmitPackets(g, packet)
    PROVE  FlipInv'
  <1>0. /\ UNCHANGED <<requests, cpu, cancelled, nextId, free, last, gpu, eop, present, exit, guest,
                       registered, port>>
        /\ FlipTypes /\ work' = Append(work, packet) /\ left > 0 /\ left' = left - 1
    BY DEF SubmitPackets, FlipInv, queueVars, poolVars, portVars, eventLists
  <1>u. NumbersOnce /\ UNCHANGED <<guest, eop, gpu>>
    BY <1>0 DEF FlipInv, QueueInv
  <1>1. packet \in WorkType /\ packet.pc # "prepare"
    BY DEF WorkType, Packet
  <1>2. /\ work' \in Seq(WorkType) /\ ToPrepare' = ToPrepare
        /\ \A i \in ToPrepare : work'[i] = work[i]
    BY <1>0, <1>1, WorkAppended
  <1>3. FlipTypes'
    BY <1>0, <1>2 DEF FlipTypes
  <1>4. UNCHANGED <<Submitting, InHand>>
    BY <1>0 DEF Submitting, InHand
  <1>5. NumbersOnce'
    <2>1. \A a, b \in Submitting' : guest'[a].id = guest'[b].id => a = b
      BY <1>u, <1>2, <1>4 DEF NumbersOnce
    <2>2. \A i, j \in ToPrepare' : work'[i].id = work'[j].id => i = j
      BY <1>u, <1>2, <1>4 DEF NumbersOnce
    <2>3. IsInjective(eop')
      BY <1>u, <1>2, <1>4 DEF NumbersOnce
    <2>4. \A a \in Submitting', i \in ToPrepare' : guest'[a].id # work'[i].id
      BY <1>u, <1>2, <1>4 DEF NumbersOnce
    <2>5. \A a \in Submitting' : guest'[a].id \notin Range(eop') /\ (InHand' => guest'[a].id # gpu'.id)
      BY <1>u, <1>2, <1>4 DEF NumbersOnce
    <2>6. \A i \in ToPrepare' : work'[i].id \notin Range(eop') /\ (InHand' => work'[i].id # gpu'.id)
      BY <1>u, <1>2, <1>4 DEF NumbersOnce
    <2>7. InHand' => gpu'.id \notin Range(eop')
      BY <1>u, <1>2, <1>4 DEF NumbersOnce
    <2> QED
      BY <2>1, <2>2, <2>3, <2>4, <2>5, <2>6, <2>7 DEF NumbersOnce
  <1>6. Promised'
    BY <1>0, <1>2, <1>4, PromisesStay DEF FlipInv, QueueInv, Promised
  <1>7. QueueInv'
    BY <1>0, <1>5, <1>6, NumbersMoved DEF FlipInv
  <1>8. PortInv'
    BY <1>0, PortsUntouched DEF FlipInv
  <1> QED
    BY <1>3, <1>7, <1>8 DEF FlipInv

\* A guest puts the preparation of its flip into the work of the GPU thread.
LEMMA SubmitFlipPreparationKeeps ==
    ASSUME FlipInv, NEW g \in Guests, SubmitFlipPreparation(g)
    PROVE  FlipInv'
  <1> DEFINE w == [pc |-> "prepare", id |-> guest[g].id, source |-> "Cpu"]
             n == Len(work) + 1
  <1>0. /\ UNCHANGED <<requests, cpu, cancelled, nextId, free, last, gpu, eop, present, exit, left,
                       registered, port>>
        /\ FlipTypes /\ work' = Append(work, w)
        /\ guest[g].pc = "submit" /\ guest' = [guest EXCEPT ![g] = Idle]
    BY DEF SubmitFlipPreparation, FlipInv, queueVars, poolVars, portVars, eventLists
  <1>u. NumbersOnce /\ UNCHANGED <<eop, gpu>>
    BY <1>0 DEF FlipInv, QueueInv
  <1>1. w \in WorkType /\ w.pc = "prepare" /\ w.id = guest[g].id
    BY <1>0, GuestPort DEF WorkType
  <1> HIDE DEF w
  <1>2. /\ work' \in Seq(WorkType) /\ ToPrepare' = ToPrepare \cup {n}
        /\ \A i \in ToPrepare : work'[i] = work[i]
        /\ work'[n] = w /\ n \notin ToPrepare
    BY <1>0, <1>1, WorkAppended
  <1> HIDE DEF n
  <1>3. Idle \in GuestType /\ Idle.pc = "idle"
    BY DEF GuestType, Idle
  <1>4. /\ guest' \in [Guests -> GuestType] /\ guest'[g] = Idle
        /\ \A h \in Guests \ {g} : guest'[h] = guest[h]
    BY <1>0, <1>3, GuestChanged
  <1>5. FlipTypes'
    BY <1>0, <1>2, <1>4 DEF FlipTypes
  <1>6. InHand' = InHand /\ Submitting' = Submitting \ {g} /\ g \in Submitting
    BY <1>0, <1>3, <1>4 DEF Submitting, InHand
  <1>7. \A h \in Submitting' : guest'[h] = guest[h] /\ h \in Submitting /\ h # g
    BY <1>4, <1>6 DEF Submitting
  <1>8. NumbersOnce'
    <2>1. \A a, b \in Submitting' : guest'[a].id = guest'[b].id => a = b
      BY <1>u, <1>1, <1>2, <1>6, <1>7 DEF NumbersOnce
    <2>2. \A i, j \in ToPrepare' : work'[i].id = work'[j].id => i = j
      BY <1>u, <1>1, <1>2, <1>6, <1>7 DEF NumbersOnce
    <2>3. IsInjective(eop')
      BY <1>u, <1>1, <1>2, <1>6, <1>7 DEF NumbersOnce
    <2>4. \A a \in Submitting', i \in ToPrepare' : guest'[a].id # work'[i].id
      BY <1>u, <1>1, <1>2, <1>6, <1>7 DEF NumbersOnce
    <2>5. \A a \in Submitting' : guest'[a].id \notin Range(eop') /\ (InHand' => guest'[a].id # gpu'.id)
      BY <1>u, <1>1, <1>2, <1>6, <1>7 DEF NumbersOnce
    <2>6. \A i \in ToPrepare' : work'[i].id \notin Range(eop') /\ (InHand' => work'[i].id # gpu'.id)
      BY <1>u, <1>1, <1>2, <1>6, <1>7 DEF NumbersOnce
    <2>7. InHand' => gpu'.id \notin Range(eop')
      BY <1>u, <1>1, <1>2, <1>6, <1>7 DEF NumbersOnce
    <2> QED
      BY <2>1, <2>2, <2>3, <2>4, <2>5, <2>6, <2>7 DEF NumbersOnce
  <1>9. Promised'
    BY <1>0, <1>1, <1>2, <1>6, <1>7, PromisesStay DEF FlipInv, QueueInv, Promised
  <1>10. QueueInv'
    BY <1>0, <1>8, <1>9, NumbersMoved DEF FlipInv
  <1>11. \A h \in Guests : \/ guest'[h] = guest[h]
                           \/ guest'[h].pc \in {"idle", "submit"} /\ guest[h].pc \in {"idle", "submit"}
    BY <1>0, <1>3, <1>4
  <1>12. PortInv'
    BY <1>0, <1>11, PortsUntouched DEF FlipInv
  <1> QED
    BY <1>5, <1>10, <1>12 DEF FlipInv

\* The GPU thread takes its next work.
LEMMA GpuTakesKeeps ==
    ASSUME FlipInv, GpuTakes
    PROVE  FlipInv'
  <1>0. /\ UNCHANGED <<requests, cpu, cancelled, nextId, free, last, guest, eop, present, exit, left,
                       registered, port>>
        /\ FlipTypes /\ work # <<>> /\ work' = Tail(work) /\ gpu = Idle /\ gpu' = Head(work)
    BY DEF GpuTakes, FlipInv, queueVars, poolVars, portVars, eventLists
  <1>u. NumbersOnce /\ UNCHANGED <<eop, guest>>
    BY <1>0 DEF FlipInv, QueueInv
  <1>1. /\ work' \in Seq(WorkType) /\ gpu' = work[1] /\ work[1] \in WorkType
        /\ 1 \in ToPrepare <=> work[1].pc = "prepare"
        /\ \A i \in ToPrepare' : i \in Nat /\ i # 0 /\ i + 1 \in ToPrepare /\ work'[i] = work[i + 1]
    BY <1>0, WorkTaken
  <1>2. work[1] \in GpuType /\ (work[1].pc \in {"prepare", "reserve", "wait"})
    BY <1>1 DEF WorkType, GpuType, Packet
  <1>3. FlipTypes'
    BY <1>0, <1>1, <1>2 DEF FlipTypes
  <1>4. Submitting' = Submitting /\ (InHand' <=> 1 \in ToPrepare) /\ ~InHand
    BY <1>0, <1>1, <1>2 DEF Submitting, InHand, Idle
  <1>5. \A i \in ToPrepare' : i + 1 # 1
    BY <1>1
  <1>6. ASSUME NEW i \in ToPrepare', NEW j \in ToPrepare', work'[i].id = work'[j].id
        PROVE  i = j
    <2>1. i + 1 = j + 1
      BY <1>1, <1>6 DEF FlipInv, QueueInv, NumbersOnce
    <2> QED
      BY <1>1, <2>1
  <1>7. NumbersOnce'
    <2>1. \A a, b \in Submitting' : guest'[a].id = guest'[b].id => a = b
      BY <1>u, <1>1, <1>4, <1>5, <1>6 DEF NumbersOnce
    <2>2. \A i, j \in ToPrepare' : work'[i].id = work'[j].id => i = j
      BY <1>u, <1>1, <1>4, <1>5, <1>6 DEF NumbersOnce
    <2>3. IsInjective(eop')
      BY <1>u, <1>1, <1>4, <1>5, <1>6 DEF NumbersOnce
    <2>4. \A a \in Submitting', i \in ToPrepare' : guest'[a].id # work'[i].id
      BY <1>u, <1>1, <1>4, <1>5, <1>6 DEF NumbersOnce
    <2>5. \A a \in Submitting' : guest'[a].id \notin Range(eop') /\ (InHand' => guest'[a].id # gpu'.id)
      BY <1>u, <1>1, <1>4, <1>5, <1>6 DEF NumbersOnce
    <2>6. \A i \in ToPrepare' : work'[i].id \notin Range(eop') /\ (InHand' => work'[i].id # gpu'.id)
      BY <1>u, <1>1, <1>4, <1>5, <1>6 DEF NumbersOnce
    <2>7. InHand' => gpu'.id \notin Range(eop')
      BY <1>u, <1>1, <1>4, <1>5, <1>6 DEF NumbersOnce
    <2> QED
      BY <2>1, <2>2, <2>3, <2>4, <2>5, <2>6, <2>7 DEF NumbersOnce
  <1>8. Promised'
    BY <1>0, <1>1, <1>2, <1>4, PromisesStay DEF FlipInv, QueueInv, Promised, InHand
  <1>9. QueueInv'
    BY <1>0, <1>7, <1>8, NumbersMoved DEF FlipInv
  <1>10. PortInv'
    BY <1>0, PortsUntouched DEF FlipInv
  <1> QED
    BY <1>3, <1>9, <1>10 DEF FlipInv

\* What the GPU thread does without a number, or keeping the one it has.
LEMMA GpuKeepsNumber ==
    ASSUME QueueInv, UNCHANGED <<requests, cpu, cancelled, nextId, free, last, guest, work, eop, present>>,
           \/ ~InHand'
           \/ /\ gpu.pc \in {"look", "record", "drop"} /\ gpu'.pc \in {"look", "record", "drop"}
              /\ gpu'.id = gpu.id
    PROVE  QueueInv'
  <1>1. UNCHANGED <<Submitting, ToPrepare>>
    BY DEF Submitting, ToPrepare
  <1>2. InHand' => InHand /\ gpu'.id = gpu.id
    BY DEF InHand
  <1>3. NumbersOnce'
    BY <1>1, <1>2 DEF QueueInv, NumbersOnce
  <1>4. Promised'
    BY <1>1, PromisesStay DEF QueueInv, Promised, InHand
  <1> QED
    BY <1>3, <1>4, NumbersMoved

\* The preparation of a flip finds its buffer.
LEMMA PrepareLooksKeeps ==
    ASSUME FlipInv, PrepareLooks
    PROVE  FlipInv'
  <1>0. /\ UNCHANGED <<requests, cpu, cancelled, nextId, free, last, guest, work, eop, present, left,
                       registered, port>>
        /\ FlipTypes /\ gpu.pc = "look"
        /\ gpu' = [gpu EXCEPT !.pc = IF Current(gpu.request) THEN "record" ELSE "drop"]
        /\ exit' \in {exit, "unregistered"}
    BY DEF PrepareLooks, FlipInv, queueVars, poolVars, portVars, eventLists, Die
  <1>1. gpu \in [pc : {"look", "record", "drop", "flush"}, id : Nat, source : {"Cpu", "GpuEop"},
                 request : Request]
    BY <1>0 DEF FlipTypes, GpuType, Idle, Packet
  <1>2. PICK c \in {"record", "drop"} : gpu' = [gpu EXCEPT !.pc = c]
    BY <1>0
  <1>3. gpu'.pc = c /\ gpu'.id = gpu.id
    BY <1>1, <1>2
  <1>4. gpu' \in [pc : {"look", "record", "drop", "flush"}, id : Nat, source : {"Cpu", "GpuEop"},
                 request : Request]
    BY <1>1, <1>2
  <1>5. FlipTypes'
    BY <1>0, <1>4 DEF FlipTypes, GpuType
  <1>6. QueueInv'
    BY <1>0, <1>3, GpuKeepsNumber DEF FlipInv
  <1>7. PortsHaveTheirs' /\ ClosedReset'
    BY <1>0, RacesStay DEF FlipInv, PortInv, PortsHaveTheirs, ClosedReset, Closing, BeingCancelled
  <1> QED
    BY <1>0, <1>5, <1>6, <1>7, RacesStay DEF FlipInv, PortInv, ExitRight, FlipQueueConsistent

\* WaitFlipDone takes the GPU thread on and touches no flip.
LEMMA WaitFlipDoneKeeps ==
    ASSUME FlipInv, WaitFlipDone
    PROVE  FlipInv'
  <1>0. /\ UNCHANGED <<requests, cpu, cancelled, nextId, free, last, guest, work, eop, present, left,
                       registered, port>>
        /\ FlipTypes /\ gpu' = Idle
        /\ exit' \in {exit, "no port"}
    BY DEF WaitFlipDone, FlipInv, queueVars, poolVars, portVars, eventLists, Die
  <1>1. gpu' \in GpuType /\ gpu'.pc = "idle"
    BY <1>0 DEF GpuType, Idle
  <1>5. FlipTypes'
    BY <1>0, <1>1 DEF FlipTypes
  <1>6. QueueInv'
    BY <1>0, <1>1, GpuKeepsNumber DEF FlipInv, InHand
  <1>7. PortsHaveTheirs' /\ ClosedReset'
    BY <1>0, RacesStay DEF FlipInv, PortInv, PortsHaveTheirs, ClosedReset, Closing, BeingCancelled
  <1> QED
    BY <1>0, <1>5, <1>6, <1>7, RacesStay DEF FlipInv, PortInv, ExitRight, FlipQueueConsistent

-----------------------------------------------------------------------------
(* Reserving *)

\* A new request joins the guest threads' or the others.
NewOne(p, r) ==
    /\ r \in Request /\ r.id = nextId /\ r.port = p /\ r.generation = port[p].generation
    /\ r.state = "Reserved" /\ r.frame = NoFrame
Joins(r) ==
    \/ cpu' = Append(cpu, r) /\ requests' = requests
    \/ requests' = Append(requests, r) /\ cpu' = cpu

\* A new request, with the next number, that nobody else is promised.
LEMMA RequestAdded ==
    ASSUME FlipInv, NEW p \in Ports, NEW r, NewOne(p, r), Joins(r), nextId' = nextId + 1,
           UNCHANGED <<cancelled, free, last, present>>
    PROVE  /\ RequestsOnce' /\ StatesRight' /\ FrontKept' /\ FramesOnce'
           /\ requests' \in Seq(Request) /\ cpu' \in Seq(Request) /\ nextId' \in Nat
           /\ Unprepared \subseteq Unprepared' /\ Prepared \subseteq Prepared' /\ Completable \subseteq Completable'
           /\ nextId \in Unprepared'
           /\ Range(requests') \cup Range(cpu') = Range(requests) \cup Range(cpu) \cup {r}
           /\ Len(requests') + Len(cpu') = Len(requests) + Len(cpu) + 1
           /\ Len(requests) \in Nat /\ Len(cpu) \in Nat
  <1>1. /\ FlipTypes /\ RequestsOnce /\ StatesRight /\ FrontKept /\ FramesOnce
        /\ RequestList(requests) /\ RequestList(cpu) /\ RequestList(cancelled)
        /\ AllRequests \subseteq Request /\ nextId \in Nat
        /\ Range(requests) \subseteq AllRequests /\ Range(cpu) \subseteq AllRequests
        /\ Range(cancelled) \subseteq AllRequests
    BY ListsAre DEF FlipInv, QueueInv, FlipTypes
  <1>2. /\ r \in Request /\ r.id = nextId /\ r.state = "Reserved" /\ r.frame = NoFrame
    BY DEF NewOne
  <1>3. \A x \in AllRequests : x.id # nextId /\ x.id < nextId /\ x.id \in Nat
    BY <1>1 DEF RequestsOnce, Request
  <1>4. /\ RequestList(requests') /\ RequestList(cpu')
        /\ \/ Range(cpu') = Range(cpu) \cup {r} /\ requests' = requests /\ Len(cpu') = Len(cpu) + 1
           \/ /\ Range(requests') = Range(requests) \cup {r} /\ cpu' = cpu
              /\ Len(requests') = Len(requests) + 1
        /\ requests # <<>> => requests' # <<>> /\ requests'[1] = requests[1]
    <2>1. \A x \in Range(requests) \cup Range(cpu) : x.id # r.id
      BY <1>1, <1>2, <1>3
    <2>2. CASE cpu' = Append(cpu, r) /\ requests' = requests
      BY <1>1, <1>2, <2>1, <2>2, RequestAppended
    <2>3. CASE requests' = Append(requests, r) /\ cpu' = cpu
      BY <1>1, <1>2, <2>1, <2>3, RequestAppended
    <2> QED
      BY <2>2, <2>3 DEF Joins
  <1>5. /\ AllRequests' = AllRequests \cup {r}
        /\ Range(requests') \cup Range(cpu') = Range(requests) \cup Range(cpu) \cup {r}
        /\ Range(requests) \subseteq Range(requests')
        /\ Range(cancelled') = Range(cancelled)
    BY <1>4 DEF AllRequests
  <1>6. RequestsOnce'
    <2>1. IdsOnce(requests') /\ IdsOnce(cpu') /\ IdsOnce(cancelled')
      BY <1>1, <1>4 DEF RequestList
    <2>2. \A y \in Range(requests) \cup Range(cpu) \cup Range(cancelled) : y.id # r.id
      BY <1>1, <1>2, <1>3
    <2>3. /\ \A a \in Range(requests'), c \in Range(cpu') : a.id # c.id
          /\ \A a \in Range(requests'), x \in Range(cancelled') : a.id # x.id
          /\ \A c \in Range(cpu'), x \in Range(cancelled') : c.id # x.id
      BY <1>1, <1>4, <1>5, <2>2 DEF RequestsOnce
    <2>4. \A a \in AllRequests' : a.id < nextId'
      BY <1>1, <1>2, <1>3, <1>5
    <2> QED
      BY <2>1, <2>3, <2>4 DEF RequestsOnce
  <1>7. StatesRight'
    <2>1. \A a \in AllRequests' : /\ a.state = "Reserved" => a.frame = NoFrame
                                  /\ ~Unfinished(a) => a.frame # NoFrame
      BY <1>1, <1>2, <1>5 DEF StatesRight, Unfinished
    <2>2. \A a \in Range(cpu') : a.state = "Reserved"
      BY <1>1, <1>2, <1>4 DEF StatesRight
    <2>3. \A a \in Range(cancelled') : Unfinished(a)
      BY <1>1, <1>5 DEF StatesRight
    <2>4. \A a \in Range(requests') : a.state = "Presenting" =>
              present'.pc = "presenting" /\ a.id = present'.request.id
      BY <1>1, <1>2, <1>4 DEF StatesRight
    <2> QED
      BY <2>1, <2>2, <2>3, <2>4 DEF StatesRight
  <1>8. FrontKept'
    BY <1>1, <1>4 DEF FrontKept, Processing
  <1>9. FramesOnce'
    <2>1. NoFrame \notin Range(free)
      BY <1>1, VideoOutAssumption, ElementOfSeq, LenProperties DEF FlipTypes, Range
    <2> QED
      BY <1>1, <1>2, <1>5, <2>1 DEF FramesOnce
  <1>10. nextId \in Unprepared'
    BY <1>2, <1>5 DEF Unprepared
  <1>11. Unprepared \subseteq Unprepared' /\ Prepared \subseteq Prepared' /\ Completable \subseteq Completable'
    BY <1>5 DEF Unprepared, Prepared, Completable
  <1>12. Len(requests) \in Nat /\ Len(cpu) \in Nat
    BY <1>1, LenProperties DEF RequestList
  <1>13. Len(requests') + Len(cpu') = Len(requests) + Len(cpu) + 1
    BY <1>4, <1>12
  <1>14. requests' \in Seq(Request) /\ cpu' \in Seq(Request) /\ nextId' \in Nat
    BY <1>1, <1>4 DEF RequestList
  <1> QED
    BY <1>5, <1>6, <1>7, <1>8, <1>9, <1>10, <1>11, <1>12, <1>13, <1>14

\* Its port counts it.
LEMMA ReservedPort ==
    ASSUME FlipInv, NEW p \in Ports, NEW r, NewOne(p, r), Reserved(p), port[p].opened,
           Range(requests') \cup Range(cpu') = Range(requests) \cup Range(cpu) \cup {r},
           UNCHANGED <<registered, exit>>, Len(requests) \in Nat, Len(cpu) \in Nat,
           \A g \in Guests : \/ guest'[g] = guest[g]
                             \/ guest'[g].pc \in {"idle", "submit"} /\ guest[g].pc \in {"idle", "submit"}
    PROVE  PortInv' /\ port' \in [Ports -> PortType]
  <1> DEFINE v == [port[p] EXCEPT !.pending = Pending + 1]
  <1>0. Pending + 1 \in Int /\ Pending + 1 > 0
    BY DEF Pending
  <1>1. FlipTypes /\ port[p] \in PortType /\ port' = [port EXCEPT ![p] = v]
    BY DEF FlipInv, FlipTypes, Reserved
  <1>2. /\ v \in PortType /\ v.opened = port[p].opened /\ v.generation = port[p].generation
        /\ v.rate = port[p].rate /\ v.occupied = port[p].occupied /\ v.pending > 0
    BY <1>0, <1>1 DEF PortType
  <1> HIDE DEF v
  <1>3. port' \in [Ports -> PortType] /\ port'[p] = v /\ \A o \in Ports \ {p} : port'[o] = port[o]
    BY <1>1, <1>2, PortChanged
  <1>4. \A o \in Ports : /\ port'[o].opened = port[o].opened /\ port'[o].generation = port[o].generation
                         /\ port'[o].rate = port[o].rate /\ port'[o].occupied = port[o].occupied
                         /\ port[o].pending > 0 => port'[o].pending > 0
    BY <1>2, <1>3
  <1>5. \A o \in Ports : (Closing(o)' <=> Closing(o))
    BY DEF Closing
  <1>6. \A o : (BeingCancelled(o)' <=> BeingCancelled(o))
    BY DEF BeingCancelled
  <1>7. PortsHaveTheirs'
    <2>1. ASSUME NEW q \in Range(requests) \cup Range(cpu)
          PROVE  \/ /\ port'[q.port].opened /\ port'[q.port].generation = q.generation
                    /\ port'[q.port].pending > 0
                 \/ BeingCancelled(q.port)'
      BY <1>4, <1>6, <2>1, PortsOfRequests DEF FlipInv, PortInv, PortsHaveTheirs
    <2>2. port'[r.port].opened /\ port'[r.port].generation = r.generation /\ port'[r.port].pending > 0
      BY <1>2, <1>3 DEF NewOne
    <2>3. \A o \in Ports : Closing(o)' => ~port'[o].opened
      BY <1>4, <1>5 DEF FlipInv, PortInv, PortsHaveTheirs
    <2> QED
      BY <2>1, <2>2, <2>3 DEF PortsHaveTheirs
  <1>8. ClosedReset'
    BY <1>1, <1>4, RacesStay, GuestPort DEF FlipInv, PortInv, ClosedReset
  <1>9. ExitRight'
    BY RacesStay DEF FlipInv, PortInv, ExitRight, FlipQueueConsistent
  <1> QED
    BY <1>3, <1>7, <1>8, <1>9 DEF PortInv

\* The next number is nobody's.
LEMMA NewRequestIsNew ==
    ASSUME FlipTypes, NEW p \in Ports, NEW index \in Indexes, NEW source \in {"Cpu", "GpuEop"}
    PROVE  NewOne(p, NewRequest(p, index, source))
  <1>1. port[p].generation \in Nat /\ nextId \in Nat
    BY DEF FlipTypes, PortType
  <1> QED
    BY <1>1 DEF NewOne, NewRequest, Request, FlipStates

\* FlipQueue::Submit from a guest thread.
LEMMA SubmitFlipKeeps ==
    ASSUME FlipInv, NEW g \in Guests, NEW p \in Ports, NEW index \in Indexes, SubmitFlip(g, p, index)
    PROVE  FlipInv'
  <1> DEFINE r == NewRequest(p, index, "Cpu")
             v == [pc |-> "submit", id |-> nextId]
  <1>0. /\ UNCHANGED <<requests, cancelled, free, last, work, gpu, eop, present, exit, registered>>
        /\ cpu' = Append(cpu, r) /\ guest' = [guest EXCEPT ![g] = v] /\ guest[g] = Idle
        /\ nextId' = nextId + 1 /\ Reserved(p) /\ port[p].opened
        /\ left > 0 /\ left' = left - 1 /\ FlipTypes /\ nextId \in Nat
    BY DEF SubmitFlip, FlipInv, poolVars, eventLists, Reserved, FlipTypes
  <1>1. NewOne(p, r)
    BY <1>0, NewRequestIsNew
  <1> HIDE DEF r
  <1>2. Joins(r)
    BY <1>0 DEF Joins
  <1>3. /\ RequestsOnce' /\ StatesRight' /\ FrontKept' /\ FramesOnce'
        /\ requests' \in Seq(Request) /\ cpu' \in Seq(Request) /\ nextId' \in Nat
        /\ Unprepared \subseteq Unprepared' /\ Prepared \subseteq Prepared' /\ Completable \subseteq Completable'
        /\ nextId \in Unprepared'
        /\ Range(requests') \cup Range(cpu') = Range(requests) \cup Range(cpu) \cup {r}
        /\ Len(requests) \in Nat /\ Len(cpu) \in Nat
    BY <1>0, <1>1, <1>2, RequestAdded
  <1>4. v \in GuestType /\ v.pc = "submit" /\ v.id = nextId /\ guest[g].pc = "idle"
    BY <1>0 DEF GuestType, Idle
  <1> HIDE DEF v
  <1>5. /\ guest' \in [Guests -> GuestType] /\ guest'[g] = v
        /\ \A h \in Guests \ {g} : guest'[h] = guest[h]
    BY <1>0, <1>4, GuestChanged
  <1>6. \A h \in Guests : \/ guest'[h] = guest[h]
                          \/ guest'[h].pc \in {"idle", "submit"} /\ guest[h].pc \in {"idle", "submit"}
    BY <1>4, <1>5
  <1>7. PortInv' /\ port' \in [Ports -> PortType]
    BY <1>0, <1>1, <1>3, <1>6, ReservedPort
  <1>8. FlipTypes'
    BY <1>0, <1>3, <1>5, <1>7 DEF FlipTypes
  <1>9. Submitting' = Submitting \cup {g} /\ g \notin Submitting /\ UNCHANGED <<ToPrepare, InHand>>
    BY <1>0, <1>4, <1>5 DEF Submitting, ToPrepare, InHand
  <1>10. \A h \in Submitting : guest'[h] = guest[h] /\ guest[h].id # nextId
    BY <1>5, <1>9, NumbersBelow DEF Submitting
  <1>11. /\ \A i \in ToPrepare : work[i].id # nextId
         /\ InHand => gpu.id # nextId
         /\ nextId \notin Range(eop)
    BY NumbersBelow
  <1>u. NumbersOnce /\ UNCHANGED <<work, eop, gpu>>
    BY <1>0 DEF FlipInv, QueueInv
  <1>12. NumbersOnce'
    <2>1. \A a, b \in Submitting' : guest'[a].id = guest'[b].id => a = b
      BY <1>u, <1>4, <1>5, <1>9, <1>10 DEF NumbersOnce
    <2>2. \A a \in Submitting', i \in ToPrepare' : guest'[a].id # work'[i].id
      BY <1>u, <1>4, <1>5, <1>9, <1>10, <1>11 DEF NumbersOnce
    <2>3. \A a \in Submitting' : guest'[a].id \notin Range(eop') /\ (InHand' => guest'[a].id # gpu'.id)
      BY <1>u, <1>4, <1>5, <1>9, <1>10, <1>11 DEF NumbersOnce
    <2> QED
      BY <1>u, <1>9, <2>1, <2>2, <2>3 DEF NumbersOnce
  <1>13. Promised'
    <2>1. Promised
      BY DEF FlipInv, QueueInv
    <2>2. \A a \in Submitting' : guest'[a].id \in Unprepared'
      BY <1>3, <1>4, <1>5, <1>9, <1>10, <2>1 DEF Promised
    <2> QED
      BY <1>3, <1>u, <1>9, <2>1, <2>2 DEF Promised
  <1> QED
    BY <1>3, <1>7, <1>8, <1>12, <1>13 DEF FlipInv, QueueInv

\* FlipQueue::ReserveEop from a packet.
LEMMA EopReserveKeeps ==
    ASSUME FlipInv, EopReserve
    PROVE  FlipInv'
  <1> DEFINE p == gpu.port
             r == NewRequest(p, gpu.index, "GpuEop")
             v == [pc |-> "prepare", id |-> nextId, source |-> "GpuEop"]
  <1>0. /\ UNCHANGED <<cpu, cancelled, free, last, work, eop, present, registered, guest, left>>
        /\ FlipTypes /\ nextId \in Nat /\ gpu.pc = "reserve"
    BY DEF EopReserve, FlipInv, poolVars, eventLists, FlipTypes
  <1>1. p \in Ports /\ gpu.index \in Indexes
    BY <1>0 DEF FlipTypes, GpuType, Idle, Packet
  <1>2. CASE UNCHANGED <<port, requests, nextId, gpu>> /\ exit' \in {"no port", "saturated"}
    <2>1. FlipTypes'
      BY <1>0, <1>2 DEF FlipTypes
    <2>2. QueueInv'
      BY <1>0, <1>2, QueueUntouched DEF FlipInv, Submitting
    <2>3. PortsHaveTheirs' /\ ClosedReset'
      BY <1>0, <1>2, RacesStay DEF FlipInv, PortInv, PortsHaveTheirs, ClosedReset, Closing, BeingCancelled
    <2> QED
      BY <1>2, <2>1, <2>2, <2>3 DEF FlipInv, PortInv, ExitRight, FlipQueueConsistent
  <1>3. CASE /\ port[p].opened /\ Reserved(p) /\ requests' = Append(requests, r) /\ gpu' = v
             /\ UNCHANGED exit
    <2>0. nextId' = nextId + 1
      BY <1>3 DEF Reserved
    <2>1. NewOne(p, r)
      BY <1>0, <1>1, NewRequestIsNew
    <2> HIDE DEF r, p
    <2>2. Joins(r)
      BY <1>0, <1>3 DEF Joins
    <2>3. /\ RequestsOnce' /\ StatesRight' /\ FrontKept' /\ FramesOnce'
          /\ requests' \in Seq(Request) /\ cpu' \in Seq(Request) /\ nextId' \in Nat
          /\ Unprepared \subseteq Unprepared' /\ Prepared \subseteq Prepared' /\ Completable \subseteq Completable'
          /\ nextId \in Unprepared'
          /\ Range(requests') \cup Range(cpu') = Range(requests) \cup Range(cpu) \cup {r}
          /\ Len(requests) \in Nat /\ Len(cpu) \in Nat
      BY <1>0, <1>1, <2>0, <2>1, <2>2, RequestAdded
    <2>4. v \in GpuType /\ v.pc = "prepare" /\ v.id = nextId
      BY <1>0 DEF GpuType
    <2> HIDE DEF v
    <2>5. PortInv' /\ port' \in [Ports -> PortType]
      BY <1>0, <1>1, <1>3, <2>1, <2>3, ReservedPort
    <2>6. FlipTypes'
      BY <1>0, <1>3, <2>3, <2>4, <2>5 DEF FlipTypes
    <2>7. UNCHANGED <<Submitting, ToPrepare>> /\ InHand' /\ gpu'.id = nextId /\ gpu'.pc = "prepare"
      BY <1>0, <1>3, <2>4 DEF Submitting, ToPrepare, InHand
    <2>8. /\ \A h \in Submitting : guest[h].id # nextId
          /\ \A i \in ToPrepare : work[i].id # nextId
          /\ nextId \notin Range(eop)
      BY NumbersBelow
    <2>9. NumbersOnce /\ UNCHANGED <<work, eop, guest>>
      BY <1>0 DEF FlipInv, QueueInv
    <2>10. NumbersOnce'
      BY <2>7, <2>8, <2>9 DEF NumbersOnce
    <2>11. Promised'
      <3>1. Promised
        BY DEF FlipInv, QueueInv
      <3> QED
        BY <2>3, <2>7, <2>9, <3>1 DEF Promised
    <2> QED
      BY <2>3, <2>5, <2>6, <2>10, <2>11 DEF FlipInv, QueueInv
  <1> QED
    BY <1>2, <1>3 DEF EopReserve, Die

-----------------------------------------------------------------------------
(* Preparing *)

\* A number is one request's.
LEMMA OneOfId ==
    ASSUME FlipTypes, RequestsOnce
    PROVE  \A x, y \in AllRequests : x.id = y.id => x = y
  <1>1. RequestList(requests) /\ RequestList(cpu) /\ RequestList(cancelled)
    BY ListsAre
  <1>2. ASSUME NEW s, RequestList(s), NEW x \in Range(s), NEW y \in Range(s), x.id = y.id
        PROVE  x = y
    <2>1. PICK i \in DOMAIN s : s[i] = x
      BY <1>2 DEF Range
    <2>2. PICK j \in DOMAIN s : s[j] = y
      BY <1>2 DEF Range
    <2> QED
      BY <1>2, <2>1, <2>2 DEF RequestList, IdsOnce
  <1>3. ASSUME NEW x \in AllRequests, NEW y \in AllRequests, x.id = y.id
        PROVE  x = y
    <2>1. \/ x \in Range(requests) /\ y \in Range(requests)
          \/ x \in Range(cpu) /\ y \in Range(cpu)
          \/ x \in Range(cancelled) /\ y \in Range(cancelled)
      BY <1>3 DEF AllRequests, RequestsOnce
    <2> QED
      BY <1>1, <1>2, <1>3, <2>1
  <1> QED
    BY <1>3

\* One request of the lists is another one now, or is gone; the rest is as it was.
Around(s, q, r) == Range(s) \ {q} \subseteq Range(s)' /\ Range(s)' \subseteq (Range(s) \ {q}) \cup {r}
Exchanged(q, r) == Around(requests, q, r) /\ Around(cpu, q, r) /\ Around(cancelled, q, r)

\* Exchanging one request for another state of it keeps every request in one list.
LEMMA OnceExchanged ==
    ASSUME FlipTypes, RequestsOnce, NEW q \in AllRequests, NEW r, r.id = q.id, Exchanged(q, r),
           RequestList(requests)', RequestList(cpu)', RequestList(cancelled)', nextId' = nextId,
           ~(r \in Range(requests') /\ r \in Range(cpu')),
           ~(r \in Range(requests') /\ r \in Range(cancelled')),
           ~(r \in Range(cpu') /\ r \in Range(cancelled'))
    PROVE  RequestsOnce'
  <1>1. \A x \in AllRequests \ {q} : x.id # r.id
    BY OneOfId
  <1>2. /\ Range(requests') \subseteq (Range(requests) \ {q}) \cup {r}
        /\ Range(cpu') \subseteq (Range(cpu) \ {q}) \cup {r}
        /\ Range(cancelled') \subseteq (Range(cancelled) \ {q}) \cup {r}
    BY DEF Exchanged, Around
  <1>3. \A x \in (Range(requests) \cup Range(cpu) \cup Range(cancelled)) \ {q} : x.id # r.id
    BY <1>1 DEF AllRequests
  <1>4. \A a \in Range(requests'), c \in Range(cpu') : a.id # c.id
    BY <1>2, <1>3 DEF RequestsOnce
  <1>5. \A a \in Range(requests'), x \in Range(cancelled') : a.id # x.id
    BY <1>2, <1>3 DEF RequestsOnce
  <1>6. \A c \in Range(cpu'), x \in Range(cancelled') : c.id # x.id
    BY <1>2, <1>3 DEF RequestsOnce
  <1>7. \A x \in AllRequests' : x.id < nextId'
    <2>1. q.id < nextId
      BY DEF RequestsOnce
    <2>2. AllRequests' \subseteq AllRequests \cup {r}
      BY <1>2 DEF AllRequests
    <2> QED
      BY <2>1, <2>2 DEF RequestsOnce
  <1>8. IdsOnce(requests') /\ IdsOnce(cpu') /\ IdsOnce(cancelled')
    BY DEF RequestList
  <1> QED
    BY <1>4, <1>5, <1>6, <1>7, <1>8 DEF RequestsOnce

\* Exchanging a request breaks no promise about another number.
LEMMA PromisesExchanged ==
    ASSUME FlipTypes, RequestsOnce, NEW q \in AllRequests, NEW r, Exchanged(q, r)
    PROVE  /\ Unprepared \ {q.id} \subseteq Unprepared' /\ Prepared \ {q.id} \subseteq Prepared'
           /\ Completable \ {q.id} \subseteq Completable'
  <1>1. /\ Range(requests) \ {q} \subseteq Range(requests') /\ Range(cpu) \ {q} \subseteq Range(cpu')
        /\ Range(cancelled) \ {q} \subseteq Range(cancelled')
        /\ AllRequests \ {q} \subseteq AllRequests'
    BY DEF Exchanged, Around, AllRequests
  <1>2. Unprepared \ {q.id} \subseteq Unprepared'
    BY <1>1 DEF Unprepared
  <1>3. Prepared \ {q.id} \subseteq Prepared'
    BY <1>1 DEF Prepared
  <1>4. Completable \ {q.id} \subseteq Completable'
    BY <1>1 DEF Completable
  <1> QED
    BY <1>2, <1>3, <1>4

\* The request is being recorded, or ready with a frame.
LEMMA StatesExchanged ==
    ASSUME StatesRight, NEW q \in AllRequests, NEW r, Exchanged(q, r), present' = present,
           r \notin Range(cpu'),
           \/ r.state = "Recording"
           \/ r.state = "Ready" /\ r.frame # NoFrame /\ r \notin Range(cancelled')
    PROVE  StatesRight'
  <1>1. /\ Range(requests') \subseteq Range(requests) \cup {r}
        /\ Range(cpu') \subseteq Range(cpu)
        /\ Range(cancelled') \subseteq Range(cancelled) \cup {r}
        /\ AllRequests' \subseteq AllRequests \cup {r}
    BY DEF Exchanged, Around, AllRequests
  <1>2. \A a \in AllRequests' : /\ a.state = "Reserved" => a.frame = NoFrame
                                /\ ~Unfinished(a) => a.frame # NoFrame
    BY <1>1 DEF StatesRight, Unfinished
  <1>3. \A a \in Range(cpu') : a.state = "Reserved"
    BY <1>1 DEF StatesRight
  <1>4. \A a \in Range(cancelled') : Unfinished(a)
    BY <1>1 DEF StatesRight, Unfinished
  <1>5. \A a \in Range(requests') : a.state = "Presenting" =>
              present'.pc = "presenting" /\ a.id = present'.request.id
    BY <1>1 DEF StatesRight
  <1> QED
    BY <1>2, <1>3, <1>4, <1>5 DEF StatesRight

\* Exchanging a request leaves the frames of the others where they are.
LEMMA FramesExchanged ==
    ASSUME FramesOnce, NEW q \in AllRequests, NEW r, r.frame = q.frame, UNCHANGED <<free, last>>,
           AllRequests' = (AllRequests \ {q}) \cup {r}
    PROVE  FramesOnce'
  <1>1. \A a, b \in AllRequests' : a.frame # NoFrame /\ a.frame = b.frame => a = b
    BY DEF FramesOnce
  <1>2. \A a \in AllRequests' : a.frame \notin Range(free')
    BY DEF FramesOnce
  <1>3. \A f \in Frames : f \in Range(free') \/ \E a \in AllRequests' : a.frame = f
    BY DEF FramesOnce
  <1> QED
    BY <1>1, <1>2, <1>3 DEF FramesOnce

\* The request that the present thread looks at stays in front.
LEMMA FrontStays ==
    ASSUME FrontKept, present' = present, Processing => requests' # <<>> /\ requests'[1] = requests[1]
    PROVE  FrontKept'
  BY DEF FrontKept, Processing

\* What is in front while the present thread has a request.
LEMMA FrontRequest ==
    ASSUME FlipTypes, FrontKept, Processing
    PROVE  /\ requests # <<>> /\ present.request \in Request /\ present.request.state = "Ready"
           /\ requests[1].id = present.request.id /\ requests[1].frame = present.request.frame
           /\ requests[1].port = present.request.port
           /\ present.pc = "chosen" => requests[1] = present.request
           /\ present.pc = "presenting" => requests[1].state = "Presenting"
           /\ requests[1].state \in {"Ready", "Presenting"}
  <1>1. present.pc \in {"chosen", "presenting"} /\ present.request \in Request
    BY DEF Processing, FlipTypes, PresentType
  <1>2. /\ requests # <<>> /\ present.request.state = "Ready"
        /\ (present.pc = "chosen" => requests[1] = present.request)
        /\ (present.pc = "presenting" =>
               requests[1] = [present.request EXCEPT !.state = "Presenting"])
    BY DEF FrontKept
  <1>3. CASE present.pc = "chosen"
    BY <1>1, <1>2, <1>3
  <1>4. CASE present.pc = "presenting"
    BY <1>1, <1>2, <1>4 DEF Request
  <1> QED
    BY <1>1, <1>3, <1>4

\* The GPU thread keeps its number or drops it.
LEMMA NumbersStay ==
    ASSUME NumbersOnce, UNCHANGED <<guest, work, eop>>, InHand' => InHand /\ gpu'.id = gpu.id
    PROVE  NumbersOnce'
  <1>1. UNCHANGED <<Submitting, ToPrepare>>
    BY DEF Submitting, ToPrepare
  <1> QED
    BY <1>1 DEF NumbersOnce

\* What the GPU thread is promised about the request in its hands.
LEMMA PromisesOfGpu ==
    ASSUME Promised, NumbersOnce, InHand, UNCHANGED <<guest, work, eop>>,
           Unprepared \ {gpu.id} \subseteq Unprepared', Completable \ {gpu.id} \subseteq Completable',
           gpu'.pc = "prepare" => gpu'.id \in Unprepared',
           gpu'.pc \in {"look", "record", "drop"} => gpu'.id \in Prepared',
           gpu'.pc = "flush" => gpu'.id \in Completable'
    PROVE  Promised'
  <1>1. UNCHANGED <<Submitting, ToPrepare>>
    BY DEF Submitting, ToPrepare
  <1>2. /\ \A g \in Submitting : guest[g].id \in Unprepared \ {gpu.id}
        /\ \A i \in ToPrepare : work[i].id \in Unprepared \ {gpu.id}
        /\ \A id \in Range(eop) : id \in Completable \ {gpu.id}
    BY DEF Promised, NumbersOnce
  <1> QED
    BY <1>1, <1>2 DEF Promised

\* Where the request is that the GPU thread prepares.
LEMMA Found ==
    ASSUME FlipTypes, RequestsOnce, NEW q \in AllRequests
    PROVE  /\ q \in Range(requests) => At(requests, q.id) \in DOMAIN requests /\ At(requests, q.id) # 0
                                       /\ requests[At(requests, q.id)] = q
           /\ q \in Range(cpu) => /\ At(requests, q.id) = 0
                                  /\ At(cpu, q.id) \in DOMAIN cpu /\ At(cpu, q.id) # 0
                                  /\ cpu[At(cpu, q.id)] = q
           /\ q \in Range(cancelled) =>
                  /\ At(requests, q.id) = 0 /\ At(cpu, q.id) = 0
                  /\ At(cancelled, q.id) \in DOMAIN cancelled /\ At(cancelled, q.id) # 0
                  /\ cancelled[At(cancelled, q.id)] = q
           /\ q \in Request
  <1>1. /\ RequestList(requests) /\ RequestList(cpu) /\ RequestList(cancelled) /\ q \in Request
    BY ListsAre
  <1>2. /\ q \in Range(cpu) => \A x \in Range(requests) : x.id # q.id
        /\ q \in Range(cancelled) => \A x \in Range(requests) \cup Range(cpu) : x.id # q.id
    BY DEF RequestsOnce
  <1>3. /\ At(requests, q.id) # 0 => \E x \in Range(requests) : x.id = q.id
        /\ At(cpu, q.id) # 0 => \E x \in Range(cpu) : x.id = q.id
    BY <1>1, AtFinds
  <1> QED
    BY <1>1, <1>2, <1>3, AtFinds

\* What the queue's lists show of the step that exchanges one request.
LEMMA ExchangeKeeps ==
    ASSUME FlipInv, NEW q \in AllRequests, NEW r, r.id = q.id, r.frame = q.frame, r.state = "Recording",
           Exchanged(q, r), RequestList(requests)', RequestList(cpu)', RequestList(cancelled)',
           \/ r \in Range(requests') /\ r \notin Range(cancelled')
           \/ r \notin Range(requests') /\ r \in Range(cancelled'),
           r \notin Range(cpu'), UNCHANGED <<nextId, free, last, present>>,
           Processing => requests' # <<>> /\ requests'[1] = requests[1]
    PROVE  /\ RequestsOnce' /\ StatesRight' /\ FramesOnce' /\ FrontKept'
           /\ Unprepared \ {q.id} \subseteq Unprepared' /\ Completable \ {q.id} \subseteq Completable'
  <1>1. FlipTypes /\ RequestsOnce /\ StatesRight /\ FramesOnce /\ FrontKept
    BY DEF FlipInv, QueueInv
  <1>2. RequestsOnce'
    BY <1>1, OnceExchanged
  <1>3. StatesRight'
    BY <1>1, StatesExchanged
  <1>4. FrontKept'
    BY <1>1, FrontStays
  <1>5. AllRequests' = (AllRequests \ {q}) \cup {r}
    BY DEF Exchanged, Around, AllRequests
  <1>6. FramesOnce'
    BY <1>1, <1>5, FramesExchanged
  <1>7. Unprepared \ {q.id} \subseteq Unprepared' /\ Completable \ {q.id} \subseteq Completable'
    BY <1>1, PromisesExchanged
  <1> QED
    BY <1>2, <1>3, <1>4, <1>6, <1>7

\* FlipQueue::Prepare takes a frame for its request.
LEMMA PrepareKeeps ==
    ASSUME FlipInv, Prepare
    PROVE  FlipInv'
  <1>0. /\ UNCHANGED <<nextId, free, last, guest, work, eop, present, left, port, registered>>
        /\ FlipTypes /\ gpu.pc = "prepare" /\ RequestsOnce /\ StatesRight /\ FrontKept /\ NumbersOnce
        /\ Promised /\ InHand
    BY DEF Prepare, FlipInv, QueueInv, poolVars, portVars, eventLists, InHand
  <1>1. PICK q \in AllRequests : q.id = gpu.id /\ q.state = "Reserved"
    BY <1>0 DEF Promised, Unprepared
  <1> DEFINE id == gpu.id
             k == At(requests, id)
             c == At(cpu, id)
             x == At(cancelled, id)
             found == IF k # 0 THEN requests[k] ELSE IF c # 0 THEN cpu[c]
                 ELSE IF x # 0 THEN cancelled[x] ELSE [state |-> "missing"]
             r == Recording(q)
  <1>2. /\ q \in Range(requests) => k \in DOMAIN requests /\ k # 0 /\ requests[k] = q
        /\ q \in Range(cpu) => k = 0 /\ c \in DOMAIN cpu /\ c # 0 /\ cpu[c] = q
        /\ q \in Range(cancelled) =>
               k = 0 /\ c = 0 /\ x \in DOMAIN cancelled /\ x # 0 /\ cancelled[x] = q
        /\ q \in Request
    BY <1>0, <1>1, Found
  <1>3. /\ r \in Request /\ r.id = q.id /\ r.frame = q.frame /\ r.state = "Recording" /\ r # q
        /\ q.frame = NoFrame
    BY <1>0, <1>1, <1>2 DEF Recording, Request, FlipStates, StatesRight
  <1>4. found = q /\ (k # 0 \/ c # 0 \/ x # 0)
    BY <1>1, <1>2 DEF AllRequests
  <1>5. /\ exit' = exit
        /\ requests' = IF k # 0 THEN [requests EXCEPT ![k] = Recording(requests[k])]
                       ELSE IF c # 0 THEN Append(requests, Recording(cpu[c])) ELSE requests
        /\ cpu' = IF k = 0 /\ c # 0 THEN RemoveAt(cpu, c) ELSE cpu
        /\ cancelled' = IF k = 0 /\ c = 0 /\ x # 0
                        THEN [cancelled EXCEPT ![x] = Recording(cancelled[x])] ELSE cancelled
        /\ gpu' = IF k = 0 /\ c = 0 THEN [gpu EXCEPT !.pc = "flush"]
                  ELSE [pc |-> "look", id |-> id, source |-> gpu.source, request |-> q]
    <2>1. found.state = "Reserved"
      BY <1>1, <1>4
    <2> HIDE DEF found, k, c, x, id
    <2>2. Prepare
      OBVIOUS
    <2> USE DEF found, k, c, x, id
    <2> QED
      BY <1>4, <2>1 DEF Prepare
  <1> HIDE DEF found, k, c, x, r
  <1>6. RequestList(requests) /\ RequestList(cpu) /\ RequestList(cancelled)
    BY <1>0, ListsAre
  <1>7. q \in Range(requests) \/ q \in Range(cpu) \/ q \in Range(cancelled)
    BY DEF AllRequests
  <1>8. \A y \in AllRequests \ {q} : y.id # q.id
    BY <1>0, OneOfId
  <1>9. r \notin AllRequests
    BY <1>3, <1>8
  <1>10. Processing => requests # <<>> /\ requests[1].state # "Reserved"
    BY <1>0, FrontRequest
  <1>11. gpu \in [pc : {"prepare", "flush"}, id : Nat, source : {"Cpu", "GpuEop"}]
    BY <1>0 DEF FlipTypes, GpuType, Idle, Packet
  <1>12. /\ Exchanged(q, r) /\ RequestList(requests') /\ RequestList(cpu') /\ RequestList(cancelled')
         /\ \/ r \in Range(requests') /\ r \notin Range(cancelled')
            \/ r \notin Range(requests') /\ r \in Range(cancelled')
         /\ r \notin Range(cpu')
         /\ Processing => requests' # <<>> /\ requests'[1] = requests[1]
         /\ gpu'.id = gpu.id /\ gpu' \in GpuType
         /\ \/ gpu'.pc = "look" /\ r \in Range(requests')
            \/ gpu'.pc = "flush" /\ r \in Range(cancelled')
         /\ \A y \in Range(requests') \cup Range(cpu') :
               \/ y = r /\ q \in Range(requests) \cup Range(cpu)
               \/ y \in Range(requests) \cup Range(cpu)
    <2>1. CASE q \in Range(requests)
      <3>1. /\ requests' = [requests EXCEPT ![k] = r] /\ cpu' = cpu /\ cancelled' = cancelled
            /\ gpu' = [pc |-> "look", id |-> gpu.id, source |-> gpu.source, request |-> q]
            /\ k \in DOMAIN requests /\ requests[k] = q /\ r.id = requests[k].id
        BY <1>2, <1>3, <1>5, <2>1 DEF r
      <3>2. /\ RequestList(requests') /\ Range(requests') = (Range(requests) \ {q}) \cup {r}
            /\ requests' # <<>> /\ requests'[1] = IF k = 1 THEN r ELSE requests[1]
        <4>1. PICK i \in DOMAIN requests : i = k
          BY <3>1
        <4>2. PICK y : y = r
          OBVIOUS
        <4>3. y \in Request /\ Replaced(requests, requests', i, y) /\ y.id = requests[i].id /\ requests[i] = q
          BY <1>3, <3>1, <4>1, <4>2 DEF Replaced
        <4>4. /\ RequestList(requests') /\ Range(requests') = (Range(requests) \ {requests[i]}) \cup {y}
              /\ requests' # <<>> /\ requests'[1] = IF i = 1 THEN y ELSE requests[1]
          BY <1>6, <4>3, RequestReplaced
        <4> QED
          BY <4>1, <4>2, <4>3, <4>4
      <3>3. q \notin Range(cpu) /\ q \notin Range(cancelled)
        BY <1>0, <2>1 DEF RequestsOnce
      <3>4. Exchanged(q, r)
        BY <3>1, <3>2, <3>3 DEF Exchanged, Around
      <3>5. gpu'.id = gpu.id /\ gpu'.pc = "look" /\ gpu' \in GpuType
        BY <1>2, <1>11, <3>1 DEF GpuType
      <3>6. Processing => k # 1
        BY <1>1, <1>10, <3>1
      <3> QED
        BY <1>6, <1>9, <2>1, <3>1, <3>2, <3>4, <3>5, <3>6 DEF AllRequests
    <2>2. CASE q \in Range(cpu)
      <3>1. /\ requests' = Append(requests, r) /\ cpu' = RemoveAt(cpu, c) /\ cancelled' = cancelled
            /\ gpu' = [pc |-> "look", id |-> gpu.id, source |-> gpu.source, request |-> q]
            /\ c \in DOMAIN cpu /\ cpu[c] = q
        BY <1>2, <1>5, <2>2 DEF r
      <3>2. q \notin Range(requests) /\ q \notin Range(cancelled)
        BY <1>0, <2>2 DEF RequestsOnce
      <3>3. \A y \in Range(requests) : y.id # r.id
        BY <1>3, <1>8, <3>2 DEF AllRequests
      <3>4. /\ RequestList(requests') /\ Range(requests') = Range(requests) \cup {r}
            /\ requests # <<>> => requests' # <<>> /\ requests'[1] = requests[1]
        BY <1>3, <1>6, <3>1, <3>3, RequestAppended
      <3>5. RequestList(cpu') /\ Range(cpu') = Range(cpu) \ {q}
        BY <1>6, <3>1, RequestRemoved
      <3>6. Exchanged(q, r)
        BY <3>1, <3>2, <3>4, <3>5 DEF Exchanged, Around
      <3>7. gpu'.id = gpu.id /\ gpu'.pc = "look" /\ gpu' \in GpuType
        BY <1>2, <1>11, <3>1 DEF GpuType
      <3> QED
        BY <1>6, <1>9, <1>10, <2>2, <3>1, <3>4, <3>5, <3>6, <3>7 DEF AllRequests
    <2>3. CASE q \in Range(cancelled)
      <3>1. /\ requests' = requests /\ cpu' = cpu /\ cancelled' = [cancelled EXCEPT ![x] = r]
            /\ gpu' = [gpu EXCEPT !.pc = "flush"]
            /\ x \in DOMAIN cancelled /\ cancelled[x] = q /\ r.id = cancelled[x].id
        BY <1>2, <1>3, <1>5, <2>3 DEF r
      <3>2. RequestList(cancelled') /\ Range(cancelled') = (Range(cancelled) \ {q}) \cup {r}
        <4>1. PICK i \in DOMAIN cancelled : i = x
          BY <3>1
        <4>2. PICK y : y = r
          OBVIOUS
        <4>3. y \in Request /\ Replaced(cancelled, cancelled', i, y) /\ y.id = cancelled[i].id /\ cancelled[i] = q
          BY <1>3, <3>1, <4>1, <4>2 DEF Replaced
        <4>4. /\ RequestList(cancelled')
              /\ Range(cancelled') = (Range(cancelled) \ {cancelled[i]}) \cup {y}
          BY <1>6, <4>3, RequestReplaced
        <4> QED
          BY <4>1, <4>2, <4>3, <4>4
      <3>3. q \notin Range(requests) /\ q \notin Range(cpu)
        BY <1>0, <2>3 DEF RequestsOnce
      <3>4. Exchanged(q, r)
        BY <3>1, <3>2, <3>3 DEF Exchanged, Around
      <3>5. gpu'.id = gpu.id /\ gpu'.pc = "flush" /\ gpu' \in GpuType
        BY <1>11, <3>1 DEF GpuType
      <3> QED
        BY <1>6, <1>9, <1>10, <2>3, <3>1, <3>2, <3>4, <3>5 DEF AllRequests
    <2> QED
      BY <1>7, <2>1, <2>2, <2>3
  <1>13. /\ RequestsOnce' /\ StatesRight' /\ FramesOnce' /\ FrontKept'
         /\ Unprepared \ {q.id} \subseteq Unprepared' /\ Completable \ {q.id} \subseteq Completable'
    BY <1>0, <1>3, <1>12, ExchangeKeeps
  <1>14. NumbersOnce'
    BY <1>0, <1>12, NumbersStay
  <1>15. Promised'
    <2>1. gpu'.pc = "look" => gpu'.id \in Prepared'
      BY <1>1, <1>3, <1>12 DEF Prepared
    <2>2. gpu'.pc = "flush" => gpu'.id \in Completable'
      BY <1>1, <1>3, <1>12 DEF Completable
    <2>3. gpu'.pc \in {"look", "flush"}
      BY <1>12
    <2> QED
      BY <1>0, <1>1, <1>13, <2>1, <2>2, <2>3, PromisesOfGpu
  <1>16. PortInv'
    <2>1. \A y \in Range(requests') \cup Range(cpu') : \E z \in Range(requests) \cup Range(cpu) :
              z.port = y.port /\ z.generation = y.generation
      <3>1. r.port = q.port /\ r.generation = q.generation
        BY <1>2 DEF r, Recording, Request
      <3> QED
        BY <1>12, <3>1
    <2> QED
      BY <1>0, <1>5, <2>1, PortsUntouched DEF FlipInv
  <1>17. FlipTypes'
    BY <1>0, <1>12 DEF FlipTypes, RequestList
  <1> QED
    BY <1>13, <1>14, <1>15, <1>16, <1>17 DEF FlipInv, QueueInv

\* The preparation gives its request up when the port was closed.
LEMMA PrepareDropsKeeps ==
    ASSUME FlipInv, PrepareDrops
    PROVE  FlipInv'
  <1> DEFINE k == At(requests, gpu.id)
  <1>0. /\ UNCHANGED <<cpu, nextId, free, last, guest, work, eop, present, left, port, registered, exit>>
        /\ FlipTypes /\ gpu.pc = "drop" /\ RequestsOnce /\ StatesRight /\ FrontKept /\ NumbersOnce
        /\ Promised /\ InHand /\ gpu' = [gpu EXCEPT !.pc = "flush"]
        /\ requests' = IF k # 0 THEN RemoveAt(requests, k) ELSE requests
        /\ cancelled' = IF k # 0 THEN Append(cancelled, requests[k]) ELSE cancelled
    BY DEF PrepareDrops, FlipInv, QueueInv, poolVars, portVars, eventLists, InHand
  <1>1. PICK q \in Range(requests) \cup Range(cancelled) :
            q.id = gpu.id /\ q.state = "Recording" /\ q.frame = NoFrame
    BY <1>0 DEF Promised, Prepared
  <1>2. /\ q \in AllRequests /\ q \in Request
        /\ q \in Range(requests) => k \in DOMAIN requests /\ k # 0 /\ requests[k] = q
        /\ q \in Range(cancelled) => k = 0
    BY <1>0, <1>1, Found DEF AllRequests
  <1> HIDE DEF k
  <1>3. RequestList(requests) /\ RequestList(cpu) /\ RequestList(cancelled)
    BY <1>0, ListsAre
  <1>4. \A y \in AllRequests \ {q} : y.id # q.id
    BY <1>0, <1>2, OneOfId
  <1>5. gpu \in [pc : {"look", "record", "drop", "flush"}, id : Nat, source : {"Cpu", "GpuEop"},
                 request : Request]
    BY <1>0 DEF FlipTypes, GpuType, Idle, Packet
  <1>6. gpu'.id = gpu.id /\ gpu'.pc = "flush" /\ gpu' \in GpuType
    BY <1>0, <1>5 DEF GpuType
  <1>7. Processing => requests # <<>> /\ requests[1].state # "Recording"
    BY <1>0, FrontRequest
  <1>8. /\ Exchanged(q, q) /\ RequestList(requests') /\ RequestList(cancelled')
        /\ q \notin Range(requests') /\ q \in Range(cancelled') /\ q \notin Range(cpu')
        /\ Processing => requests' # <<>> /\ requests'[1] = requests[1]
        /\ Range(requests') \subseteq Range(requests)
    <2>1. CASE q \in Range(requests)
      <3>1. /\ requests' = RemoveAt(requests, k) /\ cancelled' = Append(cancelled, q)
            /\ k \in DOMAIN requests /\ requests[k] = q
        BY <1>0, <1>2, <2>1
      <3>2. q \notin Range(cpu) /\ q \notin Range(cancelled)
        BY <1>0, <2>1 DEF RequestsOnce
      <3>3. \A y \in Range(cancelled) : y.id # q.id
        BY <1>4, <3>2 DEF AllRequests
      <3>4. RequestList(cancelled') /\ Range(cancelled') = Range(cancelled) \cup {q}
        BY <1>2, <1>3, <3>1, <3>3, RequestAppended
      <3>5. /\ RequestList(requests') /\ Range(requests') = Range(requests) \ {q}
            /\ k # 1 => requests' # <<>> /\ requests'[1] = requests[1]
        BY <1>3, <3>1, RequestRemoved
      <3>6. Processing => k # 1
        BY <1>1, <1>7, <3>1
      <3> QED
        BY <1>0, <3>2, <3>4, <3>5, <3>6 DEF Exchanged, Around
    <2>2. CASE q \in Range(cancelled)
      <3>1. requests' = requests /\ cancelled' = cancelled
        BY <1>0, <1>2, <2>2
      <3>2. q \notin Range(cpu) /\ q \notin Range(requests)
        BY <1>0, <2>2 DEF RequestsOnce
      <3> QED
        BY <1>0, <1>3, <1>7, <2>2, <3>1, <3>2 DEF Exchanged, Around
    <2> QED
      BY <1>1, <2>1, <2>2
  <1>9. RequestList(cpu')
    BY <1>0, <1>3
  <1>13. /\ RequestsOnce' /\ StatesRight' /\ FramesOnce' /\ FrontKept'
         /\ Unprepared \ {q.id} \subseteq Unprepared' /\ Completable \ {q.id} \subseteq Completable'
    BY <1>0, <1>1, <1>2, <1>8, <1>9, ExchangeKeeps
  <1>14. NumbersOnce'
    BY <1>0, <1>6, NumbersStay
  <1>15. Promised'
    <2>1. gpu'.id \in Completable'
      BY <1>1, <1>6, <1>8 DEF Completable
    <2> QED
      BY <1>0, <1>1, <1>6, <1>13, <2>1, PromisesOfGpu
  <1>16. PortInv'
    BY <1>0, <1>8, PortsUntouched DEF FlipInv
  <1>17. FlipTypes'
    BY <1>0, <1>6, <1>8 DEF FlipTypes, RequestList
  <1> QED
    BY <1>13, <1>14, <1>15, <1>16, <1>17 DEF FlipInv, QueueInv

\* One request of the queue, or of the cancelled ones, is replaced.
LEMMA QueuedReplaced ==
    ASSUME FlipTypes, RequestsOnce, NEW q \in Range(requests), NEW r \in Request, r.id = q.id,
           Replaced(requests, requests', At(requests, q.id), r), UNCHANGED <<cpu, cancelled>>
    PROVE  /\ Exchanged(q, r) /\ RequestList(requests)' /\ RequestList(cpu)' /\ RequestList(cancelled)'
           /\ Range(requests') = (Range(requests) \ {q}) \cup {r}
           /\ r \in Range(requests') /\ r \notin Range(cpu') /\ r \notin Range(cancelled')
           /\ requests' # <<>> /\ requests'[1] = IF requests[1] = q THEN r ELSE requests[1]
  <1>0. RequestList(requests) /\ RequestList(cpu) /\ RequestList(cancelled) /\ q \in AllRequests
    BY ListsAre
  <1>1. PICK k \in DOMAIN requests : k = At(requests, q.id) /\ requests[k] = q
    BY <1>0, Found
  <1>2. Replaced(requests, requests', k, r) /\ r.id = requests[k].id
    BY <1>1
  <1>3. /\ RequestList(requests') /\ Range(requests') = (Range(requests) \ {requests[k]}) \cup {r}
        /\ requests # <<>> /\ requests' # <<>> /\ requests'[1] = IF k = 1 THEN r ELSE requests[1]
    BY <1>0, <1>2, RequestReplaced
  <1>4. \A x \in Range(cpu) \cup Range(cancelled) : x.id # q.id
    BY DEF RequestsOnce
  <1>5. k = 1 <=> requests[1] = q
    <2>1. 1 \in DOMAIN requests
      BY <1>0, <1>3, EmptySeq, LenProperties DEF RequestList
    <2> QED
      BY <1>1, <2>1 DEF RequestsOnce, IdsOnce
  <1>6. requests'[1] = IF requests[1] = q THEN r ELSE requests[1]
    BY <1>3, <1>5
  <1>7. Exchanged(q, r)
    BY <1>1, <1>3, <1>4 DEF Exchanged, Around
  <1>8. RequestList(cpu)' /\ RequestList(cancelled)'
    BY <1>0 DEF RequestList, IdsOnce
  <1> QED
    BY <1>1, <1>3, <1>4, <1>6, <1>7, <1>8

\* A cancelled request is recorded too, to be given back when it completes.
LEMMA CancelledReplaced ==
    ASSUME FlipTypes, RequestsOnce, NEW q \in Range(cancelled), NEW r \in Request, r.id = q.id,
           Replaced(cancelled, cancelled', At(cancelled, q.id), r), UNCHANGED <<cpu, requests>>
    PROVE  /\ Exchanged(q, r) /\ RequestList(requests)' /\ RequestList(cpu)' /\ RequestList(cancelled)'
           /\ r \in Range(cancelled') /\ r \notin Range(cpu') /\ r \notin Range(requests')
  <1>0. RequestList(requests) /\ RequestList(cpu) /\ RequestList(cancelled) /\ q \in AllRequests
    BY ListsAre
  <1>1. PICK k \in DOMAIN cancelled : k = At(cancelled, q.id) /\ cancelled[k] = q
    BY <1>0, Found
  <1>2. Replaced(cancelled, cancelled', k, r) /\ r.id = cancelled[k].id
    BY <1>1
  <1>3. RequestList(cancelled') /\ Range(cancelled') = (Range(cancelled) \ {cancelled[k]}) \cup {r}
    BY <1>0, <1>2, RequestReplaced
  <1>4. \A x \in Range(cpu) \cup Range(requests) : x.id # q.id
    BY DEF RequestsOnce
  <1>7. Exchanged(q, r)
    BY <1>1, <1>3, <1>4 DEF Exchanged, Around
  <1>8. RequestList(cpu)' /\ RequestList(requests)'
    BY <1>0 DEF RequestList, IdsOnce
  <1> QED
    BY <1>1, <1>3, <1>4, <1>7, <1>8

\* A frame leaves the pool for a request.
LEMMA FrameTaken ==
    ASSUME FlipTypes, FramesOnce, free # <<>>, NEW q \in AllRequests, NEW r, q.frame = NoFrame,
           NEW f, f = Head(free), r.frame = f, AllRequests' = (AllRequests \ {q}) \cup {r},
           free' = Tail(free), last' = IF last = f THEN NoFrame ELSE last
    PROVE  FramesOnce' /\ free' \in Seq(Frames) /\ last' \in Frames \cup {NoFrame} /\ f \in Frames
  <1>1. free \in Seq(Frames) /\ IsInjective(free)
    BY DEF FlipTypes, FramesOnce
  <1>2. /\ f \in Range(free) /\ f \in Frames /\ free' \in Seq(Frames) /\ IsInjective(free')
        /\ Range(free') = Range(free) \ {f}
    <2>1. /\ Head(free) \in ToSet(free) /\ ToSet(Tail(free)) = ToSet(free) \ {Head(free)}
          /\ Tail(free) \in Seq(Frames) /\ IsInjective(Tail(free)) /\ Head(free) \in Frames
      BY <1>1, Popped, HeadTailProperties
    <2> QED
      BY <2>1 DEF Range, ToSet
  <1>3. \A x, y \in AllRequests' : x.frame # NoFrame /\ x.frame = y.frame => x = y
    BY <1>2 DEF FramesOnce
  <1>4. \A x \in AllRequests' : x.frame \notin Range(free')
    BY <1>2 DEF FramesOnce
  <1>5. \A x \in Frames : x \in Range(free') \/ \E y \in AllRequests' : y.frame = x
    <2> SUFFICES ASSUME NEW x \in Frames, x \notin Range(free')
                 PROVE  \E y \in AllRequests' : y.frame = x
      OBVIOUS
    <2>1. CASE x = f
      BY <2>1
    <2>2. CASE x # f
      <3>1. PICK y \in AllRequests : y.frame = x
        BY <1>2, <2>2 DEF FramesOnce
      <3>2. y # q
        BY <3>1, VideoOutAssumption
      <3> QED
        BY <3>1, <3>2
    <2> QED
      BY <2>1, <2>2
  <1>6. last' # NoFrame => last' \in Range(free')
    BY <1>2 DEF FramesOnce
  <1>7. last' \in Frames \cup {NoFrame}
    BY DEF FlipTypes
  <1> QED
    BY <1>2, <1>3, <1>4, <1>5, <1>6, <1>7 DEF FramesOnce

\* The frame is recorded, for a request that may have been cancelled meanwhile.
LEMMA PrepareRecordsKeeps ==
    ASSUME FlipInv, PrepareRecords
    PROVE  FlipInv'
  <1> DEFINE k == At(requests, gpu.id)
             x == At(cancelled, gpu.id)
             f == Head(free)
  <1>0. /\ UNCHANGED <<cpu, nextId, guest, work, eop, present, left, port, registered>>
        /\ FlipTypes /\ gpu.pc = "record" /\ RequestsOnce /\ StatesRight /\ FrontKept /\ NumbersOnce
        /\ Promised /\ InHand /\ FramesOnce /\ gpu' = [gpu EXCEPT !.pc = "flush"]
        /\ free # <<>> /\ free' = Tail(free) /\ last' = IF last = f THEN NoFrame ELSE last
    BY DEF PrepareRecords, FlipInv, QueueInv, portVars, eventLists, InHand
  <1>1. PICK q \in Range(requests) \cup Range(cancelled) :
            q.id = gpu.id /\ q.state = "Recording" /\ q.frame = NoFrame
    BY <1>0 DEF Promised, Prepared
  <1>2. /\ q \in AllRequests /\ q \in Request
        /\ q \in Range(requests) => k \in DOMAIN requests /\ k # 0 /\ requests[k] = q
        /\ q \in Range(cancelled) => k = 0 /\ x \in DOMAIN cancelled /\ x # 0 /\ cancelled[x] = q
    BY <1>0, <1>1, Found DEF AllRequests
  <1>f. f \in Frames /\ f # NoFrame
    BY <1>0, HeadTailProperties, VideoOutAssumption DEF FlipTypes
  <1>3. PICK r \in Request : /\ r = [q EXCEPT !.frame = f] /\ r.id = q.id /\ r.frame = f
                             /\ r.state = "Recording" /\ r.port = q.port /\ r.generation = q.generation
    <2>1. [q EXCEPT !.frame = f] \in Request
      BY <1>2, <1>f DEF Request
    <2> QED
      BY <1>1, <1>2, <2>1 DEF Request
  <1>4. /\ exit' = exit
        /\ requests' = IF k # 0 THEN [requests EXCEPT ![k] = [requests[k] EXCEPT !.frame = f]] ELSE requests
        /\ cancelled' = IF k = 0 /\ x # 0 THEN [cancelled EXCEPT ![x] = [cancelled[x] EXCEPT !.frame = f]]
                        ELSE cancelled
    <2>1. (IF k # 0 THEN requests[k] ELSE IF x # 0 THEN cancelled[x]
                   ELSE [state |-> "missing", frame |-> NoFrame]) = q
      BY <1>1, <1>2
    <2> QED
      BY <1>1, <2>1 DEF PrepareRecords
  <1>5. gpu \in [pc : {"look", "record", "drop", "flush"}, id : Nat, source : {"Cpu", "GpuEop"},
                 request : Request]
    BY <1>0 DEF FlipTypes, GpuType, Idle, Packet
  <1>6. gpu'.id = gpu.id /\ gpu'.pc = "flush" /\ gpu' \in GpuType
    BY <1>0, <1>5 DEF GpuType
  <1>7. Processing => requests # <<>> /\ requests[1].state # "Recording"
    BY <1>0, FrontRequest
  <1> HIDE DEF f
  <1>8. /\ Exchanged(q, r) /\ RequestList(requests)' /\ RequestList(cpu)' /\ RequestList(cancelled)'
        /\ \/ r \in Range(requests') /\ r \notin Range(cancelled')
           \/ r \in Range(cancelled') /\ r \notin Range(requests')
        /\ r \notin Range(cpu')
        /\ Processing => requests' # <<>> /\ requests'[1] = requests[1]
        /\ \A y \in Range(requests') \cup Range(cpu') :
               (y = r /\ q \in Range(requests)) \/ y \in Range(requests) \cup Range(cpu)
    <2>1. CASE q \in Range(requests)
      <3>1. cancelled' = cancelled /\ Replaced(requests, requests', k, r)
        BY <1>2, <1>3, <1>4, <2>1 DEF Replaced
      <3>2. /\ Exchanged(q, r) /\ RequestList(requests)' /\ RequestList(cpu)' /\ RequestList(cancelled)'
            /\ r \in Range(requests') /\ r \notin Range(cpu') /\ r \notin Range(cancelled')
            /\ Range(requests') = (Range(requests) \ {q}) \cup {r}
            /\ requests' # <<>> /\ requests'[1] = IF requests[1] = q THEN r ELSE requests[1]
        <4>1. Replaced(requests, requests', At(requests, q.id), r)
          BY <1>1, <3>1
        <4>2. FlipTypes /\ RequestsOnce /\ UNCHANGED <<cpu, cancelled>> /\ r.id = q.id
          BY <1>0, <1>3, <3>1
        <4> QED
          BY <2>1, <4>1, <4>2, QueuedReplaced
      <3> QED
        BY <1>0, <1>1, <1>7, <2>1, <3>2
    <2>2. CASE q \in Range(cancelled)
      <3>1. requests' = requests /\ Replaced(cancelled, cancelled', x, r)
        BY <1>2, <1>3, <1>4, <2>2 DEF Replaced
      <3>2. /\ Exchanged(q, r) /\ RequestList(requests)' /\ RequestList(cpu)' /\ RequestList(cancelled)'
            /\ r \in Range(cancelled') /\ r \notin Range(cpu') /\ r \notin Range(requests')
        <4>1. Replaced(cancelled, cancelled', At(cancelled, q.id), r)
          BY <1>1, <3>1
        <4> QED
          BY <1>0, <1>3, <2>2, <3>1, <4>1, CancelledReplaced
      <3> QED
        BY <1>0, <1>7, <3>1, <3>2
    <2> QED
      BY <1>1, <2>1, <2>2
  <1>9. AllRequests' = (AllRequests \ {q}) \cup {r}
    BY <1>8 DEF Exchanged, Around, AllRequests
  <1>10. FramesOnce' /\ free' \in Seq(Frames) /\ last' \in Frames \cup {NoFrame}
    BY <1>0, <1>1, <1>2, <1>3, <1>9, FrameTaken DEF f
  <1>11. RequestsOnce'
    BY <1>0, <1>2, <1>3, <1>8, OnceExchanged
  <1>12. StatesRight'
    BY <1>0, <1>2, <1>3, <1>8, StatesExchanged
  <1>13. FrontKept'
    BY <1>0, <1>8, FrontStays
  <1>14. NumbersOnce'
    BY <1>0, <1>6, NumbersStay
  <1>15. Promised'
    <2>1. gpu'.id \in Completable'
      BY <1>1, <1>3, <1>6, <1>8, <1>f DEF Completable
    <2>2. Unprepared \ {gpu.id} \subseteq Unprepared' /\ Completable \ {gpu.id} \subseteq Completable'
      BY <1>0, <1>1, <1>2, <1>8, PromisesExchanged
    <2> QED
      BY <1>0, <1>6, <2>1, <2>2, PromisesOfGpu
  <1>16. PortInv'
    BY <1>0, <1>3, <1>4, <1>8, PortsUntouched DEF FlipInv
  <1>17. FlipTypes'
    BY <1>0, <1>6, <1>8, <1>10 DEF FlipTypes, RequestList
  <1> QED
    BY <1>10, <1>11, <1>12, <1>13, <1>14, <1>15, <1>16, <1>17 DEF FlipInv, QueueInv

-----------------------------------------------------------------------------
(* Completing *)

\* The frame of a request that is gone goes back to the pool.
LEMMA FrameReturned ==
    ASSUME FlipTypes, FramesOnce, NEW q \in AllRequests, q \in Request, AllRequests' = AllRequests \ {q},
           free' = IF q.frame # NoFrame THEN Append(free, q.frame) ELSE free,
           last' = last \/ last' = q.frame
    PROVE  FramesOnce' /\ free' \in Seq(Frames) /\ last' \in Frames \cup {NoFrame}
  <1>1. /\ free' \in Seq(Frames) /\ IsInjective(free')
        /\ Range(free') = IF q.frame # NoFrame THEN Range(free) \cup {q.frame} ELSE Range(free)
    <2>1. CASE q.frame = NoFrame
      BY <2>1 DEF FlipTypes, FramesOnce
    <2>2. CASE q.frame # NoFrame
      <3>1. q.frame \in Frames \ ToSet(free)
        BY <2>2 DEF FramesOnce, Request, Range, ToSet
      <3>2. /\ Append(free, q.frame) \in Seq(Frames) /\ IsInjective(Append(free, q.frame))
            /\ ToSet(Append(free, q.frame)) = ToSet(free) \cup {q.frame}
        BY <3>1, Appended DEF FlipTypes, FramesOnce
      <3> QED
        BY <2>2, <3>2 DEF Range, ToSet
    <2> QED
      BY <2>1, <2>2
  <1>2. \A x, y \in AllRequests' : x.frame # NoFrame /\ x.frame = y.frame => x = y
    BY DEF FramesOnce
  <1>3. \A x \in AllRequests' : x.frame \notin Range(free')
    <2>1. NoFrame \notin Range(free')
      <3>1. \A i \in DOMAIN free' : free'[i] \in Frames
        BY <1>1, ItemOf
      <3> QED
        BY <3>1, VideoOutAssumption DEF Range
    <2> QED
      BY <1>1, <2>1 DEF FramesOnce
  <1>4. \A x \in Frames : x \in Range(free') \/ \E y \in AllRequests' : y.frame = x
    <2> SUFFICES ASSUME NEW x \in Frames, x \notin Range(free')
                 PROVE  \E y \in AllRequests' : y.frame = x
      OBVIOUS
    <2>1. x \notin Range(free)
      BY <1>1
    <2>2. PICK y \in AllRequests : y.frame = x
      BY <2>1 DEF FramesOnce
    <2>3. y # q
      BY <1>1, <2>2, VideoOutAssumption
    <2> QED
      BY <2>2, <2>3
  <1>5. last' # NoFrame => last' \in Range(free')
    BY <1>1 DEF FramesOnce
  <1>6. last' \in Frames \cup {NoFrame}
    BY DEF FlipTypes, Request
  <1> QED
    BY <1>1, <1>2, <1>3, <1>4, <1>5, <1>6 DEF FramesOnce

\* FlipQueue::Complete: a request is ready, or its frame is given back.
LEMMA CompleteKeeps ==
    ASSUME FlipInv, NEW id \in Completable, Complete(id),
           UNCHANGED <<port, registered, cpu, nextId, last, present>>,
           \A g \in Guests : guest'[g] = guest[g]
    PROVE  /\ RequestsOnce' /\ StatesRight' /\ FrontKept' /\ FramesOnce' /\ PortInv'
           /\ Unprepared \ {id} \subseteq Unprepared' /\ Prepared \ {id} \subseteq Prepared'
           /\ Completable \ {id} \subseteq Completable'
           /\ requests' \in Seq(Request) /\ cancelled' \in Seq(Request) /\ free' \in Seq(Frames)
  <1> DEFINE k == At(requests, id)
             x == At(cancelled, id)
  <1>0. /\ FlipTypes /\ RequestsOnce /\ StatesRight /\ FrontKept /\ FramesOnce /\ PortInv
        /\ RequestList(requests) /\ RequestList(cpu) /\ RequestList(cancelled)
    BY ListsAre DEF FlipInv, QueueInv
  <1>1. PICK q \in Range(requests) \cup Range(cancelled) :
            q.id = id /\ q.state = "Recording" /\ (q \in Range(requests) => q.frame # NoFrame)
    <2>1. PICK q \in {q \in Range(requests) : q.state = "Recording" /\ q.frame # NoFrame}
                     \cup {q \in Range(cancelled) : q.state = "Recording"} : q.id = id
      BY DEF Completable
    <2>2. q \in Range(requests) => q \notin Range(cancelled)
      BY <1>0 DEF RequestsOnce
    <2> QED
      BY <2>1, <2>2
  <1>2. /\ q \in AllRequests /\ q \in Request
        /\ q \in Range(requests) => k \in DOMAIN requests /\ k # 0 /\ requests[k] = q
        /\ q \in Range(cancelled) => k = 0 /\ x \in DOMAIN cancelled /\ x # 0 /\ cancelled[x] = q
    BY <1>0, <1>1, Found DEF AllRequests
  <1>7. Processing => requests # <<>> /\ requests[1].state # "Recording"
    BY <1>0, FrontRequest
  <1>8. CASE q \in Range(requests)
    <2>1. PICK r \in Request : /\ r = [q EXCEPT !.state = "Ready"] /\ r.id = q.id /\ r.frame = q.frame
                               /\ r.state = "Ready" /\ r.port = q.port /\ r.generation = q.generation
      <3>1. [q EXCEPT !.state = "Ready"] \in Request
        BY <1>2 DEF Request, FlipStates
      <3> QED
        BY <1>2, <3>1 DEF Request
    <2>2. UNCHANGED <<cancelled, free, exit>> /\ requests' = [requests EXCEPT ![k] = [requests[k] EXCEPT !.state = "Ready"]]
      BY <1>1, <1>2, <1>8 DEF Complete
    <2> HIDE DEF k
    <2>3. Replaced(requests, requests', k, r)
      BY <1>2, <1>8, <2>1, <2>2 DEF Replaced
    <2>4. Replaced(requests, requests', At(requests, q.id), r)
      BY <1>1, <2>3 DEF k
    <2>4a. FlipTypes /\ RequestsOnce /\ UNCHANGED <<cpu, cancelled>> /\ r.id = q.id
      BY <1>0, <2>1, <2>2
    <2>5. /\ Exchanged(q, r) /\ RequestList(requests)' /\ RequestList(cpu)' /\ RequestList(cancelled)'
          /\ r \in Range(requests') /\ r \notin Range(cpu') /\ r \notin Range(cancelled')
          /\ Range(requests') = (Range(requests) \ {q}) \cup {r}
          /\ requests' # <<>> /\ requests'[1] = IF requests[1] = q THEN r ELSE requests[1]
      BY <1>8, <2>4, <2>4a, QueuedReplaced
    <2>6. AllRequests' = (AllRequests \ {q}) \cup {r}
      BY <2>5 DEF Exchanged, Around, AllRequests
    <2>7. FramesOnce'
      BY <1>0, <1>2, <2>1, <2>2, <2>6, FramesExchanged
    <2>8. RequestsOnce'
      BY <1>0, <1>2, <2>1, <2>5, OnceExchanged
    <2>9. StatesRight'
      BY <1>0, <1>1, <1>2, <1>8, <2>1, <2>5, StatesExchanged
    <2>10. FrontKept'
      <3>1. Processing => requests' # <<>> /\ requests'[1] = requests[1]
        BY <1>1, <1>7, <2>5
      <3> QED
        BY <1>0, <3>1, FrontStays
    <2>11. /\ Unprepared \ {id} \subseteq Unprepared' /\ Prepared \ {id} \subseteq Prepared'
           /\ Completable \ {id} \subseteq Completable'
      BY <1>0, <1>1, <1>2, <2>5, PromisesExchanged
    <2>12. PortInv'
      <3>1. \A y \in Range(requests') \cup Range(cpu') : \E z \in Range(requests) \cup Range(cpu) :
                z.port = y.port /\ z.generation = y.generation
        BY <1>8, <2>1, <2>5
      <3> QED
        BY <1>0, <2>2, <3>1, PortsUntouched
    <2>13. requests' \in Seq(Request) /\ cancelled' \in Seq(Request) /\ free' \in Seq(Frames)
      BY <1>0, <2>2, <2>5 DEF FlipTypes, RequestList
    <2> QED
      BY <2>7, <2>8, <2>9, <2>10, <2>11, <2>12, <2>13
  <1>9. CASE q \in Range(cancelled)
    <2>1. /\ UNCHANGED <<requests, exit>> /\ cancelled' = RemoveAt(cancelled, x)
          /\ free' = IF q.frame # NoFrame THEN Append(free, q.frame) ELSE free
      BY <1>1, <1>2, <1>9 DEF Complete, Returned
    <2>2. PICK i \in DOMAIN cancelled : i = x /\ cancelled[i] = q
      BY <1>2, <1>9
    <2> HIDE DEF k, x
    <2>3. RequestList(cancelled') /\ Range(cancelled') = Range(cancelled) \ {q}
      BY <1>0, <2>1, <2>2, RequestRemoved
    <2>4. q \notin Range(requests) /\ q \notin Range(cpu)
      BY <1>0, <1>9 DEF RequestsOnce
    <2>5. /\ Exchanged(q, q) /\ RequestList(requests)' /\ RequestList(cpu)' /\ RequestList(cancelled)'
          /\ q \notin Range(requests') /\ q \notin Range(cpu') /\ q \notin Range(cancelled')
          /\ AllRequests' = AllRequests \ {q}
      BY <1>0, <2>1, <2>3, <2>4 DEF Exchanged, Around, AllRequests, RequestList, IdsOnce
    <2>7. FramesOnce' /\ free' \in Seq(Frames)
      BY <1>0, <1>2, <2>1, <2>5, FrameReturned
    <2>8. RequestsOnce'
      BY <1>0, <1>2, <2>5, OnceExchanged
    <2>9. StatesRight'
      BY <1>0, <1>1, <1>2, <2>5, StatesExchanged
    <2>10. FrontKept'
      BY <1>0, <1>7, <2>1, FrontStays
    <2>11. /\ Unprepared \ {id} \subseteq Unprepared' /\ Prepared \ {id} \subseteq Prepared'
           /\ Completable \ {id} \subseteq Completable'
      BY <1>0, <1>1, <1>2, <2>5, PromisesExchanged
    <2>12. PortInv'
      BY <1>0, <2>1, PortsUntouched
    <2>13. requests' \in Seq(Request) /\ cancelled' \in Seq(Request)
      BY <2>5 DEF RequestList
    <2> QED
      BY <2>7, <2>8, <2>9, <2>10, <2>11, <2>12, <2>13
  <1> QED
    BY <1>1, <1>8, <1>9

\* A flush hands what was recorded to the end of the pipe.
LEMMA FlushKeeps ==
    ASSUME FlipInv, Flush
    PROVE  FlipInv'
  <1>0. /\ UNCHANGED <<cpu, nextId, last, guest, work, present, left, port, registered>>
        /\ FlipTypes /\ gpu.pc = "flush" /\ NumbersOnce /\ Promised /\ InHand /\ gpu' = Idle
        /\ PortInv /\ gpu.id \in Completable
    BY DEF Flush, FlipInv, QueueInv, portVars, eventLists, InHand, Promised
  <1>1. gpu' \in GpuType /\ gpu'.pc = "idle" /\ gpu.id \in Nat
    BY <1>0 DEF FlipTypes, GpuType, Idle, Packet
  <1>2. CASE gpu.source = "Cpu"
    <2>1. Complete(gpu.id) /\ UNCHANGED eop
      BY <1>2 DEF Flush
    <2>2. PICK id \in Completable : id = gpu.id
      BY <1>0
    <2>3. /\ RequestsOnce' /\ StatesRight' /\ FrontKept' /\ FramesOnce' /\ PortInv'
          /\ Unprepared \ {id} \subseteq Unprepared' /\ Completable \ {id} \subseteq Completable'
          /\ requests' \in Seq(Request) /\ cancelled' \in Seq(Request) /\ free' \in Seq(Frames)
      BY <1>0, <2>1, <2>2, CompleteKeeps
    <2>4. NumbersOnce'
      BY <1>0, <1>1, <2>1, NumbersStay DEF InHand
    <2>5. Promised'
      BY <1>0, <1>1, <2>1, <2>2, <2>3, PromisesOfGpu
    <2>6. FlipTypes'
      BY <1>0, <1>1, <2>1, <2>3 DEF FlipTypes
    <2> QED
      BY <2>3, <2>4, <2>5, <2>6 DEF FlipInv, QueueInv
  <1>3. CASE gpu.source # "Cpu"
    <2>1. eop' = Append(eop, gpu.id) /\ UNCHANGED <<requests, cancelled, free, exit>>
      BY <1>3 DEF Flush
    <2>2. PICK id \in Nat : id = gpu.id
      BY <1>1
    <2>3. eop \in Seq(Nat) /\ IsInjective(eop) /\ id \in Nat \ ToSet(eop)
      BY <1>0, <2>2 DEF FlipTypes, NumbersOnce, Range, ToSet
    <2>4. eop' \in Seq(Nat) /\ IsInjective(eop') /\ Range(eop') = Range(eop) \cup {id}
      <3>1. /\ Append(eop, id) \in Seq(Nat) /\ IsInjective(Append(eop, id))
            /\ ToSet(Append(eop, id)) = ToSet(eop) \cup {id}
        BY <2>3, Appended
      <3> QED
        BY <2>1, <2>2, <3>1 DEF Range, ToSet
    <2>5. UNCHANGED <<Submitting, ToPrepare, Unprepared, Prepared, Completable>> /\ ~InHand'
      BY <1>0, <1>1, <2>1, PromisesStay DEF Submitting, ToPrepare, InHand
    <2>6. NumbersOnce'
      BY <1>0, <2>2, <2>4, <2>5 DEF NumbersOnce
    <2>7. Promised'
      BY <1>0, <1>1, <2>2, <2>4, <2>5 DEF Promised
    <2>8. QueueInv'
      BY <1>0, <2>1, <2>6, <2>7, NumbersMoved DEF FlipInv
    <2>9. PortInv'
      BY <1>0, <2>1, PortsUntouched
    <2>10. FlipTypes'
      BY <1>0, <1>1, <2>1, <2>4 DEF FlipTypes
    <2> QED
      BY <2>8, <2>9, <2>10 DEF FlipInv
  <1> QED
    BY <1>2, <1>3

\* The end of the pipe completes the requests in order.
LEMMA EndOfPipeKeeps ==
    ASSUME FlipInv, EndOfPipe
    PROVE  FlipInv'
  <1>0. /\ UNCHANGED <<cpu, nextId, last, guest, work, gpu, present, left, port, registered>>
        /\ FlipTypes /\ NumbersOnce /\ Promised /\ eop # <<>> /\ eop' = Tail(eop) /\ Complete(Head(eop))
    BY DEF EndOfPipe, FlipInv, QueueInv, portVars, eventLists
  <1>1. PICK id : id = Head(eop)
    OBVIOUS
  <1>2. /\ id \in Range(eop) /\ eop' \in Seq(Nat) /\ IsInjective(eop')
        /\ Range(eop') = Range(eop) \ {id}
    <2>1. /\ Head(eop) \in ToSet(eop) /\ ToSet(Tail(eop)) = ToSet(eop) \ {Head(eop)}
          /\ Tail(eop) \in Seq(Nat) /\ IsInjective(Tail(eop))
      BY <1>0, Popped DEF FlipTypes, NumbersOnce
    <2> QED
      BY <1>0, <1>1, <2>1 DEF Range, ToSet
  <1>3. id \in Completable /\ Complete(id)
    BY <1>0, <1>1, <1>2 DEF Promised
  <1>4. /\ RequestsOnce' /\ StatesRight' /\ FrontKept' /\ FramesOnce' /\ PortInv'
        /\ Unprepared \ {id} \subseteq Unprepared' /\ Prepared \ {id} \subseteq Prepared'
        /\ Completable \ {id} \subseteq Completable'
        /\ requests' \in Seq(Request) /\ cancelled' \in Seq(Request) /\ free' \in Seq(Frames)
    BY <1>0, <1>3, CompleteKeeps
  <1>5. UNCHANGED <<Submitting, ToPrepare, InHand>>
    BY <1>0 DEF Submitting, ToPrepare, InHand
  <1>6. NumbersOnce'
    BY <1>0, <1>2, <1>5 DEF NumbersOnce
  <1>7. Promised'
    <2>1. /\ \A g \in Submitting : guest[g].id \in Unprepared \ {id}
          /\ \A i \in ToPrepare : work[i].id \in Unprepared \ {id}
          /\ InHand => gpu.id # id
      BY <1>0, <1>2 DEF Promised, NumbersOnce
    <2>2. \A i \in Range(eop') : i \in Completable'
      BY <1>0, <1>2, <1>4 DEF Promised
    <2> QED
      BY <1>0, <1>4, <1>5, <2>1, <2>2 DEF Promised, InHand
  <1>8. FlipTypes'
    BY <1>0, <1>2, <1>4 DEF FlipTypes
  <1> QED
    BY <1>4, <1>6, <1>7, <1>8 DEF FlipInv, QueueInv

-----------------------------------------------------------------------------
(* Showing *)

\* A step of the present thread that keeps what the other threads' numbers promise.
LEMMA PromisesGrow ==
    ASSUME QueueInv, UNCHANGED <<guest, work, gpu, eop>>, Unprepared \subseteq Unprepared',
           Prepared \subseteq Prepared', Completable \subseteq Completable'
    PROVE  NumbersOnce' /\ Promised'
  <1>0. UNCHANGED <<ToPrepare, InHand, Submitting>>
    BY DEF ToPrepare, InHand, Submitting
  <1>1. NumbersOnce'
    BY <1>0 DEF QueueInv, NumbersOnce
  <1>2. Promised'
    BY <1>0 DEF QueueInv, Promised
  <1> QED
    BY <1>1, <1>2

\* The present thread takes, shows or gives up a request; the lists stay.
LEMMA PresentMoves ==
    ASSUME QueueInv, UNCHANGED <<requests, cpu, cancelled, nextId, work, gpu, eop, guest>>,
           present.pc # "presenting", StatesRight => FrontKept', FramesOnce => FramesOnce'
    PROVE  QueueInv'
  <1>0. UNCHANGED <<AllRequests, Unprepared, Prepared, Completable>>
    BY PromisesStay DEF AllRequests
  <1>1. RequestsOnce'
    BY <1>0 DEF QueueInv, RequestsOnce, IdsOnce
  <1>2. NumbersOnce' /\ Promised'
    BY <1>0, PromisesGrow
  <1>4. StatesRight'
    BY <1>0 DEF QueueInv, StatesRight
  <1>5. FrontKept' /\ FramesOnce'
    BY DEF QueueInv
  <1> QED
    BY <1>1, <1>2, <1>4, <1>5 DEF QueueInv

\* The present thread finds nothing to show.
LEMMA NothingReadyKeeps ==
    ASSUME FlipInv, NothingReady
    PROVE  FlipInv'
  <1>0. /\ UNCHANGED <<requests, cpu, cancelled, nextId, free, last, work, gpu, eop, guest, port,
                       registered, exit, left>>
        /\ FlipTypes /\ present.pc = "flip" /\ present' = [pc |-> "idle"]
    BY DEF NothingReady, FlipInv, portVars, eventLists, queueVars, poolVars
  <1>1. QueueInv'
    BY <1>0, PresentElsewhere DEF FlipInv
  <1>2. PortInv'
    BY <1>0, PortsUntouched DEF FlipInv
  <1>3. present' \in PresentType
    BY <1>0 DEF PresentType
  <1>4. FlipTypes'
    BY <1>0, <1>3 DEF FlipTypes
  <1> QED
    BY <1>1, <1>2, <1>4 DEF FlipInv

\* The present thread chooses the front request.
LEMMA ChooseKeeps ==
    ASSUME FlipInv, Choose
    PROVE  FlipInv'
  <1>0. /\ UNCHANGED <<requests, cpu, cancelled, nextId, free, last, work, gpu, eop, guest, port,
                       registered, exit, left>>
        /\ FlipTypes /\ RequestsOnce /\ present.pc = "flip" /\ requests # <<>>
        /\ present' = [pc |-> "chosen", request |-> Head(requests)]
        /\ Head(requests).state = "Ready"
    BY DEF Choose, FlipInv, QueueInv, portVars, eventLists, queueVars, poolVars
  <1>1. Head(requests) = requests[1] /\ requests[1] \in Request
    BY <1>0, ListsAre, RequestTail
  <1>2. present' \in PresentType
    BY <1>0, <1>1 DEF PresentType
  <1>3. FrontKept'
    BY <1>0, <1>1 DEF FrontKept, Processing
  <1>4. FramesOnce => FramesOnce'
    BY <1>0 DEF FramesOnce, AllRequests
  <1>5. QueueInv'
    BY <1>0, <1>3, <1>4, PresentMoves DEF FlipInv
  <1>6. PortInv'
    BY <1>0, PortsUntouched DEF FlipInv
  <1>7. FlipTypes'
    BY <1>0, <1>2 DEF FlipTypes
  <1> QED
    BY <1>5, <1>6, <1>7 DEF FlipInv

\* The last frame is shown again, and given back behind the free ones.
LEMMA RefreshKeeps ==
    ASSUME FlipInv, Refresh
    PROVE  FlipInv'
  <1>0. /\ UNCHANGED <<requests, cpu, cancelled, nextId, work, gpu, eop, guest, port, registered, exit, left>>
        /\ FlipTypes /\ FramesOnce /\ present.pc = "idle" /\ present' = [pc |-> "end"]
        /\ free \in Seq(Frames) /\ IsInjective(free)
    BY DEF Refresh, FlipInv, QueueInv, FramesOnce, FlipTypes, portVars, eventLists, queueVars
  <1>1. /\ free' \in Seq(Frames) /\ IsInjective(free') /\ ToSet(free') = ToSet(free)
        /\ last' # NoFrame => last' \in ToSet(free)
        /\ last' \in Frames \cup {NoFrame}
    <2>1. CASE Ime /\ last # NoFrame
      <3>1. free' = Append(RemoveFirst(free, last), last) /\ last' = last
        BY <2>1 DEF Refresh
      <3>2. last \in ToSet(free) /\ last \in Frames
        BY <1>0, <2>1 DEF FramesOnce, Range, ToSet, FlipTypes
      <3>3. PICK t, s : t = last /\ s = RemoveFirst(free, last)
        OBVIOUS
      <3>4. s \in Seq(Frames) /\ IsInjective(s) /\ ToSet(s) = ToSet(free) \ {t}
        BY <1>0, <3>2, <3>3, RemoveFirstProperties
      <3>5. t \in Frames \ ToSet(s)
        BY <3>2, <3>3, <3>4
      <3>6. Append(s, t) \in Seq(Frames) /\ IsInjective(Append(s, t)) /\ ToSet(Append(s, t)) = ToSet(s) \cup {t}
        BY <3>4, <3>5, Appended
      <3>7. free' = Append(s, t)
        BY <3>1, <3>3
      <3>8. ToSet(s) \cup {t} = ToSet(free)
        BY <3>2, <3>3, <3>4
      <3> QED
        BY <3>1, <3>2, <3>6, <3>7, <3>8
    <2>2. CASE ~(Ime /\ last # NoFrame)
      <3>1. free' = Append(Tail(free), Head(free)) /\ last' = Head(free)
        BY <2>2 DEF Refresh
      <3>2. free # <<>>
        <4>1. last # NoFrame \/ free # <<>>
          BY DEF Refresh
        <4>2. CASE last # NoFrame
          <5>1. last \in Range(free)
            BY <1>0, <4>2 DEF FramesOnce
          <5> QED
            BY <5>1, LenProperties, <1>0 DEF Range
        <4> QED
          BY <4>1, <4>2
      <3>3. PICK t, s : t = Head(free) /\ s = Tail(free)
        OBVIOUS
      <3>4. s \in Seq(Frames) /\ IsInjective(s) /\ ToSet(s) = ToSet(free) \ {t} /\ t \in ToSet(free)
        BY <1>0, <3>2, <3>3, Popped
      <3>5. t \in Frames \ ToSet(s)
        BY <1>0, <3>2, <3>3, <3>4, HeadTailProperties
      <3>6. Append(s, t) \in Seq(Frames) /\ IsInjective(Append(s, t)) /\ ToSet(Append(s, t)) = ToSet(s) \cup {t}
        BY <3>4, <3>5, Appended
      <3>7. free' = Append(s, t)
        BY <3>1, <3>3
      <3>8. ToSet(s) \cup {t} = ToSet(free)
        BY <3>4
      <3> QED
        BY <3>1, <3>3, <3>4, <3>5, <3>6, <3>7, <3>8
    <2> QED
      BY <2>1, <2>2
  <1>2. Range(free') = Range(free) /\ (last' # NoFrame => last' \in Range(free))
    BY <1>1 DEF Range, ToSet
  <1>3. FramesOnce'
    <2>1. AllRequests' = AllRequests
      BY <1>0 DEF AllRequests
    <2> QED
      BY <1>0, <1>1, <1>2, <2>1 DEF FramesOnce
  <1>4. FrontKept'
    BY <1>0 DEF FrontKept, Processing
  <1>5. QueueInv'
    BY <1>0, <1>3, <1>4, PresentMoves DEF FlipInv
  <1>6. PortInv'
    BY <1>0, PortsUntouched DEF FlipInv
  <1>7. FlipTypes'
    BY <1>0, <1>1 DEF FlipTypes, PresentType
  <1> QED
    BY <1>5, <1>6, <1>7 DEF FlipInv

\* Nobody has the number of a request with a finished frame.
LEMMA FinishedIsNobodys ==
    ASSUME FlipTypes, RequestsOnce, NEW q \in AllRequests, q.state \in {"Ready", "Presenting"}
    PROVE  q.id \notin Unprepared /\ q.id \notin Prepared /\ q.id \notin Completable
  BY OneOfId DEF Unprepared, Prepared, Completable, AllRequests

\* The request in front keeps its number while the present thread looks at it.
LEMMA FrontNumbers ==
    ASSUME FlipTypes, QueueInv, NEW q \in AllRequests, q.state \in {"Ready", "Presenting"}, NEW r,
           Exchanged(q, r), UNCHANGED <<guest, work, gpu, eop>>
    PROVE  NumbersOnce' /\ Promised'
  <1>1. RequestsOnce
    BY DEF QueueInv
  <1>2. /\ Unprepared \ {q.id} \subseteq Unprepared' /\ Prepared \ {q.id} \subseteq Prepared'
        /\ Completable \ {q.id} \subseteq Completable'
    BY <1>1, PromisesExchanged
  <1>3. q.id \notin Unprepared /\ q.id \notin Prepared /\ q.id \notin Completable
    BY <1>1, FinishedIsNobodys
  <1> QED
    BY <1>2, <1>3, PromisesGrow

\* The present thread looks whether its request is due, or gives it up.
LEMMA LookWhetherDueKeeps ==
    ASSUME FlipInv, LookWhetherDue
    PROVE  FlipInv'
  <1>0. /\ UNCHANGED <<cpu, cancelled, nextId, free, last, work, gpu, eop, guest, port, registered, left>>
        /\ FlipTypes /\ QueueInv /\ RequestsOnce /\ StatesRight /\ FrontKept /\ FramesOnce /\ present.pc = "chosen" /\ Processing
    BY DEF LookWhetherDue, FlipInv, QueueInv, Processing, portVars, eventLists, queueVars, poolVars
  <1>1. /\ requests # <<>> /\ present.request \in Request /\ present.request.state = "Ready"
        /\ requests[1] = present.request /\ Head(requests) = requests[1] /\ requests[1] \in Range(requests)
        /\ 1 \in DOMAIN requests
    BY <1>0, FrontRequest, ListsAre, RequestTail
  <1>2. CASE ~FlipDue(present.request)
    <2>1. present' = [pc |-> "idle"] /\ UNCHANGED <<requests, exit>>
      BY <1>2 DEF LookWhetherDue
    <2>2. FrontKept' /\ (FramesOnce => FramesOnce')
      BY <1>0, <2>1 DEF FrontKept, Processing, FramesOnce, AllRequests
    <2>3. QueueInv'
      BY <1>0, <2>1, <2>2, PresentMoves
    <2>4. PortInv'
      BY <1>0, <2>1, PortsUntouched DEF FlipInv
    <2>5. FlipTypes'
      BY <1>0, <2>1 DEF FlipTypes, PresentType
    <2> QED
      BY <2>3, <2>4, <2>5 DEF FlipInv
  <1>3. CASE FlipDue(present.request)
    <2>1. /\ requests' = [requests EXCEPT ![1] = [requests[1] EXCEPT !.state = "Presenting"]]
          /\ present' = [present EXCEPT !.pc = "presenting"] /\ exit' = exit
      BY <1>1, <1>3 DEF LookWhetherDue
    <2>2. PICK q \in Range(requests) : q = requests[1]
      BY <1>1
    <2>3. q \in Request /\ q.state = "Ready" /\ present.request = q /\ q \in AllRequests
      BY <1>1, <2>2 DEF AllRequests
    <2>4. PICK r \in Request : /\ r = [q EXCEPT !.state = "Presenting"] /\ r.id = q.id /\ r.frame = q.frame
                               /\ r.state = "Presenting" /\ r.port = q.port /\ r.generation = q.generation
      <3>1. [q EXCEPT !.state = "Presenting"] \in Request
        BY <2>3 DEF Request, FlipStates
      <3> QED
        BY <2>3, <3>1 DEF Request
    <2>5. Replaced(requests, requests', At(requests, q.id), r)
      <3>1. RequestList(requests) /\ q.id = q.id
        BY <1>0, ListsAre
      <3>2. At(requests, q.id) \in DOMAIN requests /\ requests[At(requests, q.id)] = q
        BY <3>1, AtFinds
      <3>3. At(requests, q.id) = 1
        BY <1>1, <2>2, <3>1, <3>2 DEF RequestList, IdsOnce
      <3> QED
        BY <1>1, <2>1, <2>2, <2>4, <3>3 DEF Replaced
    <2>6. FlipTypes /\ RequestsOnce /\ UNCHANGED <<cpu, cancelled>> /\ r.id = q.id
      BY <1>0, <2>4
    <2>7. /\ Exchanged(q, r) /\ RequestList(requests)' /\ RequestList(cpu)' /\ RequestList(cancelled)'
          /\ r \in Range(requests') /\ r \notin Range(cpu') /\ r \notin Range(cancelled')
          /\ Range(requests') = (Range(requests) \ {q}) \cup {r}
          /\ requests' # <<>> /\ requests'[1] = IF requests[1] = q THEN r ELSE requests[1]
      BY <2>5, <2>6, QueuedReplaced
    <2>8. AllRequests' = (AllRequests \ {q}) \cup {r}
      BY <2>7 DEF Exchanged, Around, AllRequests
    <2>9. FramesOnce'
      BY <1>0, <2>3, <2>4, <2>8, FramesExchanged
    <2>10. RequestsOnce'
      BY <1>0, <2>3, <2>4, <2>7, OnceExchanged
    <2>11. present' \in PresentType /\ present'.pc = "presenting" /\ present'.request = q
      <3>1. present \in [pc : {"chosen", "presenting"}, request : Request]
        BY <1>0 DEF FlipTypes, PresentType
      <3> QED
        BY <2>1, <2>3, <3>1 DEF PresentType
    <2>12. StatesRight'
      <3>1. \A a \in Range(requests') : a.state = "Presenting" => a = r
        BY <1>0, <2>7 DEF StatesRight
      <3>2. r.frame # NoFrame
        BY <1>0, <2>3, <2>4 DEF StatesRight, Unfinished
      <3>3. /\ \A a \in AllRequests' : (a.state = "Reserved" => a.frame = NoFrame)
            /\ \A a \in AllRequests' : (~Unfinished(a) => a.frame # NoFrame)
        BY <1>0, <2>4, <2>8, <3>2 DEF StatesRight
      <3>4. (\A a \in Range(cpu') : a.state = "Reserved") /\ (\A a \in Range(cancelled') : Unfinished(a))
        BY <1>0 DEF StatesRight
      <3> QED
        BY <2>4, <2>11, <3>1, <3>3, <3>4 DEF StatesRight
    <2>13. FrontKept'
      BY <2>2, <2>3, <2>4, <2>7, <2>11 DEF FrontKept
    <2>14. NumbersOnce' /\ Promised'
      BY <1>0, <2>3, <2>7, FrontNumbers
    <2>15. PortInv'
      <3>1. \A y \in Range(requests') \cup Range(cpu') : \E z \in Range(requests) \cup Range(cpu) :
                z.port = y.port /\ z.generation = y.generation
        BY <1>0, <2>4, <2>7
      <3> QED
        BY <1>0, <2>1, <3>1, PortsUntouched DEF FlipInv
    <2>16. FlipTypes'
      BY <1>0, <2>7, <2>11 DEF FlipTypes, RequestList
    <2> QED
      BY <2>9, <2>10, <2>12, <2>13, <2>14, <2>15, <2>16 DEF FlipInv, QueueInv
  <1> QED
    BY <1>2, <1>3

\* The present thread shows its request and gives the frame back.
LEMMA ShowsKeeps ==
    ASSUME FlipInv, Shows
    PROVE  FlipInv'
  <1>0. /\ UNCHANGED <<cpu, cancelled, nextId, work, gpu, eop, guest, registered, left>>
        /\ FlipTypes /\ QueueInv /\ RequestsOnce /\ StatesRight /\ FrontKept /\ FramesOnce
        /\ present.pc = "presenting" /\ Processing /\ present' = [pc |-> "end"]
    BY DEF Shows, FlipInv, QueueInv, Processing
  <1>1. /\ requests # <<>> /\ present.request \in Request
        /\ requests[1].id = present.request.id /\ requests[1].frame = present.request.frame
        /\ requests[1].port = present.request.port /\ requests[1].state = "Presenting"
    BY <1>0, FrontRequest
  <1>2. /\ Head(requests) = requests[1] /\ requests[1] \in Range(requests) /\ requests[1] \in Request
        /\ RequestList(Tail(requests)) /\ Range(Tail(requests)) = Range(requests) \ {requests[1]}
        /\ Len(Tail(requests)) = Len(requests) - 1 /\ RequestList(requests) /\ RequestList(cpu)
        /\ RequestList(cancelled)
    BY <1>0, <1>1, ListsAre, RequestTail
  <1>3. PICK q \in Range(requests) : q = requests[1]
    BY <1>2
  <1>4. /\ q \in Request /\ q \in AllRequests /\ q.state = "Presenting" /\ q.frame # NoFrame /\ q.port \in Ports
        /\ q.id = present.request.id
    BY <1>0, <1>1, <1>2, <1>3 DEF AllRequests, StatesRight, Unfinished, Request
  <1>5. /\ requests' = Tail(requests) /\ free' = Append(free, q.frame) /\ last' = q.frame
        /\ port' = [port EXCEPT ![q.port] = [port[q.port] EXCEPT !.pending = Pending - 1]]
        /\ exit' = exit
    BY <1>1, <1>2, <1>3 DEF Shows
  <1>6. q \notin Range(cpu) /\ q \notin Range(cancelled)
    BY <1>0 DEF RequestsOnce
  <1>7. /\ Exchanged(q, q) /\ RequestList(requests)' /\ RequestList(cpu)' /\ RequestList(cancelled)'
        /\ Range(requests') = Range(requests) \ {q} /\ AllRequests' = AllRequests \ {q}
        /\ q \notin Range(requests') /\ q \notin Range(cpu') /\ q \notin Range(cancelled')
    BY <1>0, <1>2, <1>3, <1>5, <1>6 DEF Exchanged, Around, AllRequests, RequestList, IdsOnce
  <1>8. FramesOnce' /\ free' \in Seq(Frames) /\ last' \in Frames \cup {NoFrame}
    BY <1>0, <1>4, <1>5, <1>7, FrameReturned
  <1>9. RequestsOnce'
    BY <1>0, <1>4, <1>7, OnceExchanged
  <1>10. StatesRight'
    <2>1. \A a \in Range(requests') : a.state # "Presenting"
      BY <1>0, <1>4, <1>7, OneOfId DEF StatesRight, AllRequests
    <2> QED
      BY <1>0, <1>7, <2>1 DEF StatesRight
  <1>11. FrontKept'
    BY <1>0 DEF FrontKept, Processing
  <1>12. NumbersOnce' /\ Promised'
    BY <1>0, <1>4, <1>7, FrontNumbers
  <1> DEFINE p == q.port
             v == [port[p] EXCEPT !.pending = Pending - 1]
  <1>13. /\ Len(requests) \in Nat /\ Len(cpu) \in Nat /\ Pending - 1 \in Int
         /\ \A y \in Range(requests') \cup Range(cpu') : Pending - 1 > 0
    <2>1. Len(requests') \in Nat /\ Len(cpu') \in Nat /\ Len(requests) \in Nat /\ Len(cpu) \in Nat
      BY <1>2, <1>7, LenProperties DEF RequestList
    <2>2. ASSUME NEW y \in Range(requests') \cup Range(cpu') PROVE Len(requests') + Len(cpu') > 0
      <3>1. DOMAIN requests' = 1 .. Len(requests') /\ DOMAIN cpu' = 1 .. Len(cpu')
        BY <1>7, LenProperties DEF RequestList
      <3> QED
        BY <2>1, <3>1 DEF Range
    <2>3. Pending - 1 = Len(requests') + Len(cpu')
      BY <1>0, <1>2, <1>5, <2>1 DEF Pending
    <2> QED
      BY <2>1, <2>2, <2>3
  <1>14. /\ v \in PortType /\ v.opened = port[p].opened /\ v.generation = port[p].generation
         /\ v.rate = port[p].rate /\ v.occupied = port[p].occupied /\ v.pending = Pending - 1
    BY <1>0, <1>4, <1>13 DEF PortType, FlipTypes
  <1> HIDE DEF v
  <1>15. port' \in [Ports -> PortType] /\ port'[p] = v /\ \A o \in Ports \ {p} : port'[o] = port[o]
    BY <1>0, <1>4, <1>5, <1>14, PortChanged DEF v
  <1>16. \A o \in Ports : /\ port'[o].opened = port[o].opened /\ port'[o].generation = port[o].generation
                          /\ port'[o].rate = port[o].rate /\ port'[o].occupied = port[o].occupied
                          /\ port'[o].pending = IF o = p THEN Pending - 1 ELSE port[o].pending
    BY <1>14, <1>15
  <1>17. PortInv'
    <2>5. \A o \in Ports : (Closing(o)' <=> Closing(o))
      BY <1>0 DEF Closing
    <2>6. \A o : (BeingCancelled(o)' <=> BeingCancelled(o))
      BY <1>0 DEF BeingCancelled
    <2>7. PortsHaveTheirs'
      <3>1. ASSUME NEW y \in Range(requests') \cup Range(cpu')
            PROVE  \/ /\ port'[y.port].opened /\ port'[y.port].generation = y.generation
                      /\ port'[y.port].pending > 0
                   \/ BeingCancelled(y.port)'
        <4>1. y \in Range(requests) \cup Range(cpu) /\ y.port \in Ports /\ Pending - 1 > 0
          BY <1>0, <1>7, <1>13, PortsOfRequests
        <4> QED
          BY <1>16, <2>6, <4>1 DEF FlipInv, PortInv, PortsHaveTheirs
      <3>2. \A o \in Ports : Closing(o)' => ~port'[o].opened
        BY <1>16, <2>5 DEF FlipInv, PortInv, PortsHaveTheirs
      <3> QED
        BY <3>1, <3>2 DEF PortsHaveTheirs
    <2>8. ClosedReset'
      BY <1>0, <1>16, RacesStay, GuestPort DEF FlipInv, PortInv, ClosedReset
    <2>9. ExitRight'
      BY <1>5, RacesStay DEF FlipInv, PortInv, ExitRight, FlipQueueConsistent
    <2> QED
      BY <2>7, <2>8, <2>9 DEF PortInv
  <1>18. FlipTypes'
    BY <1>0, <1>7, <1>8, <1>15 DEF FlipTypes, RequestList, PresentType
  <1> QED
    BY <1>8, <1>9, <1>10, <1>11, <1>12, <1>17, <1>18 DEF FlipInv, QueueInv

-----------------------------------------------------------------------------
(* Cancelling *)

\* Cancel takes a list apart by port and state.
LEMMA ListTakenApart ==
    ASSUME NEW s, RequestList(s), NEW p
    PROVE  /\ RequestList(Dropped(p, s)) /\ Range(Dropped(p, s)) = {r \in Range(s) : r.port # p}
           /\ RequestList(Spliced(p, s)) /\ Range(Spliced(p, s)) = {r \in Range(s) : r.port = p /\ Unfinished(r)}
           /\ RequestList(Finished(p, s)) /\ Range(Finished(p, s)) = {r \in Range(s) : r.port = p /\ ~Unfinished(r)}
           /\ s # <<>> /\ s[1].port # p => Dropped(p, s) # <<>> /\ Dropped(p, s)[1] = s[1]
  <1> DEFINE I == {k \in DOMAIN s : s[k].port # p}
             J == {k \in DOMAIN s : s[k].port = p /\ Unfinished(s[k])}
             K == {k \in DOMAIN s : s[k].port = p /\ ~Unfinished(s[k])}
  <1>0. I \in SUBSET DOMAIN s /\ J \in SUBSET DOMAIN s /\ K \in SUBSET DOMAIN s
    OBVIOUS
  <1>1. /\ Dropped(p, s) = Only(s, I) /\ Spliced(p, s) = Only(s, J) /\ Finished(p, s) = Only(s, K)
    BY DEF Dropped, Spliced, Finished
  <1>2. /\ {s[i] : i \in I} = {r \in Range(s) : r.port # p}
        /\ {s[i] : i \in J} = {r \in Range(s) : r.port = p /\ Unfinished(r)}
        /\ {s[i] : i \in K} = {r \in Range(s) : r.port = p /\ ~Unfinished(r)}
    BY DEF Range
  <1>3. s # <<>> /\ s[1].port # p => 1 \in I
    <2>1. s # <<>> => 1 \in DOMAIN s
      BY LenProperties, EmptySeq DEF RequestList
    <2> QED
      BY <2>1
  <1> HIDE DEF I, J, K
  <1>4. /\ RequestList(Only(s, I)) /\ Range(Only(s, I)) = {s[i] : i \in I}
        /\ 1 \in I => Only(s, I) # <<>> /\ Only(s, I)[1] = s[1]
    BY <1>0, OnlyKeeps
  <1>5. RequestList(Only(s, J)) /\ Range(Only(s, J)) = {s[i] : i \in J}
    BY <1>0, OnlyKeeps
  <1>6. RequestList(Only(s, K)) /\ Range(Only(s, K)) = {s[i] : i \in K}
    BY <1>0, OnlyKeeps
  <1> QED
    BY <1>1, <1>2, <1>3, <1>4, <1>5, <1>6

\* Two lists of frames that have none in common, joined.
LEMMA FramesJoined ==
    ASSUME NEW a \in Seq(Frames), NEW b \in Seq(Frames), IsInjective(a), IsInjective(b),
           Range(a) \cap Range(b) = {}
    PROVE  a \o b \in Seq(Frames) /\ IsInjective(a \o b) /\ Range(a \o b) = Range(a) \cup Range(b)
  <1> DEFINE n == Len(a)
             m == Len(b)
             w == a \o b
  <1>1. /\ n \in Nat /\ m \in Nat /\ DOMAIN a = 1 .. n /\ DOMAIN b = 1 .. m
        /\ w \in Seq(Frames) /\ DOMAIN w = 1 .. n + m
    BY LenProperties, JoinIsList
  <1>2. \A i \in 1 .. n + m : w[i] = IF i <= n THEN a[i] ELSE b[i - n]
    BY JoinItem
  <1> HIDE DEF w, n, m
  <1>3. \A i \in 1 .. n : w[i] = a[i]
    BY <1>1, <1>2
  <1>4. \A i \in 1 .. m : w[n + i] = b[i]
    BY <1>1, <1>2
  <1>5. ASSUME NEW i \in DOMAIN w, NEW j \in DOMAIN w, w[i] = w[j] PROVE i = j
    <2>1. CASE i <= n /\ j <= n
      BY <1>1, <1>2, <1>5, <2>1 DEF IsInjective
    <2>2. CASE i > n /\ j > n
      <3>1. i - n \in 1 .. m /\ j - n \in 1 .. m /\ w[i] = b[i - n] /\ w[j] = b[j - n]
        BY <1>1, <1>2, <2>2
      <3>2. i - n = j - n
        BY <1>1, <1>5, <3>1 DEF IsInjective
      <3> QED
        BY <1>1, <2>2, <3>2
    <2>3. ASSUME NEW c \in DOMAIN w, NEW d \in DOMAIN w, c <= n, d > n PROVE w[c] # w[d]
      <3>1. d - n \in 1 .. m /\ w[d] = b[d - n] /\ w[c] = a[c] /\ c \in 1 .. n
        BY <1>1, <1>2, <2>3
      <3> QED
        BY <1>1, <3>1 DEF Range
    <2> QED
      BY <1>1, <1>5, <2>1, <2>2, <2>3
  <1>6. Range(w) = Range(a) \cup Range(b)
    <2>1. ASSUME NEW x \in Range(w) PROVE x \in Range(a) \cup Range(b)
      <3>1. PICK i \in 1 .. n + m : w[i] = x
        BY <1>1 DEF Range
      <3>2. CASE i <= n
        BY <1>1, <1>2, <3>1, <3>2 DEF Range
      <3>3. CASE i > n
        <4>1. i - n \in 1 .. m /\ w[i] = b[i - n]
          BY <1>1, <1>2, <3>3
        <4> QED
          BY <1>1, <3>1, <4>1 DEF Range
      <3> QED
        BY <1>1, <3>2, <3>3
    <2>2. ASSUME NEW x \in Range(a) PROVE x \in Range(w)
      <3>1. PICK i \in 1 .. n : a[i] = x
        BY <1>1 DEF Range
      <3>2. i \in 1 .. n + m /\ w[i] = x
        BY <1>1, <1>3, <3>1
      <3> QED
        BY <1>1, <3>2 DEF Range
    <2>3. ASSUME NEW x \in Range(b) PROVE x \in Range(w)
      <3>1. PICK i \in 1 .. m : b[i] = x
        BY <1>1 DEF Range
      <3>2. n + i \in 1 .. n + m /\ w[n + i] = x
        BY <1>1, <1>4, <3>1
      <3> QED
        BY <1>1, <3>2 DEF Range
    <2> QED
      BY <2>1, <2>2, <2>3
  <1> QED
    BY <1>1, <1>5, <1>6 DEF w, IsInjective

\* The frames of requests that each have one, and none the other's.
LEMMA FramesOfRequests ==
    ASSUME NEW d, RequestList(d), \A r \in Range(d) : r.frame # NoFrame,
           \A r, s \in Range(d) : r.frame = s.frame => r = s
    PROVE  LET b == [k \in DOMAIN d |-> d[k].frame]
           IN b \in Seq(Frames) /\ IsInjective(b) /\ Range(b) = {r.frame : r \in Range(d)}
  <1> DEFINE b == [k \in DOMAIN d |-> d[k].frame]
  <1>1. /\ Len(d) \in Nat /\ DOMAIN d = 1 .. Len(d)
        /\ \A k \in DOMAIN d : d[k] \in Request /\ d[k] \in Range(d)
    BY LenProperties, RequestAt DEF RequestList
  <1>2. \A k \in DOMAIN d : d[k].frame \in Frames
    BY <1>1 DEF Request
  <1>3. b \in [1 .. Len(d) -> Frames]
    BY <1>1, <1>2
  <1>4. b \in Seq(Frames)
    BY <1>1, <1>3
  <1>5. \A i, j \in DOMAIN d : d[i].frame = d[j].frame => i = j
    BY <1>1 DEF RequestList, IdsOnce
  <1>6. IsInjective(b)
    BY <1>5 DEF IsInjective
  <1>7. Range(b) = {r.frame : r \in Range(d)}
    BY DEF Range
  <1> QED
    BY <1>4, <1>6, <1>7

\* What becomes of the lists when the flips of a port are cancelled.
CancelledFlips(p, done) ==
    /\ RequestList(done) /\ Range(done) = {r \in Range(requests) \cup Range(cpu) : r.port = p /\ ~Unfinished(r)}
    /\ RequestList(requests)' /\ RequestList(cpu)' /\ RequestList(cancelled)'
    /\ Range(requests') = {r \in Range(requests) : r.port # p}
    /\ Range(cpu') = {r \in Range(cpu) : r.port # p}
    /\ Range(cancelled') = Range(cancelled)
           \cup {r \in Range(requests) \cup Range(cpu) : r.port = p /\ Unfinished(r)}
    /\ requests # <<>> /\ requests[1].port # p => requests' # <<>> /\ requests'[1] = requests[1]

\* Cancel takes a list apart: the others', the unfinished and the finished ones of the port.
LEMMA CancelTakesApart ==
    ASSUME FlipTypes, RequestsOnce, NEW p, NEW done, done = Finished(p, requests) \o Finished(p, cpu),
           cancelled' = cancelled \o Spliced(p, requests) \o Spliced(p, cpu),
           requests' = Dropped(p, requests), cpu' = Dropped(p, cpu)
    PROVE  CancelledFlips(p, done)
  <1>0. /\ RequestList(requests) /\ RequestList(cpu) /\ RequestList(cancelled)
    BY ListsAre
  <1>1. PICK d, e, x, y : /\ d = Finished(p, requests) /\ e = Finished(p, cpu)
                          /\ x = Spliced(p, requests) /\ y = Spliced(p, cpu)
    OBVIOUS
  <1>2. /\ RequestList(requests') /\ Range(requests') = {r \in Range(requests) : r.port # p}
        /\ RequestList(x) /\ Range(x) = {r \in Range(requests) : r.port = p /\ Unfinished(r)}
        /\ RequestList(d) /\ Range(d) = {r \in Range(requests) : r.port = p /\ ~Unfinished(r)}
        /\ requests # <<>> /\ requests[1].port # p => requests' # <<>> /\ requests'[1] = requests[1]
    BY <1>0, <1>1, ListTakenApart
  <1>3. /\ RequestList(cpu') /\ Range(cpu') = {r \in Range(cpu) : r.port # p}
        /\ RequestList(y) /\ Range(y) = {r \in Range(cpu) : r.port = p /\ Unfinished(r)}
        /\ RequestList(e) /\ Range(e) = {r \in Range(cpu) : r.port = p /\ ~Unfinished(r)}
    BY <1>0, <1>1, ListTakenApart
  <1>4. RequestList(done) /\ Range(done) = Range(d) \cup Range(e)
    <2>1. \A a \in Range(d), b \in Range(e) : a.id # b.id
      BY <1>2, <1>3 DEF RequestsOnce
    <2> QED
      BY <1>1, <1>2, <1>3, <2>1, RequestsJoined
  <1>5. PICK z : z = cancelled \o x
    OBVIOUS
  <1>6. RequestList(z) /\ Range(z) = Range(cancelled) \cup Range(x)
    <2>1. \A a \in Range(cancelled), b \in Range(x) : a.id # b.id
      BY <1>2 DEF RequestsOnce
    <2> QED
      BY <1>0, <1>2, <1>5, <2>1, RequestsJoined
  <1>7. RequestList(z \o y) /\ Range(z \o y) = Range(z) \cup Range(y)
    <2>1. \A a \in Range(z), b \in Range(y) : a.id # b.id
      BY <1>2, <1>3, <1>6 DEF RequestsOnce
    <2> QED
      BY <1>3, <1>6, <2>1, RequestsJoined
  <1>8. cancelled' = z \o y
    BY <1>1, <1>5
  <1>9. RequestList(requests)' /\ RequestList(cpu)' /\ RequestList(cancelled)'
    BY <1>2, <1>3, <1>7, <1>8 DEF RequestList, IdsOnce
  <1>10. Range(done) = {r \in Range(requests) \cup Range(cpu) : r.port = p /\ ~Unfinished(r)}
    BY <1>2, <1>3, <1>4
  <1>11. Range(cancelled') = Range(cancelled)
             \cup {r \in Range(requests) \cup Range(cpu) : r.port = p /\ Unfinished(r)}
    BY <1>2, <1>3, <1>6, <1>7, <1>8
  <1> QED
    BY <1>2, <1>3, <1>4, <1>9, <1>10, <1>11 DEF CancelledFlips

\* The frames of the finished ones go back to the pool.
LEMMA FramesGivenBack ==
    ASSUME FlipTypes, RequestsOnce, StatesRight, FramesOnce, NEW p, NEW done, CancelledFlips(p, done),
           free' = free \o [k \in DOMAIN done |-> done[k].frame], last' = last
    PROVE  /\ FramesOnce' /\ free' \in Seq(Frames) /\ AllRequests' \subseteq AllRequests
           /\ \A r \in AllRequests : Unfinished(r) => r \in AllRequests'
  <1> DEFINE b == [k \in DOMAIN done |-> done[k].frame]
             G == Range(done)
  <1>1. /\ RequestList(done) /\ G \subseteq AllRequests /\ AllRequests' = AllRequests \ G
        /\ \A r \in G : ~Unfinished(r)
    <2>1. \A r \in Range(cancelled) : r \notin Range(requests) /\ r \notin Range(cpu)
      BY DEF RequestsOnce
    <2> QED
      BY <2>1 DEF CancelledFlips, AllRequests
  <1>2. /\ \A r \in G : r.frame # NoFrame
        /\ \A r, s \in G : r.frame = s.frame => r = s
    BY <1>1 DEF StatesRight, FramesOnce
  <1>3. b \in Seq(Frames) /\ IsInjective(b) /\ Range(b) = {r.frame : r \in G}
    BY <1>1, <1>2, FramesOfRequests
  <1> HIDE DEF b, G
  <1>4. free \in Seq(Frames) /\ IsInjective(free) /\ Range(free) \cap Range(b) = {}
    BY <1>1, <1>3 DEF FlipTypes, FramesOnce
  <1>5. PICK c, d : c = b /\ d = free
    OBVIOUS
  <1>6. d \o c \in Seq(Frames) /\ IsInjective(d \o c) /\ Range(d \o c) = Range(d) \cup Range(c)
    <2>1. /\ d \in Seq(Frames) /\ c \in Seq(Frames) /\ IsInjective(d) /\ IsInjective(c)
          /\ Range(d) \cap Range(c) = {}
      BY <1>3, <1>4, <1>5
    <2> QED
      BY <2>1, FramesJoined
  <1>7. free' \in Seq(Frames) /\ IsInjective(free') /\ Range(free') = Range(free) \cup {r.frame : r \in G}
    BY <1>3, <1>5, <1>6 DEF b
  <1>8. \A x, y \in AllRequests' : x.frame # NoFrame /\ x.frame = y.frame => x = y
    BY <1>1 DEF FramesOnce
  <1>9. \A x \in AllRequests' : x.frame \notin Range(free')
    BY <1>1, <1>2, <1>7 DEF FramesOnce
  <1>10. \A x \in Frames : x \in Range(free') \/ \E y \in AllRequests' : y.frame = x
    BY <1>1, <1>7 DEF FramesOnce
  <1>11. last' # NoFrame => last' \in Range(free')
    BY <1>7 DEF FramesOnce
  <1> QED
    BY <1>1, <1>7, <1>8, <1>9, <1>10, <1>11 DEF FramesOnce

\* The lists after the flips of a port are cancelled.
LEMMA CancelledListsKeep ==
    ASSUME FlipTypes, RequestsOnce, StatesRight, FrontKept, NEW p, NEW done, CancelledFlips(p, done),
           UNCHANGED <<nextId, present>>, Processing => requests[1].port # p
    PROVE  /\ RequestsOnce' /\ StatesRight' /\ FrontKept'
           /\ Unprepared \subseteq Unprepared' /\ Prepared \subseteq Prepared' /\ Completable \subseteq Completable'
  <1>1. /\ Range(requests') \subseteq Range(requests) /\ Range(cpu') \subseteq Range(cpu)
        /\ AllRequests' \subseteq AllRequests
        /\ \A r \in AllRequests : Unfinished(r) => r \in AllRequests'
        /\ \A r \in Range(requests) : Unfinished(r) => r \in Range(requests') \cup Range(cancelled')
        /\ Range(cancelled) \subseteq Range(cancelled')
    BY DEF CancelledFlips, AllRequests
  <1>2. RequestsOnce'
    <2>1. IdsOnce(requests') /\ IdsOnce(cpu') /\ IdsOnce(cancelled')
      BY DEF CancelledFlips, RequestList
    <2>2. \A r \in Range(requests'), c \in Range(cpu') : r.id # c.id
      BY <1>1 DEF RequestsOnce
    <2>3. \A r \in Range(requests') \cup Range(cpu'), x \in Range(cancelled') : r # x
      BY DEF CancelledFlips, RequestsOnce
    <2>4. \A r \in Range(requests') \cup Range(cpu'), x \in Range(cancelled') :
              r \in AllRequests /\ x \in AllRequests
      BY <1>1 DEF AllRequests
    <2>5. \A r \in Range(requests') \cup Range(cpu'), x \in Range(cancelled') : r.id # x.id
      BY <2>3, <2>4, OneOfId
    <2>6. \A r \in AllRequests' : r.id < nextId'
      BY <1>1 DEF RequestsOnce
    <2> QED
      BY <2>1, <2>2, <2>5, <2>6 DEF RequestsOnce
  <1>3. StatesRight'
    <2>1. \A r \in Range(cancelled') : Unfinished(r)
      BY DEF CancelledFlips, StatesRight
    <2> QED
      BY <1>1, <2>1 DEF StatesRight
  <1>4. FrontKept'
    <2>1. Processing => requests # <<>>
      BY DEF FrontKept
    <2>2. Processing => requests' # <<>> /\ requests'[1] = requests[1]
      BY <2>1 DEF CancelledFlips
    <2> QED
      BY <2>2, FrontStays
  <1>5. Unprepared \subseteq Unprepared'
    BY <1>1 DEF Unprepared, Unfinished
  <1>6. Prepared \subseteq Prepared'
    BY <1>1 DEF Prepared, Unfinished
  <1>7. Completable \subseteq Completable'
    BY <1>1 DEF Completable, Unfinished
  <1> QED
    BY <1>2, <1>3, <1>4, <1>5, <1>6, <1>7

\* FlipQueue::Cancel.
LEMMA CancelKeeps ==
    ASSUME FlipInv, NEW g \in Guests, Cancel(g)
    PROVE  FlipInv'
  <1> DEFINE p == guest[g].port
             done == Finished(p, requests) \o Finished(p, cpu)
  <1>0. /\ UNCHANGED <<registered, nextId, last, work, gpu, eop, present, left>>
        /\ FlipTypes /\ RequestsOnce /\ StatesRight /\ FrontKept /\ FramesOnce /\ NumbersOnce /\ Promised
        /\ guest[g].pc = "cancel" /\ MayCancel(p)
    BY DEF Cancel, FlipInv, QueueInv, eventLists
  <1>e. /\ cancelled' = cancelled \o Spliced(p, requests) \o Spliced(p, cpu)
        /\ requests' = Dropped(p, requests) /\ cpu' = Dropped(p, cpu)
        /\ free' = free \o [k \in DOMAIN done |-> done[k].frame]
    BY DEF Cancel
  <1>1. /\ guest' = [guest EXCEPT ![g] = [guest[g] EXCEPT !.pc = "deleteEvents"]]
        /\ port' = [port EXCEPT ![p] = [port[p] EXCEPT !.pending = 0]]
        /\ IF \E k \in DOMAIN done : done[k].state = "Presenting" THEN TRUE ELSE exit' = exit
    BY DEF Cancel
  <1>2. p \in Ports
    BY <1>0, GuestPort
  <1> HIDE DEF done
  <1>3. PICK d, o : d = done /\ o = p
    OBVIOUS
  <1>4. CancelledFlips(o, d)
    BY <1>0, <1>3, <1>e, CancelTakesApart DEF done
  <1>5. Processing => requests[1].port # p
    <2>1. Processing => requests # <<>>
      BY <1>0 DEF FrontKept
    <2>2. requests # <<>> => Head(requests) = requests[1]
      BY <1>0, ListsAre, RequestTail
    <2> QED
      BY <1>0, <2>1, <2>2 DEF MayCancel
  <1>6. exit' = exit
    <2> SUFFICES \A r \in Range(d) : r.state # "Presenting"
      BY <1>1, <1>3 DEF Range
    <2> SUFFICES ASSUME NEW r \in Range(d), r.state = "Presenting"
                 PROVE  FALSE
      OBVIOUS
    <2>1. r \in Range(requests) \cup Range(cpu) /\ r.port = p
      BY <1>3, <1>4 DEF CancelledFlips
    <2>2. r \in Range(requests) /\ present.pc = "presenting" /\ r.id = present.request.id
      BY <1>0, <2>1 DEF StatesRight
    <2>3. requests # <<>> /\ requests[1].id = present.request.id /\ Processing
      BY <1>0, <2>2, FrontRequest DEF Processing
    <2>4. requests[1] \in Range(requests)
      BY <1>0, <2>3, ListsAre, RequestTail
    <2>5. r = requests[1]
      BY <1>0, <2>2, <2>3, <2>4, OneOfId DEF AllRequests
    <2> QED
      BY <1>5, <2>1, <2>3, <2>5
  <1>7. /\ RequestsOnce' /\ StatesRight' /\ FrontKept'
        /\ Unprepared \subseteq Unprepared' /\ Prepared \subseteq Prepared' /\ Completable \subseteq Completable'
    BY <1>0, <1>3, <1>4, <1>5, CancelledListsKeep
  <1>8. FramesOnce' /\ free' \in Seq(Frames)
    BY <1>0, <1>3, <1>4, <1>e, FramesGivenBack DEF done
  <1> DEFINE v == [guest[g] EXCEPT !.pc = "deleteEvents"]
             w == [port[p] EXCEPT !.pending = 0]
  <1>9. v \in GuestType /\ v.pc = "deleteEvents" /\ v.port = p
    <2>1. guest[g] \in [pc : {"cancel", "deleteEvents"}, port : Ports, events : SUBSET Nat]
      BY <1>0 DEF FlipTypes, GuestType, Idle
    <2> QED
      BY <2>1 DEF GuestType
  <1>10. /\ w \in PortType /\ w.opened = port[p].opened /\ w.generation = port[p].generation
         /\ w.rate = port[p].rate /\ w.occupied = port[p].occupied
    <2>1. port[p] \in PortType
      BY <1>0, <1>2 DEF FlipTypes
    <2> QED
      BY <2>1 DEF PortType
  <1> HIDE DEF v, w
  <1>11. port' \in [Ports -> PortType] /\ port'[p] = w /\ \A q \in Ports \ {p} : port'[q] = port[q]
    BY <1>0, <1>1, <1>2, <1>10, PortChanged DEF w
  <1>12. /\ guest' \in [Guests -> GuestType] /\ guest'[g] = v
         /\ \A h \in Guests \ {g} : guest'[h] = guest[h]
    BY <1>0, <1>1, <1>9, GuestChanged DEF v
  <1>13. UNCHANGED <<Submitting, ToPrepare, InHand>> /\ \A h \in Submitting : guest'[h].id = guest[h].id
    BY <1>0, <1>9, <1>12 DEF Submitting, ToPrepare, InHand
  <1>14. NumbersOnce'
    <2>1. NumbersOnce /\ UNCHANGED <<work, gpu, eop>>
      BY <1>0
    <2> QED
      BY <1>13, <2>1 DEF NumbersOnce
  <1>15. Promised'
    BY <1>0, <1>7, <1>13 DEF Promised
  <1>16. \A q \in Ports : /\ port'[q].opened = port[q].opened /\ port'[q].generation = port[q].generation
                          /\ port'[q].rate = port[q].rate /\ port'[q].occupied = port[q].occupied
                          /\ q # p => port'[q].pending = port[q].pending
    BY <1>10, <1>11
  <1>17. PortInv'
    <2>5. \A q \in Ports : (Closing(q)' <=> Closing(q))
      BY <1>0, <1>9, <1>12 DEF Closing
    <2>6. \A q : q # p /\ BeingCancelled(q) => BeingCancelled(q)'
      BY <1>9, <1>12 DEF BeingCancelled
    <2>7. PortsHaveTheirs'
      <3>1. ASSUME NEW y \in Range(requests') \cup Range(cpu')
            PROVE  \/ /\ port'[y.port].opened /\ port'[y.port].generation = y.generation
                      /\ port'[y.port].pending > 0
                   \/ BeingCancelled(y.port)'
        <4>1. y \in Range(requests) \cup Range(cpu) /\ y.port # p
          BY <1>3, <1>4 DEF CancelledFlips
        <4>2. y.port \in Ports
          BY <4>1, PortsOfRequests
        <4> QED
          BY <1>16, <2>6, <4>1, <4>2 DEF FlipInv, PortInv, PortsHaveTheirs
      <3>2. \A q \in Ports : Closing(q)' => ~port'[q].opened
        BY <1>16, <2>5 DEF FlipInv, PortInv, PortsHaveTheirs
      <3> QED
        BY <3>1, <3>2 DEF PortsHaveTheirs
    <2>8. ClosedReset'
      <3>1. \A h \in Guests : guest'[h].pc = "rate" => h # g /\ guest'[h] = guest[h]
        BY <1>9, <1>12
      <3> QED
        <4>1. ClosedReset /\ registered' = registered
          BY <1>0 DEF FlipInv, PortInv
        <4>2. \A h \in Guests : guest[h].pc = "rate" => guest[h].port \in Ports
          BY <1>0, GuestPort
        <4> QED
          BY <1>16, <3>1, <4>1, <4>2, RacesStay DEF ClosedReset
    <2>9. ExitRight'
      BY <1>6, RacesStay DEF FlipInv, PortInv, ExitRight, FlipQueueConsistent
    <2> QED
      BY <2>7, <2>8, <2>9 DEF PortInv
  <1>18. FlipTypes'
    BY <1>0, <1>4, <1>8, <1>11, <1>12 DEF FlipTypes, RequestList, CancelledFlips
  <1> QED
    BY <1>7, <1>8, <1>14, <1>15, <1>17, <1>18 DEF FlipInv, QueueInv

-----------------------------------------------------------------------------
(* What the invariant says of the program. *)

\* Who holds a frame: the list and the place in it.
ListOf(i) == <<requests, cpu, cancelled>>[i]
Holders == {h \in (1 .. 3) \X Nat : h[2] \in DOMAIN ListOf(h[1]) /\ ListOf(h[1])[h[2]].frame # NoFrame}
HeldFrame(h) == ListOf(h[1])[h[2]].frame
FramesAway == {f \in Frames : \E r \in AllRequests : r.frame = f}

\* Every place of a list that holds a frame holds another one.
LEMMA HoldersAre ==
    ASSUME FlipTypes, RequestsOnce, FramesOnce
    PROVE  /\ \A h \in Holders : HeldFrame(h) \in FramesAway
           /\ \A f \in FramesAway : \E h \in Holders : HeldFrame(h) = f
           /\ \A g, h \in Holders : HeldFrame(g) = HeldFrame(h) => g = h
           /\ Holders = UNION {{<<i, k>> : k \in {k \in DOMAIN ListOf(i) : ListOf(i)[k].frame # NoFrame}} :
                                 i \in 1 .. 3}
  <1>0. ListOf(1) = requests /\ ListOf(2) = cpu /\ ListOf(3) = cancelled
    BY DEF ListOf
  <1>1. /\ \A i \in 1 .. 3 : RequestList(ListOf(i)) /\ Range(ListOf(i)) \subseteq AllRequests
        /\ AllRequests = Range(ListOf(1)) \cup Range(ListOf(2)) \cup Range(ListOf(3))
    <2>1. \A i \in 1 .. 3 : i = 1 \/ i = 2 \/ i = 3
      OBVIOUS
    <2> QED
      BY <1>0, <2>1, ListsAre DEF AllRequests
  <1>2. \A i \in 1 .. 3 : \A k \in DOMAIN ListOf(i) :
            k \in Nat /\ ListOf(i)[k] \in Range(ListOf(i)) /\ ListOf(i)[k] \in Request
    <2> SUFFICES ASSUME NEW i \in 1 .. 3, NEW k \in DOMAIN ListOf(i)
                 PROVE  k \in Nat /\ ListOf(i)[k] \in Range(ListOf(i)) /\ ListOf(i)[k] \in Request
      OBVIOUS
    <2>1. PICK s : s = ListOf(i)
      OBVIOUS
    <2>2. RequestList(s) /\ k \in DOMAIN s
      BY <1>1, <2>1
    <2>3. s[k] \in Request /\ s[k] \in Range(s) /\ Len(s) \in Nat /\ DOMAIN s = 1 .. Len(s)
      BY <2>2, RequestAt
    <2> QED
      BY <2>1, <2>2, <2>3
  <1>3. \A i, j \in 1 .. 3 : i # j => \A x \in Range(ListOf(i)), y \in Range(ListOf(j)) : x.id # y.id
    <2>1. \A i \in 1 .. 3 : i = 1 \/ i = 2 \/ i = 3
      OBVIOUS
    <2> QED
      BY <1>0, <2>1 DEF RequestsOnce
  <1>4. \A h \in Holders : /\ h[1] \in 1 .. 3 /\ h[2] \in DOMAIN ListOf(h[1]) /\ h = <<h[1], h[2]>>
                           /\ HeldFrame(h) # NoFrame
    BY DEF Holders, HeldFrame
  <1>5. \A h \in Holders : HeldFrame(h) \in FramesAway
    BY <1>1, <1>2, <1>4 DEF HeldFrame, FramesAway, Request
  <1>6. \A f \in FramesAway : \E h \in Holders : HeldFrame(h) = f
    <2> SUFFICES ASSUME NEW f \in FramesAway PROVE \E h \in Holders : HeldFrame(h) = f
      OBVIOUS
    <2>1. PICK r \in AllRequests : r.frame = f /\ f # NoFrame
      BY VideoOutAssumption DEF FramesAway
    <2>2. PICK i \in 1 .. 3 : r \in Range(ListOf(i))
      BY <1>1, <2>1
    <2>3. PICK k \in DOMAIN ListOf(i) : ListOf(i)[k] = r
      BY <2>2 DEF Range
    <2>4. k \in Nat
      BY <1>2, <2>3
    <2>5. <<i, k>> \in Holders /\ HeldFrame(<<i, k>>) = f
      BY <2>1, <2>2, <2>3, <2>4 DEF Holders, HeldFrame
    <2> QED
      BY <2>5
  <1>7. \A g, h \in Holders : HeldFrame(g) = HeldFrame(h) => g = h
    <2> SUFFICES ASSUME NEW g \in Holders, NEW h \in Holders, HeldFrame(g) = HeldFrame(h)
                 PROVE  g = h
      OBVIOUS
    <2>1. PICK r, s : r = ListOf(g[1])[g[2]] /\ s = ListOf(h[1])[h[2]]
      OBVIOUS
    <2>2. r \in Range(ListOf(g[1])) /\ s \in Range(ListOf(h[1])) /\ r.frame = s.frame /\ r.frame # NoFrame
      BY <1>2, <1>4, <2>1 DEF HeldFrame
    <2>3. r = s
      BY <1>1, <1>4, <2>2 DEF FramesOnce
    <2>4. g[1] = h[1]
      BY <1>3, <1>4, <2>2, <2>3
    <2>5. g[2] = h[2]
      BY <1>1, <1>4, <2>1, <2>3, <2>4 DEF RequestList, IdsOnce
    <2> QED
      BY <1>4, <2>4, <2>5
  <1>8. Holders = UNION {{<<i, k>> : k \in {k \in DOMAIN ListOf(i) : ListOf(i)[k].frame # NoFrame}} :
                           i \in 1 .. 3}
    BY <1>2 DEF Holders
  <1> QED
    BY <1>5, <1>6, <1>7, <1>8

\* The invariant counts the frames as the property does.
LEMMA FramesKeptImplied ==
    ASSUME FlipInv
    PROVE  FramesKept
  <1>0. FlipTypes /\ RequestsOnce /\ FramesOnce
    BY DEF FlipInv, QueueInv
  <1>1. free \in Seq(Frames) /\ IsInjective(free) /\ IsFiniteSet(Frames) /\ Range(free) = ToSet(free)
    BY <1>0, VideoOutAssumption DEF FlipTypes, FramesOnce, Range, ToSet
  <1>2. Range(free) \subseteq Frames /\ FramesAway = Frames \ Range(free)
    <2>1. Range(free) \subseteq Frames
      BY <1>1, ItemOf DEF Range
    <2> QED
      BY <1>0, <2>1 DEF FramesOnce, FramesAway
  <1>3. IsFiniteSet(FramesAway) /\ Cardinality(FramesAway) = Cardinality(Frames) - Len(free)
    <2>1. Cardinality(ToSet(free)) = Len(free)
      BY <1>1, DistinctCount
    <2>2. Frames \cap Range(free) = ToSet(free)
      BY <1>1, <1>2
    <2>3. /\ IsFiniteSet(Frames \ Range(free))
          /\ Cardinality(Frames \ Range(free)) = Cardinality(Frames) - Cardinality(Frames \cap Range(free))
      BY <1>1, FS_Difference
    <2> QED
      BY <1>2, <2>1, <2>2, <2>3
  <1>4. /\ \A h \in Holders : HeldFrame(h) \in FramesAway
        /\ \A f \in FramesAway : \E h \in Holders : HeldFrame(h) = f
        /\ \A g, h \in Holders : HeldFrame(g) = HeldFrame(h) => g = h
        /\ Holders = UNION {{<<i, k>> : k \in {k \in DOMAIN ListOf(i) : ListOf(i)[k].frame # NoFrame}} :
                              i \in 1 .. 3}
    BY <1>0, HoldersAre
  <1>5. Cardinality(Holders) = Cardinality(FramesAway)
    <2> DEFINE F == [f \in FramesAway |-> CHOOSE h \in Holders : HeldFrame(h) = f]
    <2>1. \A f \in FramesAway : F[f] \in Holders /\ HeldFrame(F[f]) = f
      BY <1>4
    <2>2. F \in [FramesAway -> Holders]
      BY <2>1
    <2> HIDE DEF F
    <2>3. \A f, g \in FramesAway : F[f] = F[g] => f = g
      BY <2>1
    <2>4. \A h \in Holders : \E f \in FramesAway : F[f] = h
      BY <1>4, <2>1
    <2>5. F \in Bijection(FramesAway, Holders)
      BY <2>2, <2>3, <2>4 DEF Bijection, Injection, Surjection, IsInjective
    <2>6. ExistsBijection(FramesAway, Holders)
      BY <2>5 DEF ExistsBijection
    <2> QED
      BY <1>3, <2>6, FS_Bijection
  <1>6. Len(free) + Cardinality(Holders) = Cardinality(Frames)
    <2>1. Len(free) \in Nat /\ Cardinality(Frames) \in Nat
      BY <1>1, LenProperties, FS_CardinalityType
    <2> QED
      BY <1>3, <1>5, <2>1
  <1>7. Range(free) \cup {HeldFrame(h) : h \in Holders} = Frames
    BY <1>2, <1>4
  <1>8. last # NoFrame => last \in Range(free)
    BY <1>0 DEF FramesOnce
  <1> QED
    BY <1>4, <1>6, <1>7, <1>8 DEF FramesKept, HeldFrame, ListOf

\* The invariant says of pending flips what the property says.
LEMMA PendingImplied ==
    ASSUME FlipInv
    PROVE  PendingTruthful
  <1> SUFFICES ASSUME NEW p \in Ports, ~Closing(p), NEW r \in Range(requests) \cup Range(cpu), r.port = p
               PROVE  port[p].opened /\ port[p].pending > 0 /\ r.generation = port[p].generation
    BY DEF PendingTruthful
  <1>1. ~BeingCancelled(p)
    BY DEF BeingCancelled, Closing
  <1> QED
    BY <1>1 DEF FlipInv, PortInv, PortsHaveTheirs

\* The three parts of the property.
LEMMA FlipsImplied ==
    ASSUME FlipInv, ~RateMayRace
    PROVE  FlipsSound
  BY FramesKeptImplied, PendingImplied DEF FlipsSound, FlipInv, PortInv, ExitRight

-----------------------------------------------------------------------------
\* The invariant holds at the start.
LEMMA FlipsStart ==
    ASSUME Init
    PROVE  FlipInv
  <1>0. /\ port = [p \in Ports |-> [opened |-> FALSE, closing |-> FALSE, generation |-> 0,
                                rate |-> 0, vblank |-> 0, occupied |-> FALSE, pending |-> 0]]
        /\ registered = [p \in Ports |-> {}]
        /\ requests = <<>> /\ cpu = <<>> /\ cancelled = <<>> /\ nextId = 1
        /\ free = SetToSeq(Frames) /\ last = NoFrame
        /\ guest = [g \in Guests |-> Idle]
        /\ work = <<>> /\ gpu = Idle /\ eop = <<>>
        /\ present = [pc |-> "flip"] /\ left = MaxFlips /\ exit = "none"
        /\ MaxFlips \in Nat /\ IsFiniteSet(Frames)
    BY VideoOutAssumption DEF Init
  <1>1. /\ free \in Seq(Frames) /\ IsInjective(free) /\ Range(free) = Frames
    BY <1>0, SetAsList DEF Range, ToSet
  <1>2. AllRequests = {} /\ Submitting = {} /\ ToPrepare = {} /\ ~InHand /\ ~Processing /\ Range(eop) = {}
    BY <1>0 DEF AllRequests, Range, Submitting, ToPrepare, InHand, Processing, Idle
  <1>3. \A g \in Guests : guest[g].pc = "idle"
    BY <1>0 DEF Idle
  <1>4. FlipTypes
    <2>1. port \in [Ports -> PortType]
      BY <1>0 DEF PortType
    <2>2. guest \in [Guests -> GuestType] /\ gpu \in GpuType /\ present \in PresentType
      BY <1>0 DEF GuestType, GpuType, PresentType
    <2> QED
      BY <1>0, <1>1, <2>1, <2>2 DEF FlipTypes
  <1>5. RequestsOnce
    BY <1>0, <1>2 DEF RequestsOnce, IdsOnce, Range
  <1>6. NumbersOnce
    BY <1>0, <1>2 DEF NumbersOnce, IsInjective
  <1>7. Promised
    BY <1>0, <1>2 DEF Promised, Idle
  <1>8. StatesRight /\ FrontKept
    BY <1>0, <1>2 DEF StatesRight, FrontKept, Range
  <1>9. FramesOnce
    BY <1>0, <1>1, <1>2 DEF FramesOnce
  <1>10. PortsHaveTheirs
    BY <1>0, <1>3 DEF PortsHaveTheirs, Range, Closing
  <1>11. ClosedReset
    BY <1>0, <1>3 DEF ClosedReset
  <1>12. ExitRight
    BY <1>0 DEF ExitRight, FlipQueueConsistent
  <1> QED
    BY <1>4, <1>5, <1>6, <1>7, <1>8, <1>9, <1>10, <1>11, <1>12 DEF FlipInv, QueueInv, PortInv

\* Every step of every thread keeps the invariant.
LEMMA FlipsKept ==
    ASSUME FlipInv, [Next]_vars
    PROVE  FlipInv'
  <1>1. ASSUME NEW g \in Guests, GuestStep(g)
        PROVE  FlipInv'
    <2>1. PICK p \in Ports :
       \/ "open" \in Calls[g] /\ (Open(g, p) \/ \E b \in BOOLEAN : SetBuffers(g, p, b))
       \/ "close" \in Calls[g] /\ CloseBegin(g, p)
       \/ "rate" \in Calls[g] /\ \E rate \in 0 .. MaxRate : SetFlipRateBegin(g, p, rate)
       \/ "events" \in Calls[g] /\ (RegisterFlipEvent(g, p) \/ DeleteFlipEvent(g, p))
       \/ "flip" \in Calls[g] /\ \E i \in Indexes : SubmitFlip(g, p, i)
       \/ "packets" \in Calls[g] /\ \E i \in Indexes, pc \in {"reserve", "wait"} :
             SubmitPackets(g, [pc |-> pc, port |-> p, index |-> i])
      BY <1>1 DEF GuestStep
    <2>2. CASE Open(g, p)
      BY <2>2, OpenKeeps
    <2>3. CASE \E b \in BOOLEAN : SetBuffers(g, p, b)
      BY <2>3, SetBuffersKeeps
    <2>4. CASE "close" \in Calls[g] /\ CloseBegin(g, p)
      BY <2>4, CloseBeginKeeps
    <2>5. CASE "rate" \in Calls[g] /\ \E rate \in 0 .. MaxRate : SetFlipRateBegin(g, p, rate)
      <3>1. PICK rate \in 0 .. MaxRate : SetFlipRateBegin(g, p, rate)
        BY <2>5
      <3>2. rate \in Nat
        BY VideoOutAssumption
      <3> QED
        BY <2>5, <3>1, <3>2, SetFlipRateBeginKeeps
    <2>6. CASE RegisterFlipEvent(g, p) \/ DeleteFlipEvent(g, p)
      BY <2>6, RegisterFlipEventKeeps, EventStepsKeep
    <2>7. CASE \E i \in Indexes : SubmitFlip(g, p, i)
      BY <2>7, SubmitFlipKeeps
    <2>8. CASE \E i \in Indexes, pc \in {"reserve", "wait"} :
                   SubmitPackets(g, [pc |-> pc, port |-> p, index |-> i])
      <3>1. PICK i \in Indexes, pc \in {"reserve", "wait"} :
                SubmitPackets(g, [pc |-> pc, port |-> p, index |-> i])
        BY <2>8
      <3>2. PICK packet \in Packet : packet = [pc |-> pc, port |-> p, index |-> i]
        BY DEF Packet
      <3>3. SubmitPackets(g, packet)
        BY <3>1, <3>2
      <3> QED
        BY <3>3, SubmitPacketsKeeps
    <2> QED
      BY <2>1, <2>2, <2>3, <2>4, <2>5, <2>6, <2>7, <2>8
  <1>2. ASSUME NEW g \in Guests, InCall(g)
        PROVE  FlipInv'
    BY <1>2, CancelKeeps, CloseEndKeeps, SetFlipRateEndKeeps, SubmitFlipPreparationKeeps, AddFlipEventKeeps
       DEF InCall
  <1>3. ASSUME GpuThread
        PROVE  FlipInv'
    BY <1>3, GpuTakesKeeps, EopReserveKeeps, PrepareKeeps, PrepareLooksKeeps, PrepareDropsKeeps,
       PrepareRecordsKeeps, FlushKeeps, WaitFlipDoneKeeps DEF GpuThread
  <1>4. ASSUME EndOfPipe
        PROVE  FlipInv'
    BY <1>4, EndOfPipeKeeps
  <1>5. ASSUME PresentThread
        PROVE  FlipInv'
    BY <1>5, NothingReadyKeeps, ChooseKeeps, LookWhetherDueKeeps, EventStepsKeep, ShowsKeeps, RefreshKeeps,
       VblankEndKeeps DEF PresentThread
  <1>6. ASSUME Equeues
        PROVE  FlipInv'
    BY <1>6, EventStepsKeep
  <1>7. CASE UNCHANGED vars
    <2>1. /\ UNCHANGED <<requests, cpu, cancelled, nextId, free, last, work, gpu, eop, present, left, exit,
                         port, guest, registered>>
      BY <1>7 DEF vars, portVars, eventLists, queueVars, poolVars, threadVars
    <2>2. registered \in [Ports -> SUBSET Nat] /\ guest \in [Guests -> GuestType]
      BY DEF FlipInv, FlipTypes
    <2> QED
      BY <2>1, <2>2, EventsKeepFlips
  <1> QED
    BY <1>1, <1>2, <1>3, <1>4, <1>5, <1>6, <1>7 DEF Next

\* A frame is free or held by one request, and none is lost, whatever guests do
\* while frames are prepared, recorded, completed, shown and cancelled
\* (FramePool::Release, FlipQueue::Cancel); a guest that polls is not told that
\* all is shown while a flip of its port is queued.  This needs no assumption
\* about which threads make which calls.
THEOREM FramesCorrect == Spec => [](FramesKept /\ PendingTruthful)
  <1>1. Init => FlipInv
    BY FlipsStart
  <1>2. FlipInv /\ [Next]_vars => FlipInv'
    BY FlipsKept
  <1>3. FlipInv => FramesKept /\ PendingTruthful
    BY FramesKeptImplied, PendingImplied
  <1> QED
    BY <1>1, <1>2, <1>3, PTL DEF Spec

\* The one assertion of the driver that an interleaving of its own calls reaches
\* is the one on the flip rate at the head of Open (videoOut.cpp:630): every
\* other end of the program is a flip of a port or buffer the guest has given up,
\* or a queue full of its flips.
THEOREM OnlyOpenFails == Spec => [](FlipQueueConsistent \/ exit = "open")
  <1>1. Init => FlipInv
    BY FlipsStart
  <1>2. FlipInv /\ [Next]_vars => FlipInv'
    BY FlipsKept
  <1>3. FlipInv => FlipQueueConsistent \/ exit = "open"
    BY DEF FlipInv, PortInv, ExitRight
  <1> QED
    BY <1>1, <1>2, <1>3, PTL DEF Spec

\* And it is reached only where one thread sets the rate while another closes:
\* when no thread does, no assertion of the flip queue fails, no frame is lost and
\* the count of pending flips tells the truth.
THEOREM FlipsCorrect == ASSUME ~RateMayRace PROVE Spec => []FlipsSound
  <1>1. Init => FlipInv
    BY FlipsStart
  <1>2. FlipInv /\ [Next]_vars => FlipInv'
    BY FlipsKept
  <1>3. FlipInv => FlipsSound
    BY FlipsImplied
  <1> QED
    BY <1>1, <1>2, <1>3, PTL DEF Spec
================================================================================
