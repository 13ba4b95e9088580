----------------------- MODULE MCCommandScheduler_proofs -----------------------
(***************************************************************************)
(* The ring of a stream buffer hands out no region that is still used, for *)
(* every size, atom, request, alignment and number of ticks; the command   *)
(* schedulers leave no operation behind when they close, and run nothing   *)
(* before the device is done while the guest uses the graphics queue only, *)
(* for any number of operations, buffers and ticks.                        *)
(***************************************************************************)
EXTENDS MCCommandScheduler, ListLemmas

-----------------------------------------------------------------------------
(* The ring of a stream buffer. *)

\* A tick whose regions nobody uses any more.
Settled(t) == t <= done /\ \A p \in inFlight : p.tick > t

\* The cursor of a list of watches stands behind settled ones, and the bound is
\* the end of what they cover.
CursorOK(w, cursor, bound) ==
    /\ cursor \in 0 .. Len(w)
    /\ cursor = 0 => bound = 0
    /\ cursor > 0 => bound = w[cursor].upper /\ Settled(w[cursor].tick)

\* A list of watches still guards a region: no watch from before its commit ends
\* past its beginning, and the last one is not from before its commit.
Guards(w, p) ==
    /\ w # <<>> /\ p.stamp <= w[Len(w)].tick
    /\ \A i \in 1 .. Len(w) : w[i].tick < p.stamp => w[i].upper <= p.lo

TimelineOK ==
    /\ done < tick
    /\ ~ring.download => \A p \in inFlight : p.tick > done
    /\ \A p \in prepared : p.stamp <= tick

WatchesOK ==
    /\ \A i \in 1 .. Len(ring.current) :
          ring.current[i].tick <= tick /\ ring.current[i].upper <= ring.offset
    /\ \A i, j \in 1 .. Len(ring.current) :
          i < j => ring.current[i].tick < ring.current[j].tick
    /\ \A i \in 1 .. Len(ring.previous) : ring.previous[i].tick <= tick
    /\ \A i \in 1 .. Len(ring.previous), j \in 1 .. Len(ring.current) :
          ring.previous[i].tick <= ring.current[j].tick
    /\ ring.current = <<>> => ring.offset = 0
    /\ CursorOK(ring.previous, ring.cursor, ring.bound)

MapOK ==
    /\ map.pc = "wait" =>
          /\ CursorOK(Watches, map.cursor, map.bound)
          /\ map.lo + map.size <= RingSize
          /\ map.wrap => map.lo = 0 /\ ring.current # <<>>
          /\ ~map.wrap => ring.offset <= map.lo
          /\ ring.current = <<>> => map.lo = 0
    /\ map.pc = "mapped" => ring.offset + ring.mapped <= RingSize

\* Every region in use is behind the offset and guarded by the watches of this
\* lap, or guarded by those of the lap before.
RegionsGuarded ==
    \A p \in Timely :
        \/ p.hi <= ring.offset /\ Guards(ring.current, p)
        \/ Guards(ring.previous, p)

IInv == TypeOK /\ TimelineOK /\ WatchesOK /\ MapOK /\ RegionsGuarded /\ RegionFree

\* What the lists of watches hold.
LEMMA WatchType ==
    ASSUME TypeOK
    PROVE  /\ \A i \in 1 .. Len(ring.current) :
                  ring.current[i].tick \in Nat /\ ring.current[i].upper \in 0 .. RingSize
           /\ \A i \in 1 .. Len(ring.previous) :
                  ring.previous[i].tick \in Nat /\ ring.previous[i].upper \in 0 .. RingSize
           /\ ring.previous # <<>> => Len(ring.previous) \in 1 .. Len(ring.previous)
           /\ ring.current # <<>> => Len(ring.current) \in 1 .. Len(ring.current)
<1>1. ring.current \in Seq(Watch) /\ ring.previous \in Seq(Watch)
    BY DEF TypeOK
<1>2. /\ \A i \in 1 .. Len(ring.current) : ring.current[i] \in Watch
      /\ \A i \in 1 .. Len(ring.previous) : ring.previous[i] \in Watch
    BY <1>1
<1> QED BY <1>1, <1>2, SMTT(30) DEF Watch

\* Aligning never goes back, and an aligned 0 is 0 (AlignUp).
LEMMA AlignUpUp ==
    ASSUME NEW v \in Nat, NEW a \in Nat \ {0}
    PROVE  AlignUp(v, a) \in Nat /\ AlignUp(v, a) >= v /\ AlignUp(0, a) = 0
<1>1. v % a \in 0 .. a - 1
    BY SMT
<1>2. 0 % a = 0
    BY SMT
<1> QED BY <1>1, <1>2 DEF AlignUp

\* What NormalizeReservation makes of an alignment.
LEMMA JointType ==
    ASSUME StreamBufferAssumption, NEW alignment \in Alignments
    PROVE  Joint(alignment) \in Nat \ {0} /\ Divides(Atom, Joint(alignment))
<1>1. Joint(alignment) \in 1 .. alignment * Atom /\ LeastCommonMultiple(alignment, Joint(alignment))
    BY DEF StreamBufferAssumption, Joint
<1>2. alignment * Atom \in Nat
    BY DEF StreamBufferAssumption
<1> QED BY <1>1, <1>2 DEF LeastCommonMultiple

\* Facts of division.
LEMMA Quotient ==
    ASSUME NEW a \in Nat \ {0}, NEW v \in Nat
    PROVE  v = a * (v \div a) + (v % a) /\ v \div a \in Nat
BY SMT

LEMMA MultipleDivides ==
    ASSUME NEW a \in Nat \ {0}, NEW k \in Nat
    PROVE  Divides(a, a * k)
BY SMT DEF Divides

LEMMA SumDivides ==
    ASSUME NEW a \in Nat \ {0}, NEW v \in Nat, NEW w \in Nat, Divides(a, v), Divides(a, w)
    PROVE  Divides(a, v + w)
<1> DEFINE k == v \div a
           l == w \div a
<1>1. v = a * k /\ k \in Nat /\ w = a * l /\ l \in Nat
    BY Quotient DEF Divides
<1> HIDE DEF k, l
<1>2. v + w = a * (k + l)
    BY <1>1
<1> QED BY <1>1, <1>2, MultipleDivides

LEMMA DividesTransitive ==
    ASSUME NEW a \in Nat \ {0}, NEW j \in Nat \ {0}, NEW v \in Nat, Divides(a, j), Divides(j, v)
    PROVE  Divides(a, v)
<1> DEFINE l == j \div a
           k == v \div j
<1>1. j = a * l /\ l \in Nat /\ v = j * k /\ k \in Nat
    BY Quotient DEF Divides
<1> HIDE DEF k, l
<1>2. v = a * (l * k) /\ l * k \in Nat
    BY <1>1
<1> QED BY <1>2, MultipleDivides

LEMMA AlignUpDivides ==
    ASSUME NEW a \in Nat \ {0}, NEW v \in Nat
    PROVE  Divides(a, AlignUp(v, a))
<1>1. CASE v % a = 0
    BY <1>1 DEF AlignUp, Divides
<1>2. CASE v % a # 0
    <2> DEFINE k == v \div a
               r == v % a
               m == a * k
    <2>1. v = a * k + r /\ k \in Nat
        BY Quotient
    <2>2. r \in Int
        BY SMT
    <2> HIDE DEF k, r
    <2>3. a * (k + 1) = a * k + a /\ a * k \in Int /\ k + 1 \in Nat
        BY <2>1
    <2>4. v = m + r /\ m \in Int /\ a * (k + 1) = m + a
        BY <2>1, <2>3
    <2> HIDE DEF m
    <2>5. v + (a - r) = a * (k + 1)
        BY <2>2, <2>4
    <2>6. AlignUp(v, a) = a * (k + 1)
        BY <1>2, <2>5 DEF AlignUp, r
    <2> QED BY <2>3, <2>6, MultipleDivides
<1> QED BY <1>1, <1>2

\* A region in use is of a later tick than any that is settled.
LEMMA TimelyUnsettled ==
    ASSUME TypeOK, TimelineOK, NEW p \in Timely, NEW t \in Nat, Settled(t)
    PROVE  p.stamp > t
BY DEF TypeOK, TimelineOK, Timely, Settled, Region

\* What the loop of WaitPendingOperations left behind is below a guarded region.
LEMMA PassedIsBelow ==
    ASSUME TypeOK, TimelineOK, NEW p \in Timely, NEW w \in Seq(Watch),
           NEW cursor \in Nat, NEW bound, CursorOK(w, cursor, bound), Guards(w, p)
    PROVE  bound <= p.lo /\ cursor < Len(w)
<1>1. p.lo \in Nat /\ p.stamp \in Nat
    BY DEF TypeOK, Timely, Region
<1>2. CASE cursor = 0
    BY <1>1, <1>2 DEF CursorOK, Guards
<1>3. CASE cursor > 0
    <2>1. w[cursor] \in Watch /\ cursor \in 1 .. Len(w)
        BY <1>3 DEF CursorOK
    <2>2. w[cursor].tick < p.stamp
        BY <1>1, <1>3, <2>1, TimelyUnsettled DEF CursorOK, Watch
    <2>3. Len(w) \in Nat /\ Len(w) \in 1 .. Len(w) /\ cursor <= Len(w)
        BY <2>1
    <2>4. w[cursor].tick \in Nat /\ w[Len(w)].tick \in Nat
        <3>1. w[cursor] \in Watch /\ w[Len(w)] \in Watch
            BY <2>1, <2>3
        <3> QED BY <3>1 DEF Watch
    <2>5. p.stamp <= w[Len(w)].tick
        BY DEF Guards
    <2>6. cursor # Len(w)
        BY <1>1, <2>2, <2>4, <2>5
    <2>7. bound <= p.lo
        BY <1>3, <2>1, <2>2 DEF CursorOK, Guards
    <2> QED BY <2>1, <2>3, <2>6, <2>7
<1> QED BY <1>2, <1>3

-----------------------------------------------------------------------------
LEMMA InitHolds == StreamBufferAssumption /\ Init => IInv
<1> SUFFICES ASSUME StreamBufferAssumption, Init
             PROVE  IInv
    OBVIOUS
<1>1. /\ ring.offset = 0 /\ ring.mapped = 0 /\ ring.current = <<>> /\ ring.previous = <<>>
      /\ ring.cursor = 0 /\ ring.bound = 0
      /\ map = [pc |-> "idle"] /\ tick = 1 /\ done = 0 /\ prepared = {} /\ inFlight = {}
    BY DEF Init
<1>2. TypeOK
    <2>1. /\ RingSize \in Nat /\ 0 \in 0 .. RingSize /\ <<>> \in Seq(Watch)
        BY DEF StreamBufferAssumption
    <2>2. ring \in [offset : 0 .. RingSize, mapped : 0 .. RingSize,
                    current : Seq(Watch), previous : Seq(Watch),
                    cursor : Nat, bound : 0 .. RingSize, download : BOOLEAN]
        <3>1. ring \in [offset : {0}, mapped : {0}, current : {<<>>}, previous : {<<>>},
                        cursor : {0}, bound : {0}, download : BOOLEAN]
            BY DEF Init
        <3>2. ring = [offset |-> 0, mapped |-> 0, current |-> <<>>, previous |-> <<>>,
                      cursor |-> 0, bound |-> 0, download |-> ring.download]
              /\ ring.download \in BOOLEAN
            BY <3>1
        <3>3. [offset |-> 0, mapped |-> 0, current |-> <<>>, previous |-> <<>>,
               cursor |-> 0, bound |-> 0, download |-> ring.download]
              \in [offset : 0 .. RingSize, mapped : 0 .. RingSize,
                   current : Seq(Watch), previous : Seq(Watch),
                   cursor : Nat, bound : 0 .. RingSize, download : BOOLEAN]
            BY <2>1, <3>2
        <3> QED BY <3>2, <3>3
    <2> QED BY <1>1, <2>2 DEF TypeOK
<1>3. TimelineOK /\ WatchesOK /\ MapOK
    BY <1>1 DEF TimelineOK, WatchesOK, MapOK, CursorOK
<1>4. RegionsGuarded /\ RegionFree
    BY <1>1 DEF RegionsGuarded, RegionFree, Timely
<1> QED BY <1>2, <1>3, <1>4 DEF IInv

\* A call of Map begins: the region is inside the ring, and nothing moves yet.
LEMMA BeginKeeps ==
    ASSUME StreamBufferAssumption, IInv,
           NEW request \in Requests, NEW alignment \in Alignments,
           NEW allow_wait \in BOOLEAN, MapBegin(request, alignment, allow_wait)
    PROVE  IInv'
<1> DEFINE size == Rounded(request)
           lo == AlignUp(ring.offset, Joint(alignment))
<1>1. size \in 1 .. RingSize
    BY AlignUpUp DEF MapBegin, Rounded, StreamBufferAssumption
<1>2. /\ lo \in Nat /\ lo >= ring.offset
      /\ ring.offset = 0 => lo = 0
    <2>1. ring.offset \in Nat /\ Joint(alignment) \in Nat \ {0}
        BY JointType DEF IInv, TypeOK
    <2> QED BY <2>1, AlignUpUp
<1>3. UNCHANGED <<ring, tick, done, prepared, inFlight>> /\ map.pc = "idle" /\ map'.pc = "wait"
    BY DEF MapBegin
<1>4. Timely' = Timely
    BY <1>3 DEF Timely
<1>5. /\ map'.size = size /\ map'.wrap = Wraps(size, Joint(alignment)) /\ map'.allow = allow_wait
      /\ map'.lo = IF map'.wrap THEN 0 ELSE lo
      /\ map'.cursor = IF map'.wrap THEN 0 ELSE ring.cursor
      /\ map'.bound = IF map'.wrap THEN 0 ELSE ring.bound
    BY DEF MapBegin
<1>6. Wraps(size, Joint(alignment)) <=> lo > RingSize - size
    BY DEF Wraps
<1>7. TypeOK'
    <2>1. /\ ring.cursor \in Nat /\ ring.bound \in 0 .. RingSize
          /\ RingSize \in Nat /\ ring.offset \in 0 .. RingSize
        BY DEF IInv, TypeOK, StreamBufferAssumption
    <2>2. map' = [pc |-> "wait", wrap |-> map'.wrap, allow |-> map'.allow, size |-> map'.size,
                  lo |-> map'.lo, cursor |-> map'.cursor, bound |-> map'.bound]
        BY DEF MapBegin
    <2>3. /\ map'.wrap \in BOOLEAN /\ map'.allow \in BOOLEAN /\ map'.size \in 1 .. RingSize
          /\ map'.lo \in 0 .. RingSize /\ map'.cursor \in Nat /\ map'.bound \in 0 .. RingSize
        <3>1. map'.wrap \in BOOLEAN /\ map'.allow \in BOOLEAN /\ map'.size \in 1 .. RingSize
            BY <1>1, <1>5 DEF Wraps
        <3>2. map'.lo \in 0 .. RingSize
            BY <1>1, <1>2, <1>5, <1>6, <2>1
        <3> QED BY <1>5, <2>1, <3>1, <3>2
    <2>4. map' \in [pc : {"wait"}, wrap : BOOLEAN, allow : BOOLEAN, size : 1 .. RingSize,
                    lo : 0 .. RingSize, cursor : Nat, bound : 0 .. RingSize]
        BY <2>2, <2>3
    <2> QED BY <1>3, <2>4 DEF IInv, TypeOK
<1>8. MapOK'
    <2>1. CASE map'.wrap
        <3>1. ring.current # <<>>
            <4>1. RingSize \in Nat
                BY DEF StreamBufferAssumption
            <4>2. lo > RingSize - size
                BY <1>5, <1>6, <2>1
            <4>3. ring.offset # 0
                BY <1>1, <1>2, <4>1, <4>2
            <4> QED BY <4>3 DEF IInv, WatchesOK
        <3>2. Watches' = ring.current /\ ring.current \in Seq(Watch)
            BY <1>3, <2>1 DEF Watches, IInv, TypeOK
        <3> QED BY <1>1, <1>3, <1>5, <2>1, <3>1, <3>2 DEF MapOK, CursorOK, StreamBufferAssumption
    <2>2. CASE ~map'.wrap
        <3>1. Watches' = ring.previous /\ ring.previous \in Seq(Watch)
            BY <1>3, <2>2 DEF Watches, IInv, TypeOK
        <3>2. CursorOK(ring.previous, ring.cursor, ring.bound)'
            BY <1>3 DEF IInv, WatchesOK, CursorOK, Settled
        <3> QED BY <1>1, <1>2, <1>3, <1>5, <1>6, <2>2, <3>1, <3>2
                DEF MapOK, CursorOK, StreamBufferAssumption, IInv, WatchesOK
    <2>3. map'.wrap \in BOOLEAN
        BY <1>5 DEF Wraps
    <2> QED BY <2>1, <2>2, <2>3
<1>9. TimelineOK' /\ WatchesOK'
    BY <1>3 DEF IInv, TimelineOK, WatchesOK, CursorOK, Settled
<1>10. RegionsGuarded' /\ RegionFree'
    BY <1>3, <1>4 DEF IInv, RegionsGuarded, RegionFree, Guards
<1> QED BY <1>7, <1>8, <1>9, <1>10 DEF IInv

\* A watch passed is settled.
LEMMA PassedKeeps ==
    ASSUME IInv, WatchPassed
    PROVE  IInv'
<1> USE DEF IInv
<1>1. /\ UNCHANGED <<ring, tick, done, prepared, inFlight>> /\ map.pc = "wait"
      /\ map' = [map EXCEPT !.cursor = @ + 1, !.bound = NextWatch.upper]
    BY DEF WatchPassed
<1>2. map \in [pc : {"wait"}, wrap : BOOLEAN, allow : BOOLEAN, size : 1 .. RingSize,
               lo : 0 .. RingSize, cursor : Nat, bound : 0 .. RingSize]
    BY <1>1 DEF TypeOK
<1>3. Watches \in Seq(Watch) /\ Watches' = Watches
    BY <1>1, <1>2 DEF TypeOK, Watches
<1>4. map.cursor + 1 \in 1 .. Len(Watches) /\ NextWatch = Watches[map.cursor + 1] /\ NextWatch \in Watch
    BY <1>2, <1>3 DEF WatchPassed, Pending, NextWatch
<1>5. Settled(NextWatch.tick)
    BY <1>4 DEF WatchPassed, Settled, TimelineOK, TypeOK, Watch
<1>6. Timely' = Timely
    BY <1>1 DEF Timely
<1>7. TypeOK'
    <2>1. NextWatch.upper \in 0 .. RingSize /\ map.cursor + 1 \in Nat
        BY <1>4 DEF Watch
    <2>2. map' \in [pc : {"wait"}, wrap : BOOLEAN, allow : BOOLEAN, size : 1 .. RingSize,
                    lo : 0 .. RingSize, cursor : Nat, bound : 0 .. RingSize]
        BY <1>1, <1>2, <2>1
    <2> QED BY <1>1, <2>2 DEF TypeOK
<1>8. MapOK'
    BY <1>1, <1>2, <1>3, <1>4, <1>5 DEF MapOK, CursorOK, Settled
<1>9. TimelineOK' /\ WatchesOK'
    BY <1>1 DEF TimelineOK, WatchesOK, CursorOK, Settled
<1>10. RegionsGuarded' /\ RegionFree'
    BY <1>1, <1>2, <1>6 DEF RegionsGuarded, RegionFree, Guards
<1> QED BY <1>7, <1>8, <1>9, <1>10

\* Map returns: what it did not wait for is above the region.
LEMMA ReturnKeeps ==
    ASSUME IInv, MapReturns
    PROVE  IInv'
<1> USE DEF IInv
<1>1. /\ ring' = MappedRing /\ map.pc = "wait" /\ map' = [pc |-> "mapped"] /\ ~Pending
      /\ UNCHANGED <<tick, done, prepared, inFlight>>
    BY DEF MapReturns
<1>2. map \in [pc : {"wait"}, wrap : BOOLEAN, allow : BOOLEAN, size : 1 .. RingSize,
               lo : 0 .. RingSize, cursor : Nat, bound : 0 .. RingSize]
    BY <1>1 DEF TypeOK
<1>3. /\ Watches \in Seq(Watch) /\ CursorOK(Watches, map.cursor, map.bound)
      /\ map.lo + map.size <= map.bound \/ map.cursor = Len(Watches)
    BY <1>1, <1>2 DEF TypeOK, Watches, MapOK, Pending, CursorOK
<1>4. Timely' = Timely
    BY <1>1 DEF Timely
<1>5. /\ ring'.offset = map.lo /\ ring'.mapped = map.size
      /\ ring'.cursor = map.cursor /\ ring'.bound = map.bound
      /\ ring'.current = IF map.wrap THEN <<>> ELSE ring.current
      /\ ring'.previous = IF map.wrap THEN ring.current ELSE ring.previous
      /\ ring'.download = ring.download
    BY <1>1 DEF MappedRing, TypeOK
<1>6. TypeOK'
    <2>1. /\ ring'.current \in Seq(Watch) /\ ring'.previous \in Seq(Watch)
        BY <1>5 DEF TypeOK
    <2>2. ring' = [offset |-> ring'.offset, mapped |-> ring'.mapped, current |-> ring'.current,
                   previous |-> ring'.previous, cursor |-> ring'.cursor, bound |-> ring'.bound,
                   download |-> ring'.download]
        BY <1>1 DEF MappedRing, TypeOK
    <2>3. ring' \in [offset : 0 .. RingSize, mapped : 0 .. RingSize,
                     current : Seq(Watch), previous : Seq(Watch),
                     cursor : Nat, bound : 0 .. RingSize, download : BOOLEAN]
        <3>1. map.lo \in 0 .. RingSize /\ map.size \in 0 .. RingSize
              /\ map.cursor \in Nat /\ map.bound \in 0 .. RingSize
            BY <1>2
        <3>2. ring.download \in BOOLEAN
            BY DEF TypeOK
        <3> QED BY <1>5, <2>1, <2>2, <3>1, <3>2
    <2> QED BY <1>1, <2>3 DEF TypeOK
<1>7. TimelineOK' /\ MapOK'
    BY <1>1, <1>2, <1>5 DEF TimelineOK, MapOK
<1>8. ASSUME NEW p \in Timely, Guards(Watches, p)
      PROVE  map.lo + map.size <= p.lo
    <2>1. map.bound <= p.lo /\ map.cursor < Len(Watches)
        BY <1>2, <1>3, <1>8, PassedIsBelow
    <2>2. p.lo \in Nat
        BY DEF TypeOK, Timely, Region
    <2> QED BY <1>2, <1>3, <2>1, <2>2
<1>9. CASE ~map.wrap
    <2>1. Watches = ring.previous
        BY <1>9 DEF Watches
    <2>2. ring'.current = ring.current /\ ring'.previous = ring.previous /\ ring.offset <= map.lo
          /\ (ring.current = <<>> => map.lo = 0)
        BY <1>1, <1>5, <1>9 DEF MapOK
    <2>3. WatchesOK'
        <3>1. CursorOK(ring.previous, ring.cursor, ring.bound)'
            BY <1>1, <1>3, <1>5, <2>1, <2>2 DEF CursorOK, Settled
        <3>2. \A i \in 1 .. Len(ring.current) : ring.current[i].upper \in Nat
            BY WatchType
        <3>3. ring.offset \in Nat /\ map.lo \in Nat
            BY <1>2 DEF TypeOK
        <3>4. \A i \in 1 .. Len(ring.current) : ring.current[i].upper <= map.lo
            BY <2>2, <3>2, <3>3 DEF WatchesOK
        <3> QED BY <1>1, <1>5, <2>2, <3>1, <3>4 DEF WatchesOK
    <2>4. RegionsGuarded'
        <3> SUFFICES ASSUME NEW p \in Timely
                     PROVE  \/ p.hi <= map.lo /\ Guards(ring.current, p)
                            \/ Guards(ring.previous, p)
            BY <1>4, <1>5, <2>2 DEF RegionsGuarded, Guards
        <3>1. p.hi \in Nat /\ ring.offset \in Nat /\ map.lo \in Nat
            BY <1>2 DEF TypeOK, Timely, Region
        <3> QED BY <2>2, <3>1 DEF RegionsGuarded
    <2>5. RegionFree'
        BY <1>2, <1>4, <1>5, <1>8, <2>1, <2>2 DEF RegionFree, RegionsGuarded, TypeOK, Timely, Region
    <2> QED BY <1>6, <1>7, <2>3, <2>4, <2>5
<1>10. CASE map.wrap
    <2>1. /\ Watches = ring.current /\ ring'.current = <<>> /\ ring'.previous = ring.current
          /\ map.lo = 0 /\ ring.current # <<>>
        BY <1>1, <1>5, <1>10 DEF Watches, MapOK
    <2>2. map.cursor \in 1 .. Len(ring.current) /\ Settled(ring.current[map.cursor].tick)
        BY <1>2, <1>3, <2>1 DEF CursorOK
    <2>7. ring.current[map.cursor].tick \in Nat
        BY <2>2, WatchType
    <2>3. ASSUME NEW p \in Timely
          PROVE  ~Guards(ring.previous, p)
        <3>1. p.stamp > ring.current[map.cursor].tick
            BY <2>2, <2>7, TimelyUnsettled
        <3>2. ring.previous # <<>> => ring.previous[Len(ring.previous)].tick <= ring.current[map.cursor].tick
            BY <2>2, SMTT(30) DEF WatchesOK, TypeOK
        <3>3. p.stamp \in Nat
            BY DEF TypeOK, Timely, Region
        <3>4. ring.previous # <<>> => ring.previous[Len(ring.previous)].tick \in Nat
            BY WatchType
        <3> QED BY <2>7, <3>1, <3>2, <3>3, <3>4, SMTT(30) DEF Guards
    <2>4. WatchesOK'
        BY <1>1, <1>2, <1>3, <1>5, <2>1, SMTT(30) DEF WatchesOK, CursorOK, Settled, TypeOK, Watch
    <2>5. RegionsGuarded'
        BY <1>4, <2>1, <2>3 DEF RegionsGuarded, Guards
    <2>6. RegionFree'
        BY <1>4, <1>5, <1>8, <2>1, <2>3 DEF RegionFree, RegionsGuarded
    <2> QED BY <1>6, <1>7, <2>4, <2>5, <2>6
<1> QED BY <1>2, <1>9, <1>10

\* A commit is guarded by the watch it makes or joins.
LEMMA CommitKeeps ==
    ASSUME IInv, Commit
    PROVE  IInv'
<1> USE DEF IInv
<1> DEFINE past == ring.offset + ring.mapped
           piece == [lo |-> ring.offset, hi |-> past, stamp |-> tick]
<1>1. /\ map.pc = "mapped" /\ map' = [pc |-> "idle"] /\ UNCHANGED <<tick, done, inFlight>>
      /\ prepared' = prepared \cup {piece}
      /\ ring' = [ring EXCEPT !.offset = past, !.current = Watched(@, past)]
    BY DEF Commit
<1>2. past \in 0 .. RingSize /\ ring.offset \in Nat /\ ring.mapped \in Nat /\ tick \in Nat
    BY <1>1 DEF TypeOK, MapOK
<1>3. /\ ring'.offset = past /\ ring'.mapped = ring.mapped /\ ring'.previous = ring.previous
      /\ ring'.cursor = ring.cursor /\ ring'.bound = ring.bound
      /\ ring'.download = ring.download /\ ring'.current = Watched(ring.current, past)
    BY <1>1 DEF TypeOK
<1>4. ring.current \in Seq(Watch) /\ [tick |-> tick, upper |-> past] \in Watch
    BY <1>2 DEF TypeOK, Watch
<1> DEFINE n == Len(ring.current)
<1>5. PICK m \in Nat \ {0} :
          /\ ring'.current \in Seq(Watch) /\ Len(ring'.current) = m
          /\ ring'.current[m] = [tick |-> tick, upper |-> past]
          /\ m - 1 <= n /\ n <= m
          /\ n = m => ring.current[m].tick = tick
          /\ \A i \in 1 .. m - 1 :
                ring'.current[i] = ring.current[i] /\ ring.current[i].tick < tick
    <2>1. CASE ring.current # <<>> /\ ring.current[Len(ring.current)].tick = tick
        <3>1. n \in 1 .. Len(ring.current)
            BY <2>1, WatchType
        <3>2. ring'.current = [ring.current EXCEPT ![n].upper = past]
            BY <1>3, <2>1 DEF Watched
        <3>3. ring.current[n] \in Watch
            BY <1>4, <3>1
        <3>4. [ring.current[n] EXCEPT !.upper = past] = [tick |-> tick, upper |-> past]
            BY <2>1, <3>3 DEF Watch
        <3>5. ring'.current = [ring.current EXCEPT ![n] = [tick |-> tick, upper |-> past]]
            BY <3>2, <3>4
        <3>6. /\ ring'.current \in Seq(Watch) /\ Len(ring'.current) = n
              /\ \A i \in 1 .. n :
                    ring'.current[i] = IF i = n THEN [tick |-> tick, upper |-> past] ELSE ring.current[i]
            BY <1>4, <3>1, <3>5
        <3>7. \A i \in 1 .. n - 1 : ring.current[i].tick < tick
            BY <2>1, <3>1 DEF WatchesOK
        <3> QED BY <2>1, <3>1, <3>6, <3>7
    <2>2. CASE ring.current = <<>> \/ ring.current[Len(ring.current)].tick # tick
        <3>1. ring'.current = Append(ring.current, [tick |-> tick, upper |-> past])
            BY <1>3, <2>2 DEF Watched
        <3>2. n \in Nat
            BY <1>4
        <3>3. /\ ring'.current \in Seq(Watch) /\ Len(ring'.current) = n + 1
              /\ ring'.current[n + 1] = [tick |-> tick, upper |-> past]
              /\ \A i \in 1 .. n : ring'.current[i] = ring.current[i]
            BY <1>4, <3>1
        <3>4. ASSUME NEW i \in 1 .. n
              PROVE  ring.current[i].tick < tick
            <4>1. /\ i <= n /\ n \in 1 .. n /\ ring.current # <<>>
                  /\ ring.current[n].tick \in Nat /\ ring.current[i].tick \in Nat
                BY <1>4, <3>2, WatchType
            <4>2. ring.current[n].tick < tick
                BY <1>2, <2>2, <4>1 DEF WatchesOK
            <4> QED BY <1>2, <4>1, <4>2 DEF WatchesOK
        <3>5. /\ n + 1 \in Nat \ {0} /\ (n + 1) - 1 = n /\ n <= n + 1 /\ n # n + 1
            BY <3>2
        <3> QED BY <3>3, <3>4, <3>5
    <2> QED BY <2>1, <2>2
<1>6. /\ \A i \in 1 .. n : ring.current[i].tick \in Nat /\ ring.current[i].upper \in 0 .. RingSize
      /\ n \in Nat
    BY <1>4, WatchType
<1>11. ASSUME NEW i \in 1 .. m
       PROVE  \/ i = m /\ ring'.current[i].tick = tick /\ ring'.current[i].upper = past
              \/ /\ i < m /\ i \in 1 .. n /\ ring'.current[i] = ring.current[i]
                 /\ ring.current[i].tick < tick
    <2>1. CASE i = m
        BY <1>5, <2>1
    <2>2. CASE i # m
        <3>1. i \in 1 .. m - 1 /\ i \in 1 .. n /\ i < m
            BY <1>5, <1>6, <2>2
        <3> QED BY <1>5, <3>1
    <2> QED BY <2>1, <2>2
<1>7. TypeOK'
    <2>1. ring' = [offset |-> ring'.offset, mapped |-> ring'.mapped, current |-> ring'.current,
                   previous |-> ring'.previous, cursor |-> ring'.cursor, bound |-> ring'.bound,
                   download |-> ring'.download]
        BY <1>1 DEF TypeOK
    <2>2. ring' \in [offset : 0 .. RingSize, mapped : 0 .. RingSize,
                    current : Seq(Watch), previous : Seq(Watch),
                    cursor : Nat, bound : 0 .. RingSize, download : BOOLEAN]
        BY <1>2, <1>3, <1>5, <2>1 DEF TypeOK
    <2>3. piece \in Region
        BY <1>2 DEF Region, TypeOK
    <2> QED BY <1>1, <2>2, <2>3 DEF TypeOK
<1>8. TimelineOK' /\ MapOK' /\ RegionFree'
    BY <1>1, <1>2, <1>3 DEF TimelineOK, MapOK, RegionFree
<1>9. WatchesOK'
    <2>1. ASSUME NEW i \in 1 .. m
          PROVE  ring'.current[i].tick <= tick /\ ring'.current[i].upper <= past
        <3>1. CASE ring'.current[i].tick = tick /\ ring'.current[i].upper = past
            BY <1>2, <3>1
        <3>2. CASE i \in 1 .. n /\ ring'.current[i] = ring.current[i]
            BY <1>2, <1>6, <3>2 DEF WatchesOK
        <3> QED BY <1>11, <3>1, <3>2
    <2>2. ASSUME NEW i \in 1 .. m, NEW j \in 1 .. m, i < j
          PROVE  ring'.current[i].tick < ring'.current[j].tick
        <3>1. /\ i \in 1 .. n /\ ring'.current[i] = ring.current[i] /\ ring.current[i].tick < tick
            BY <1>11, <2>2
        <3>2. CASE j = m
            BY <1>5, <3>1, <3>2
        <3>3. CASE j # m
            <4>1. j \in 1 .. n /\ ring'.current[j] = ring.current[j]
                BY <1>11, <3>3
            <4> QED BY <2>2, <3>1, <4>1 DEF WatchesOK
        <3> QED BY <3>2, <3>3
    <2>3. \A i \in 1 .. Len(ring.previous), j \in 1 .. m :
              ring.previous[i].tick <= ring'.current[j].tick
        <3>1. ASSUME NEW i \in 1 .. Len(ring.previous), NEW j \in 1 .. m
              PROVE  ring.previous[i].tick <= ring'.current[j].tick
            <4>1. CASE ring'.current[j].tick = tick
                BY <4>1 DEF WatchesOK
            <4>2. CASE j \in 1 .. n /\ ring'.current[j] = ring.current[j]
                BY <4>2 DEF WatchesOK
            <4> QED BY <1>11, <4>1, <4>2
        <3> QED BY <3>1
    <2>4. CursorOK(ring.previous, ring.cursor, ring.bound)'
        BY <1>1, <1>3 DEF WatchesOK, CursorOK, Settled
    <2> QED BY <1>1, <1>3, <1>5, <2>1, <2>2, <2>3, <2>4 DEF WatchesOK
<1>10. RegionsGuarded'
    <2> SUFFICES ASSUME NEW p \in Timely'
                 PROVE  \/ p.hi <= past /\ Guards(ring'.current, p)
                        \/ Guards(ring.previous, p)
        BY <1>3 DEF RegionsGuarded, Guards
    <2>1. CASE p = piece
        <3>1. ring'.current # <<>>
            BY <1>5
        <3>2. \A i \in 1 .. m : ring'.current[i].tick < tick => ring'.current[i].upper <= ring.offset
            BY <1>2, <1>6, <1>11 DEF WatchesOK
        <3> QED BY <1>2, <1>5, <2>1, <3>1, <3>2 DEF Guards
    <2>2. CASE p \in Timely
        <3>1. p.hi \in Nat /\ p.lo \in Nat /\ p.stamp \in Nat
            BY <2>2 DEF TypeOK, Timely, Region
        <3>2. CASE p.hi <= ring.offset /\ Guards(ring.current, p)
            <4>1. n \in 1 .. n /\ p.stamp <= ring.current[n].tick
                BY <1>4, <3>2, WatchType DEF Guards
            <4>2. p.stamp <= tick
                BY <1>2, <1>6, <3>1, <4>1 DEF WatchesOK
            <4>3. ring'.current # <<>> /\ p.stamp <= ring'.current[m].tick
                BY <1>5, <4>2
            <4>4. \A i \in 1 .. m : ring'.current[i].tick < p.stamp => ring'.current[i].upper <= p.lo
                <5>1. ASSUME NEW i \in 1 .. m, ring'.current[i].tick < p.stamp
                      PROVE  ring'.current[i].upper <= p.lo
                    <6>1. i \in 1 .. n /\ ring'.current[i] = ring.current[i]
                        BY <1>2, <1>11, <3>1, <4>2, <5>1
                    <6> QED BY <3>2, <5>1, <6>1 DEF Guards
                <5> QED BY <5>1
            <4>5. p.hi <= past
                BY <1>2, <3>1, <3>2
            <4> QED BY <1>5, <4>3, <4>4, <4>5 DEF Guards
        <3> QED BY <2>2, <3>2 DEF RegionsGuarded
    <2> QED BY <1>1, <2>1, <2>2 DEF Timely
<1> QED BY <1>7, <1>8, <1>9, <1>10

\* A step that leaves the ring alone, releases no settled tick and puts no region
\* to use that was not in use.
LEMMA OthersKeep ==
    ASSUME IInv, TypeOK', TimelineOK', UNCHANGED ring, tick <= tick',
           map' = map \/ map' = [pc |-> "idle"],
           \A t \in Nat : Settled(t) => Settled(t)',
           \A q \in Timely' : \E p \in Timely : p.lo = q.lo /\ p.hi = q.hi /\ p.stamp = q.stamp
    PROVE  IInv'
<1> USE DEF IInv
<1>1. tick \in Nat /\ tick' \in Nat
    BY DEF TypeOK
<1>2. ASSUME NEW w \in Seq(Watch), NEW cursor, NEW bound, CursorOK(w, cursor, bound)
      PROVE  CursorOK(w, cursor, bound)'
    <2>1. ASSUME cursor > 0
          PROVE  w[cursor].tick \in Nat
        <3>1. w[cursor] \in Watch
            BY <1>2, <2>1 DEF CursorOK
        <3> QED BY <3>1 DEF Watch
    <2> QED BY <1>2, <2>1 DEF CursorOK
<1>3. WatchesOK'
    <2>1. ring.previous \in Seq(Watch)
        BY DEF TypeOK
    <2>2. CursorOK(ring.previous, ring.cursor, ring.bound)'
        BY <1>2, <2>1 DEF WatchesOK, CursorOK
    <2>3. \A i \in 1 .. Len(ring.current) : ring.current[i].tick \in Nat /\ ring.current[i].tick <= tick'
        BY <1>1, WatchType DEF WatchesOK
    <2>4. \A i \in 1 .. Len(ring.previous) : ring.previous[i].tick <= tick'
        BY <1>1, WatchType DEF WatchesOK
    <2> QED BY <2>2, <2>3, <2>4 DEF WatchesOK
<1>4. MapOK'
    <2>1. CASE map' = map /\ map.pc = "wait"
        <3>1. Watches \in Seq(Watch) /\ Watches' = Watches
            BY <2>1 DEF TypeOK, Watches
        <3>2. CursorOK(Watches, map.cursor, map.bound)'
            BY <1>2, <2>1, <3>1 DEF MapOK, CursorOK
        <3> QED BY <2>1, <3>2 DEF MapOK
    <2>2. CASE map' = [pc |-> "idle"] \/ (map' = map /\ map.pc # "wait")
        BY <2>2 DEF MapOK
    <2> QED BY <2>1, <2>2
<1>5. RegionsGuarded'
    <2> SUFFICES ASSUME NEW q \in Timely'
                 PROVE  \/ q.hi <= ring.offset /\ Guards(ring.current, q)
                        \/ Guards(ring.previous, q)
        BY DEF RegionsGuarded, Guards
    <2>1. PICK p \in Timely : p.lo = q.lo /\ p.hi = q.hi /\ p.stamp = q.stamp
        OBVIOUS
    <2> QED BY <2>1 DEF RegionsGuarded, Guards
<1>6. RegionFree'
    BY DEF RegionFree
<1> QED BY <1>3, <1>4, <1>5, <1>6

\* The steps that leave the ring alone.
LEMMA SubmissionKeeps ==
    ASSUME IInv, WaitSubmits \/ Submit
    PROVE  IInv'
<1> USE DEF IInv
<1>1. tick' = tick + 1 /\ UNCHANGED <<ring, map, done, prepared, inFlight>>
    BY DEF WaitSubmits, Submit
<1>2. TypeOK' /\ TimelineOK' /\ tick <= tick'
    BY <1>1 DEF TypeOK, TimelineOK, Region
<1>3. \A t \in Nat : Settled(t) => Settled(t)'
    BY <1>1 DEF Settled
<1>4. ASSUME NEW q \in Timely'
      PROVE  q \in Timely
    <2>1. CASE q \in inFlight
        BY <1>1, <2>1 DEF Timely, TypeOK, TimelineOK, Region
    <2>2. CASE q \in prepared /\ q.stamp = tick + 1
        BY <2>2 DEF TypeOK, TimelineOK, Region
    <2> QED BY <1>1, <2>1, <2>2 DEF Timely
<1> QED BY <1>1, <1>2, <1>3, <1>4, OthersKeep

LEMMA RecordKeeps ==
    ASSUME IInv, Record
    PROVE  IInv'
<1> USE DEF IInv
<1> DEFINE recorded(p) == [lo |-> p.lo, hi |-> p.hi, stamp |-> p.stamp, tick |-> tick]
<1>1. /\ UNCHANGED <<ring, map, tick, done>> /\ prepared' = {}
      /\ inFlight' = inFlight \cup {recorded(p) : p \in prepared}
    BY DEF Record
<1>2. ASSUME NEW p \in prepared
      PROVE  recorded(p) \in [lo : 0 .. RingSize, hi : 0 .. RingSize, stamp : Nat, tick : Nat]
    BY DEF TypeOK, Region
<1>3. TypeOK' /\ TimelineOK' /\ tick <= tick'
    BY <1>1, <1>2 DEF TypeOK, TimelineOK
<1>4. \A t \in Nat : Settled(t) => Settled(t)'
    BY <1>1 DEF Settled, TimelineOK, TypeOK
<1>5. ASSUME NEW q \in Timely'
      PROVE  \E p \in Timely : p.lo = q.lo /\ p.hi = q.hi /\ p.stamp = q.stamp
    <2>1. CASE q \in inFlight
        BY <1>1, <2>1 DEF Timely
    <2>2. ASSUME NEW p \in prepared, q = recorded(p)
          PROVE  p \in Timely /\ p.lo = q.lo /\ p.hi = q.hi /\ p.stamp = q.stamp
        BY <1>1, <2>2 DEF Timely
    <2> QED BY <1>1, <2>1, <2>2 DEF Timely
<1> QED BY <1>1, <1>3, <1>4, <1>5, OthersKeep

LEMMA CompletionKeeps ==
    ASSUME IInv, DeviceCompletes \/ \E p \in inFlight : PriorityOperation(p)
    PROVE  IInv'
<1> USE DEF IInv
<1>1. /\ UNCHANGED <<ring, map, tick, prepared>> /\ inFlight' \subseteq inFlight
      /\ done' \in Nat /\ done <= done' /\ done' < tick
      /\ ~ring.download => \A p \in inFlight' : p.tick > done'
    BY DEF DeviceCompletes, PriorityOperation, TypeOK, TimelineOK
<1>2. TypeOK' /\ TimelineOK' /\ tick <= tick'
    BY <1>1 DEF TypeOK, TimelineOK
<1>3. \A t \in Nat : Settled(t) => Settled(t)'
    BY <1>1 DEF Settled, TypeOK
<1>4. ASSUME NEW q \in Timely'
      PROVE  q \in Timely
    BY <1>1 DEF Timely
<1> QED BY <1>1, <1>2, <1>3, <1>4, OthersKeep

LEMMA GivingUpKeeps ==
    ASSUME IInv, MapRefused \/ Abandon \/ UNCHANGED ringVars
    PROVE  IInv'
<1> USE DEF IInv
<1>1. /\ UNCHANGED <<ring, tick, done, prepared, inFlight>>
      /\ map' = map \/ map' = [pc |-> "idle"]
    BY DEF MapRefused, Abandon, ringVars
<1>2. TypeOK' /\ TimelineOK' /\ tick <= tick'
    BY <1>1 DEF TypeOK, TimelineOK
<1>3. \A t \in Nat : Settled(t) => Settled(t)'
    BY <1>1 DEF Settled
<1>4. Timely' = Timely
    BY <1>1 DEF Timely
<1> QED BY <1>1, <1>2, <1>3, <1>4, OthersKeep

-----------------------------------------------------------------------------
\* The inductive invariant of the ring (StreamBuffer::Map, Commit and
\* WaitPendingOperations).
THEOREM RingInvariant ==
    ASSUME StreamBufferAssumption
    PROVE  Spec => []IInv
<1>1. Init => IInv
    BY InitHolds
<1>2. ASSUME IInv, [Next]_ringVars
      PROVE  IInv'
    <2>1. CASE UNCHANGED ringVars
        BY <1>2, <2>1, GivingUpKeeps
    <2>2. ASSUME NEW request \in Requests, NEW alignment \in Alignments,
                 NEW allow_wait \in BOOLEAN, MapBegin(request, alignment, allow_wait)
          PROVE  IInv'
        BY <1>2, <2>2, BeginKeeps
    <2>3. CASE WatchPassed
        BY <1>2, <2>3, PassedKeeps
    <2>4. CASE MapReturns
        BY <1>2, <2>4, ReturnKeeps
    <2>5. CASE Commit
        BY <1>2, <2>5, CommitKeeps
    <2>6. CASE MapRefused \/ Abandon
        BY <1>2, <2>6, GivingUpKeeps
    <2>7. CASE Record
        BY <1>2, <2>7, RecordKeeps
    <2>8. CASE WaitSubmits \/ Submit
        BY <1>2, <2>8, SubmissionKeeps
    <2>9. CASE DeviceCompletes \/ \E p \in inFlight : PriorityOperation(p)
        BY <1>2, <2>9, CompletionKeeps
    <2> QED BY <1>2, <2>1, <2>2, <2>3, <2>4, <2>5, <2>6, <2>7, <2>8, <2>9 DEF Next, MapLoop
<1> QED BY <1>1, <1>2, PTL DEF Spec

\* Regions begin and end between atoms.
AtomInv ==
    /\ Divides(Atom, ring.offset)
    /\ map.pc = "wait" => Divides(Atom, map.lo) /\ Divides(Atom, map.size)
    /\ map.pc = "mapped" => Divides(Atom, ring.mapped)
    /\ AtomsApart

LEMMA AtomsKept ==
    ASSUME StreamBufferAssumption, IInv, AtomInv, [Next]_ringVars
    PROVE  AtomInv'
<1> USE DEF AtomInv
<1>0. Atom \in Nat \ {0} /\ ring.offset \in Nat /\ ring.mapped \in Nat
    BY DEF StreamBufferAssumption, IInv, TypeOK
<1>1. ASSUME NEW request \in Requests, NEW alignment \in Alignments,
             NEW allow_wait \in BOOLEAN, MapBegin(request, alignment, allow_wait)
      PROVE  AtomInv'
    <2>1. Divides(Atom, Rounded(request))
        BY <1>0, AlignUpDivides DEF Rounded, StreamBufferAssumption
    <2>2. Divides(Atom, AlignUp(ring.offset, Joint(alignment)))
        <3>1. Joint(alignment) \in Nat \ {0} /\ Divides(Atom, Joint(alignment))
            BY JointType
        <3>2. /\ AlignUp(ring.offset, Joint(alignment)) \in Nat
              /\ Divides(Joint(alignment), AlignUp(ring.offset, Joint(alignment)))
            BY <1>0, <3>1, AlignUpUp, AlignUpDivides
        <3> QED BY <1>0, <3>1, <3>2, DividesTransitive
    <2>3. Divides(Atom, 0)
        BY <1>0, MultipleDivides
    <2>4. /\ map'.size = Rounded(request) /\ map'.pc = "wait"
          /\ map'.lo = 0 \/ map'.lo = AlignUp(ring.offset, Joint(alignment))
          /\ UNCHANGED <<ring, prepared, inFlight>>
        BY <1>1 DEF MapBegin
    <2> QED BY <2>1, <2>2, <2>3, <2>4 DEF AtomsApart
<1>2. CASE WatchPassed \/ MapRefused \/ WaitSubmits \/ Submit \/ UNCHANGED ringVars \/ Abandon
    <2>1. UNCHANGED <<ring, prepared, inFlight>>
        BY <1>2 DEF WatchPassed, MapRefused, WaitSubmits, Submit, ringVars, Abandon
    <2>2. \/ map' = map \/ map' = [pc |-> "idle"]
          \/ map'.pc = map.pc /\ map'.lo = map.lo /\ map'.size = map.size
        BY <1>2 DEF WatchPassed, MapRefused, WaitSubmits, Submit, ringVars, Abandon, IInv, TypeOK
    <2> QED BY <2>1, <2>2 DEF AtomsApart
<1>3. CASE MapReturns
    <2>1. /\ ring'.offset = map.lo /\ ring'.mapped = map.size /\ map.pc = "wait"
          /\ map' = [pc |-> "mapped"] /\ UNCHANGED <<prepared, inFlight>>
        BY <1>3 DEF MapReturns, MappedRing, IInv, TypeOK
    <2> QED BY <2>1 DEF AtomsApart
<1>4. CASE Commit
    <2> DEFINE past == ring.offset + ring.mapped
    <2>1. Divides(Atom, past)
        BY <1>0, <1>4, SumDivides DEF Commit
    <2>2. /\ ring'.offset = past /\ map' = [pc |-> "idle"] /\ UNCHANGED inFlight
          /\ prepared' = prepared \cup {[lo |-> ring.offset, hi |-> past, stamp |-> tick]}
        BY <1>4 DEF Commit, IInv, TypeOK
    <2> QED BY <2>1, <2>2 DEF AtomsApart
<1>5. CASE Record
    <2>1. /\ UNCHANGED <<ring, map>> /\ prepared' = {}
          /\ \A q \in inFlight' :
                q \in inFlight \/ \E p \in prepared : p.lo = q.lo /\ p.hi = q.hi
        BY <1>5 DEF Record
    <2> QED BY <2>1 DEF AtomsApart
<1>6. CASE DeviceCompletes \/ \E p \in inFlight : PriorityOperation(p)
    <2>1. UNCHANGED <<ring, map, prepared>> /\ inFlight' \subseteq inFlight
        BY <1>6 DEF DeviceCompletes, PriorityOperation
    <2> QED BY <2>1 DEF AtomsApart
<1> QED BY <1>1, <1>2, <1>3, <1>4, <1>5, <1>6 DEF Next, MapLoop

\* A stream buffer is sound: no region that Map hands out has a byte of one still
\* in use, and no two regions share an atom of memory that is not coherent.
THEOREM RingCorrect ==
    ASSUME StreamBufferAssumption
    PROVE  Spec => []RingSound
<1>1. Init => AtomInv
    <2>1. Atom \in Nat \ {0}
        BY DEF StreamBufferAssumption
    <2>2. Divides(Atom, 0)
        BY <2>1, MultipleDivides
    <2>3. ASSUME Init
          PROVE  ring.offset = 0 /\ map = [pc |-> "idle"] /\ prepared = {} /\ inFlight = {}
        BY <2>3 DEF Init
    <2> QED BY <2>2, <2>3 DEF AtomInv, AtomsApart
<1>2. IInv /\ AtomInv /\ [Next]_ringVars => AtomInv'
    BY AtomsKept
<1>3. IInv /\ AtomInv => RingSound
    BY DEF IInv, AtomInv, RingSound
<1> QED BY <1>1, <1>2, <1>3, RingInvariant, PTL DEF Spec

-----------------------------------------------------------------------------
(* The command schedulers. *)

CallType == [call : Device!Calls, on : Device!Schedulers, tick : Nat]

Is(c, call, s) == c.call = call /\ c.on = s
Begins(q, s) == \E i \in DOMAIN q : Is(q[i], "begin", s)

\* In a list of calls, who submits begins a buffer later, who has shut down does
\* not, and operations are popped at once.
Ordered(q) ==
    \A i \in DOMAIN q :
        /\ q[i].call = "submit" => \E j \in DOMAIN q : i < j /\ Is(q[j], "begin", q[i].on)
        /\ q[i].call = "shutdown" => \A j \in DOMAIN q : i < j => ~Is(q[j], "begin", q[i].on)
        /\ q[i].call = "pop" => i = 1

CallsOK ==
    /\ Ordered(todo)
    /\ \A i \in DOMAIN todo : todo[i].call = "shutdown" => down
    /\ \A s \in Device!Schedulers : Device!Doing("pop", s) => pending[s] # <<>>

\* Operations are queued on a scheduler that is used, under ticks taken so far,
\* and it has a buffer, or will have one when the present call is over.
QueuesOK ==
    /\ slice # None => active[slice]
    /\ \A s \in Device!Schedulers :
        /\ active[s] => recording # None
        /\ pending[s] # <<>> => active[s]
        /\ \A i \in DOMAIN pending[s] : pending[s][i].tick <= current
        /\ hint[s] > 0
        /\ state[s] # "open" => down
        /\ state[s] = "open" /\ active[s] /\ open[s] = 0 => Begins(todo, s)

\* A list of calls begins with these.
Ahead(q, s, calls) ==
    /\ Len(calls) <= Len(q)
    /\ \A i \in DOMAIN calls : Is(q[i], calls[i], s)
UpTo(s, last) == \A i \in DOMAIN pending[s] : pending[s][i].tick <= last

\* How far Shutdown has come: it waits for the last tick, reads the counter, pops
\* every operation, drains the priority queue, closes.
ShutdownOK ==
    \A s \in Device!Schedulers : state[s] = "draining" =>
        \/ Ahead(todo, s, <<"wait", "refresh", "drain", "close">>) /\ UpTo(s, Head(todo).tick)
        \/ Ahead(todo, s, <<"refresh", "drain", "close">>) /\ UpTo(s, complete)
        \/ Ahead(todo, s, <<"pop", "drain", "close">>) /\ UpTo(s, known)
        \/ Ahead(todo, s, <<"drain", "close">>) /\ pending[s] = <<>>
        \/ Ahead(todo, s, <<"close">>) /\ pending[s] = <<>> /\ priority[s] = <<>> /\ running[s] = None

\* Who is to close is shutting down, and no two are.
CloseOK ==
    \A i \in DOMAIN todo : todo[i].call = "close" =>
        /\ state[todo[i].on] = "draining"
        /\ \A j \in DOMAIN todo : todo[j].call = "close" => j = i

SchedulerInv ==
    Device!TypeOK /\ Device!ClosesEmpty /\ CallsOK /\ QueuesOK /\ ShutdownOK /\ CloseOK

LEMMA AheadEach ==
    ASSUME NEW q \in Seq(CallType), NEW s, NEW a, NEW b, NEW c, NEW d
    PROVE  /\ Ahead(q, s, <<a, b, c, d>>) <=>
                 /\ 4 <= Len(q) /\ Is(q[1], a, s) /\ Is(q[2], b, s)
                 /\ Is(q[3], c, s) /\ Is(q[4], d, s)
           /\ Ahead(q, s, <<a, b, c>>) <=>
                 3 <= Len(q) /\ Is(q[1], a, s) /\ Is(q[2], b, s) /\ Is(q[3], c, s)
           /\ Ahead(q, s, <<a, b>>) <=> 2 <= Len(q) /\ Is(q[1], a, s) /\ Is(q[2], b, s)
           /\ Ahead(q, s, <<a>>) <=> 1 <= Len(q) /\ Is(q[1], a, s)
<1>1. /\ DOMAIN <<a, b, c, d>> = {1, 2, 3, 4} /\ Len(<<a, b, c, d>>) = 4
      /\ <<a, b, c, d>>[1] = a /\ <<a, b, c, d>>[2] = b
      /\ <<a, b, c, d>>[3] = c /\ <<a, b, c, d>>[4] = d
    OBVIOUS
<1>2. /\ DOMAIN <<a, b, c>> = {1, 2, 3} /\ Len(<<a, b, c>>) = 3
      /\ <<a, b, c>>[1] = a /\ <<a, b, c>>[2] = b /\ <<a, b, c>>[3] = c
    OBVIOUS
<1>3. /\ DOMAIN <<a, b>> = {1, 2} /\ Len(<<a, b>>) = 2
      /\ <<a, b>>[1] = a /\ <<a, b>>[2] = b
    OBVIOUS
<1>4. DOMAIN <<a>> = {1} /\ Len(<<a>>) = 1 /\ <<a>>[1] = a
    OBVIOUS
<1>5. Ahead(q, s, <<a, b, c, d>>) <=>
         /\ 4 <= Len(q) /\ Is(q[1], a, s) /\ Is(q[2], b, s)
         /\ Is(q[3], c, s) /\ Is(q[4], d, s)
    BY <1>1 DEF Ahead
<1>6. Ahead(q, s, <<a, b, c>>) <=>
         3 <= Len(q) /\ Is(q[1], a, s) /\ Is(q[2], b, s) /\ Is(q[3], c, s)
    BY <1>2 DEF Ahead
<1>7. Ahead(q, s, <<a, b>>) <=> 2 <= Len(q) /\ Is(q[1], a, s) /\ Is(q[2], b, s)
    BY <1>3 DEF Ahead
<1>8. Ahead(q, s, <<a>>) <=> 1 <= Len(q) /\ Is(q[1], a, s)
    BY <1>4 DEF Ahead
<1> QED BY <1>5, <1>6, <1>7, <1>8

LEMMA ShutdownShapes ==
    ASSUME NEW q \in Seq(CallType), NEW s
    PROVE  /\ Ahead(q, s, <<"wait", "refresh", "drain", "close">>) <=>
                 /\ 4 <= Len(q) /\ Is(q[1], "wait", s) /\ Is(q[2], "refresh", s)
                 /\ Is(q[3], "drain", s) /\ Is(q[4], "close", s)
           /\ Ahead(q, s, <<"refresh", "drain", "close">>) <=>
                 /\ 3 <= Len(q) /\ Is(q[1], "refresh", s) /\ Is(q[2], "drain", s)
                 /\ Is(q[3], "close", s)
           /\ Ahead(q, s, <<"pop", "drain", "close">>) <=>
                 /\ 3 <= Len(q) /\ Is(q[1], "pop", s) /\ Is(q[2], "drain", s)
                 /\ Is(q[3], "close", s)
           /\ Ahead(q, s, <<"drain", "close">>) <=>
                 2 <= Len(q) /\ Is(q[1], "drain", s) /\ Is(q[2], "close", s)
           /\ Ahead(q, s, <<"close">>) <=> 1 <= Len(q) /\ Is(q[1], "close", s)
BY AheadEach

\* A call that is over is replaced by the calls it has still to make.
LEMMA Continued ==
    ASSUME NEW q \in Seq(CallType), q # <<>>, NEW c \in Seq(CallType)
    PROVE  /\ c \o Tail(q) \in Seq(CallType)
           /\ Len(c \o Tail(q)) = Len(c) + Len(q) - 1
           /\ \A i \in 1 .. Len(c) : (c \o Tail(q))[i] = c[i]
           /\ \A i \in 2 .. Len(q) : (c \o Tail(q))[Len(c) + i - 1] = q[i]
           /\ \A i \in 1 .. Len(c) + Len(q) - 1 :
                 \/ i <= Len(c)
                 \/ i - Len(c) + 1 \in 2 .. Len(q) /\ (c \o Tail(q))[i] = q[i - Len(c) + 1]
<1>1. /\ Tail(q) \in Seq(CallType) /\ Len(Tail(q)) = Len(q) - 1 /\ Len(q) \in Nat \ {0}
      /\ \A i \in 1 .. Len(q) - 1 : Tail(q)[i] = q[i + 1]
    BY HeadTailProperties, EmptySeq, LenProperties
<1> DEFINE t == Tail(q)
           w == c \o t
<1> HIDE DEF t
<1>2. Len(c) \in Nat /\ t \in Seq(CallType)
    BY <1>1, LenProperties DEF t
<1>3. /\ w \in Seq(CallType) /\ Len(w) = Len(c) + Len(t)
      /\ \A i \in 1 .. Len(c) + Len(t) : w[i] = IF i <= Len(c) THEN c[i] ELSE t[i - Len(c)]
    BY <1>2, ConcatProperties
<1> HIDE DEF w
<1>4. Len(t) = Len(q) - 1 /\ \A i \in 1 .. Len(q) - 1 : t[i] = q[i + 1]
    BY <1>1 DEF t
<1>5. ASSUME NEW i \in 1 .. Len(c) PROVE w[i] = c[i]
    <2>1. i \in 1 .. Len(c) + Len(t) /\ i <= Len(c)
        BY <1>1, <1>2, <1>4
    <2> QED BY <1>3, <2>1
<1>6. ASSUME NEW i \in 2 .. Len(q) PROVE w[Len(c) + i - 1] = q[i]
    <2>1. Len(c) + i - 1 \in 1 .. Len(c) + Len(t) /\ ~(Len(c) + i - 1 <= Len(c))
        BY <1>1, <1>2, <1>4
    <2>2. w[Len(c) + i - 1] = t[Len(c) + i - 1 - Len(c)]
        BY <1>3, <2>1
    <2>3. Len(c) + i - 1 - Len(c) = i - 1 /\ i - 1 \in 1 .. Len(q) - 1 /\ (i - 1) + 1 = i
        BY <1>1, <1>2
    <2> QED BY <1>4, <2>2, <2>3
<1>7. ASSUME NEW i \in 1 .. Len(c) + Len(q) - 1, ~(i <= Len(c))
      PROVE  i - Len(c) + 1 \in 2 .. Len(q) /\ w[i] = q[i - Len(c) + 1]
    <2>1. i - Len(c) + 1 \in 2 .. Len(q) /\ Len(c) + (i - Len(c) + 1) - 1 = i
        BY <1>1, <1>2, <1>7
    <2> QED BY <1>6, <2>1
<1> QED BY <1>3, <1>4, <1>5, <1>6, <1>7 DEF w, t

\* An ordered list of calls stays ordered.
LEMMA OrderedContinued ==
    ASSUME NEW q \in Seq(CallType), q # <<>>, NEW c \in Seq(CallType), Ordered(q), Ordered(c),
           \A i \in DOMAIN c : c[i].call # "shutdown"
    PROVE  Ordered(c \o Tail(q))
<1> DEFINE w == c \o Tail(q)
           n == Len(c)
           m == Len(q)
<1>1. /\ w \in Seq(CallType) /\ Len(w) = n + m - 1
      /\ \A i \in 1 .. n : w[i] = c[i]
      /\ \A i \in 2 .. m : w[n + i - 1] = q[i]
      /\ \A i \in 1 .. n + m - 1 : i <= n \/ (i - n + 1 \in 2 .. m /\ w[i] = q[i - n + 1])
    BY Continued
<1> HIDE DEF w
<1>2. n \in Nat /\ m \in Nat \ {0} /\ DOMAIN c = 1 .. n /\ DOMAIN q = 1 .. m
    BY EmptySeq, LenProperties
<1>3. DOMAIN w = 1 .. n + m - 1
    BY <1>1, LenProperties
<1> HIDE DEF n, m
<1>4. ASSUME NEW i \in 1 .. n
      PROVE  /\ w[i].call = "submit" => \E j \in DOMAIN w : i < j /\ Is(w[j], "begin", w[i].on)
             /\ w[i].call # "shutdown"
             /\ w[i].call = "pop" => i = 1
    <2>1. ASSUME c[i].call = "submit" PROVE \E j \in DOMAIN w : i < j /\ Is(w[j], "begin", w[i].on)
        <3>1. PICK j \in 1 .. n : i < j /\ Is(c[j], "begin", c[i].on)
            BY <1>2, <2>1 DEF Ordered
        <3>2. j \in DOMAIN w /\ w[j] = c[j] /\ w[i] = c[i]
            BY <1>1, <1>2, <1>3
        <3> QED BY <3>1, <3>2
    <2> QED BY <1>1, <1>2, <2>1 DEF Ordered
<1>5. ASSUME NEW i \in 1 .. n + m - 1, ~(i <= n)
      PROVE  /\ w[i].call = "submit" => \E j \in DOMAIN w : i < j /\ Is(w[j], "begin", w[i].on)
             /\ w[i].call = "shutdown" => \A j \in DOMAIN w : i < j => ~Is(w[j], "begin", w[i].on)
             /\ w[i].call # "pop"
    <2> DEFINE k == i - n + 1
    <2>1. k \in 2 .. m /\ w[i] = q[k] /\ k # 1
        BY <1>1, <1>2, <1>5
    <2>2. ASSUME w[i].call = "submit" PROVE \E j \in DOMAIN w : i < j /\ Is(w[j], "begin", w[i].on)
        <3>1. PICK l \in 1 .. m : k < l /\ Is(q[l], "begin", q[k].on)
            BY <1>2, <2>1, <2>2 DEF Ordered
        <3>2. l \in 2 .. m /\ n + l - 1 \in 1 .. n + m - 1 /\ i < n + l - 1
            BY <1>2, <2>1, <3>1
        <3>3. w[n + l - 1] = q[l]
            BY <1>1, <3>2
        <3> QED BY <1>3, <2>1, <3>1, <3>2, <3>3
    <2>3. ASSUME w[i].call = "shutdown", NEW j \in DOMAIN w, i < j
          PROVE  ~Is(w[j], "begin", w[i].on)
        <3>1. j - n + 1 \in 2 .. m /\ w[j] = q[j - n + 1] /\ k < j - n + 1
            BY <1>1, <1>2, <1>3, <1>5, <2>3
        <3> QED BY <1>2, <2>1, <2>3, <3>1 DEF Ordered
    <2>4. w[i].call # "pop"
        BY <1>2, <2>1 DEF Ordered
    <2> QED BY <2>2, <2>3, <2>4
<1>6. Ordered(w)
    BY <1>2, <1>3, <1>4, <1>5 DEF Ordered
<1> QED BY <1>6 DEF w

\* What a submission does to the queues: it stamps, and moves nothing.
LEMMA Stamps ==
    ASSUME NEW q, q \in [Device!Schedulers -> Seq(Device!OpType)], NEW s \in Device!Schedulers,
           current \in Nat
    PROVE  /\ Device!StampedAll(q, s) \in [Device!Schedulers -> Seq(Device!OpType)]
           /\ \A r \in Device!Schedulers :
                 /\ DOMAIN Device!StampedAll(q, s)[r] = DOMAIN q[r]
                 /\ Device!StampedAll(q, s)[r] = <<>> <=> q[r] = <<>>
                 /\ \A i \in DOMAIN q[r] : Device!StampedAll(q, s)[r][i].tick = q[r][i].tick
<1>1. ASSUME NEW entry \in Device!OpType
      PROVE  Device!Stamped(entry, s) \in Device!OpType /\ Device!Stamped(entry, s).tick = entry.tick
    BY DEF Device!Stamped, Device!OpType
<1> DEFINE w == Device!StampedAll(q, s)
<1>2. ASSUME NEW r \in Device!Schedulers
      PROVE  /\ w[r] \in Seq(Device!OpType) /\ DOMAIN w[r] = DOMAIN q[r]
             /\ w[r] = <<>> <=> q[r] = <<>>
             /\ \A i \in DOMAIN q[r] : w[r][i].tick = q[r][i].tick
    <2> DEFINE n == Len(q[r])
    <2>1. n \in Nat /\ DOMAIN q[r] = 1 .. n /\ \A i \in 1 .. n : q[r][i] \in Device!OpType
        BY LenProperties
    <2>2. w[r] = [i \in 1 .. n |-> Device!Stamped(q[r][i], s)]
        BY <2>1 DEF Device!StampedAll
    <2> HIDE DEF w, n
    <2>3. \A i \in 1 .. n : Device!Stamped(q[r][i], s) \in Device!OpType
        BY <1>1, <2>1
    <2>4. w[r] \in Seq(Device!OpType) /\ Len(w[r]) = n /\ DOMAIN w[r] = 1 .. n
        BY <2>1, <2>2, <2>3, IsASeq, LenProperties
    <2>5. w[r] = <<>> <=> q[r] = <<>>
        BY <2>4, EmptySeq DEF n
    <2> QED BY <1>1, <2>1, <2>2, <2>4, <2>5
<1>3. w \in [Device!Schedulers -> Seq(Device!OpType)]
    BY <1>2 DEF Device!StampedAll
<1> QED BY <1>2, <1>3

\* One entry of a list of buffers changes.
LEMMA PoolEntry ==
    ASSUME NEW q, q \in Seq([tick : Nat, due : Nat]), NEW i, NEW e \in [tick : Nat, due : Nat],
           NEW d \in Nat
    PROVE  /\ [q EXCEPT ![i] = e] \in Seq([tick : Nat, due : Nat])
           /\ [q EXCEPT ![i].due = d] \in Seq([tick : Nat, due : Nat])
<1>1. Len(q) \in Nat /\ q \in [1 .. Len(q) -> [tick : Nat, due : Nat]]
    BY LenProperties
<1>2. /\ [q EXCEPT ![i] = e] \in [1 .. Len(q) -> [tick : Nat, due : Nat]]
      /\ [q EXCEPT ![i].due = d] \in [1 .. Len(q) -> [tick : Nat, due : Nat]]
    BY <1>1
<1> QED BY <1>1, <1>2, SeqDef

\* Submit
LEMMA Submitted ==
    ASSUME Device!TypeOK, NEW s \in Device!Schedulers, Device!Submit(s)
    PROVE  /\ current' = current + 1
           /\ open' = [open EXCEPT ![s] = 0]
           /\ pool' \in [Device!Schedulers -> Seq([tick : Nat, due : Nat])]
           /\ pending' \in [Device!Schedulers -> Seq(Device!OpType)]
           /\ priority' \in [Device!Schedulers -> Seq(Device!OpType)]
           /\ running' \in [Device!Schedulers -> Device!OpType \union {None}]
           /\ copy' \in Device!OpType \union {None}
           /\ \A r \in Device!Schedulers :
                 /\ DOMAIN pending'[r] = DOMAIN pending[r]
                 /\ pending'[r] = <<>> <=> pending[r] = <<>>
                 /\ \A i \in DOMAIN pending[r] : pending'[r][i].tick = pending[r][i].tick
                 /\ priority[r] = <<>> => priority'[r] = <<>>
                 /\ running[r] = None => running'[r] = None
<1> USE DEF Device!TypeOK
<1>1. current' = current + 1 /\ open' = [open EXCEPT ![s] = 0]
    BY DEF Device!Submit
<1>2. pool' \in [Device!Schedulers -> Seq([tick : Nat, due : Nat])]
    <2>1. [pool[s] EXCEPT ![open[s]].due = current] \in Seq([tick : Nat, due : Nat])
        BY PoolEntry, 0 \in Nat, [tick |-> 0, due |-> 0] \in [tick : Nat, due : Nat]
    <2>2. pool' = [pool EXCEPT ![s] = [@ EXCEPT ![open[s]].due = current]]
        BY DEF Device!Submit
    <2> QED BY <2>1, <2>2
<1>3. /\ pending' = Device!StampedAll(pending, s) /\ priority' = Device!StampedAll(priority, s)
      /\ running' = [r \in Device!Schedulers |-> Device!Stamped(running[r], s)]
      /\ copy' = Device!Stamped(copy, s)
    BY DEF Device!Submit
<1>4. \A entry \in Device!OpType \union {None} :
         Device!Stamped(entry, s) \in Device!OpType \union {None} /\ Device!Stamped(None, s) = None
    BY DEF Device!Stamped, Device!OpType
<1>5. running' \in [Device!Schedulers -> Device!OpType \union {None}]
    BY <1>3, <1>4
<1>6. \A r \in Device!Schedulers : running[r] = None => running'[r] = None
    BY <1>3, <1>4
<1>7. copy' \in Device!OpType \union {None}
    BY <1>3, <1>4
<1>8. /\ pending \in [Device!Schedulers -> Seq(Device!OpType)]
      /\ priority \in [Device!Schedulers -> Seq(Device!OpType)] /\ current \in Nat
    OBVIOUS
<1> HIDE DEF Device!TypeOK
<1>9. /\ pending' \in [Device!Schedulers -> Seq(Device!OpType)]
      /\ \A r \in Device!Schedulers :
            /\ DOMAIN pending'[r] = DOMAIN pending[r]
            /\ pending'[r] = <<>> <=> pending[r] = <<>>
            /\ \A i \in DOMAIN pending[r] : pending'[r][i].tick = pending[r][i].tick
    <2>1. LET w == Device!StampedAll(pending, s)
          IN  /\ w \in [Device!Schedulers -> Seq(Device!OpType)]
              /\ \A r \in Device!Schedulers :
                    /\ DOMAIN w[r] = DOMAIN pending[r]
                    /\ w[r] = <<>> <=> pending[r] = <<>>
                    /\ \A i \in DOMAIN pending[r] : w[r][i].tick = pending[r][i].tick
        BY <1>8, Stamps
    <2> QED BY <1>3, <2>1
<1>10. /\ priority' \in [Device!Schedulers -> Seq(Device!OpType)]
       /\ \A r \in Device!Schedulers : priority[r] = <<>> => priority'[r] = <<>>
    <2> DEFINE w == Device!StampedAll(priority, s)
    <2> HIDE DEF w
    <2>1. /\ w \in [Device!Schedulers -> Seq(Device!OpType)]
          /\ \A r \in Device!Schedulers : w[r] = <<>> <=> priority[r] = <<>>
        BY <1>8, Stamps DEF w
    <2> QED BY <1>3, <2>1 DEF w
<1> QED BY <1>1, <1>2, <1>5, <1>6, <1>7, <1>9, <1>10

\* The buffer that Commit takes has a number: a free one's, or the next.
LEMMA CommittedNumber ==
    ASSUME Device!TypeOK, NEW s \in Device!Schedulers, hint[s] > 0
    PROVE  /\ Device!Committed(s) \in Nat \ {0}
           /\ Device!Committed(s) \in Device!FirstFree(s) \/ Device!Committed(s) = Len(pool[s]) + 1
<1>1. Len(pool[s]) \in Nat /\ hint[s] \in Nat \ {0}
    BY LenProperties DEF Device!TypeOK
<1>2. Device!FirstFree(s) \subseteq Nat \ {0}
    BY <1>1 DEF Device!FirstFree, Device!AtHint, Device!Free
<1>3. CASE Device!FirstFree(s) # {}
    <2>1. \E n \in Device!FirstFree(s) : \A m \in Device!FirstFree(s) : n <= m
        BY <1>2, <1>3, LeastNatural
    <2>2. Device!Committed(s) = CHOOSE x \in Device!FirstFree(s) : \A y \in Device!FirstFree(s) : x <= y
        BY <1>3 DEF Device!Committed, Device!Min
    <2> QED BY <1>2, <2>1, <2>2
<1>4. CASE Device!FirstFree(s) = {}
    BY <1>1, <1>4 DEF Device!Committed
<1> QED BY <1>3, <1>4

\* While a scheduler shuts down, the present call is a part of its Shutdown.
LEMMA DrainingHead ==
    ASSUME SchedulerInv, NEW s \in Device!Schedulers, state[s] = "draining"
    PROVE  /\ todo # <<>> /\ Head(todo) = todo[1] /\ Head(todo).on = s
           /\ Head(todo).call \in {"wait", "refresh", "pop", "drain", "close"}
<1>1. todo \in Seq(CallType) /\ Len(todo) \in Nat
    BY LenProperties DEF SchedulerInv, Device!TypeOK, CallType
<1>2. /\ 1 <= Len(todo) /\ todo[1].on = s
      /\ todo[1].call \in {"wait", "refresh", "pop", "drain", "close"}
    <2>1. \/ Ahead(todo, s, <<"wait", "refresh", "drain", "close">>)
          \/ Ahead(todo, s, <<"refresh", "drain", "close">>)
          \/ Ahead(todo, s, <<"pop", "drain", "close">>)
          \/ Ahead(todo, s, <<"drain", "close">>)
          \/ Ahead(todo, s, <<"close">>)
        BY DEF SchedulerInv, ShutdownOK
    <2> QED BY <1>1, <2>1, ShutdownShapes DEF Is
<1>3. todo # <<>>
    BY <1>1, <1>2, EmptySeq
<1> QED BY <1>1, <1>2, <1>3, HeadTailProperties

\* Between calls of the GPU thread every scheduler is open, and one that is used
\* has a buffer.
LEMMA Rested ==
    ASSUME SchedulerInv, todo = <<>>, NEW s \in Device!Schedulers
    PROVE  state[s] # "draining" /\ (~down => state[s] = "open" /\ (active[s] => open[s] # 0))
<1>1. state[s] # "draining"
    BY DrainingHead
<1>2. DOMAIN todo = {}
    OBVIOUS
<1> QED BY <1>1, <1>2 DEF SchedulerInv, QueuesOK, Begins, Device!TypeOK

\* What the present call leaves to do.
LEMMA Goes ==
    ASSUME SchedulerInv, todo # <<>>, NEW c \in Seq(CallType), Ordered(c),
           \A i \in DOMAIN c : c[i].call # "shutdown",
           todo' = c \o Tail(todo), down' = down
    PROVE  /\ todo' \in Seq(CallType) /\ Ordered(todo')
           /\ \A i \in DOMAIN todo' : todo'[i].call = "shutdown" => down'
           /\ \A s \in Device!Schedulers :
                 /\ Begins(todo, s) /\ ~Is(Head(todo), "begin", s) => Begins(todo', s)
                 /\ Begins(c, s) => Begins(todo', s)
                 /\ todo' # <<>> /\ Head(todo').call = "pop" /\ Head(todo').on = s =>
                        c # <<>> /\ Is(c[1], "pop", s)
<1> DEFINE n == Len(c)
           m == Len(todo)
<1>1. todo \in Seq(CallType) /\ Ordered(todo)
    BY DEF SchedulerInv, Device!TypeOK, CallType, CallsOK
<1>2. /\ todo' \in Seq(CallType) /\ Len(todo') = n + m - 1
      /\ \A i \in 1 .. n : todo'[i] = c[i]
      /\ \A i \in 2 .. m : todo'[n + i - 1] = todo[i]
      /\ \A i \in 1 .. n + m - 1 : i <= n \/ (i - n + 1 \in 2 .. m /\ todo'[i] = todo[i - n + 1])
    BY <1>1, Continued
<1>3. n \in Nat /\ m \in Nat \ {0} /\ DOMAIN c = 1 .. n /\ DOMAIN todo = 1 .. m
      /\ DOMAIN todo' = 1 .. n + m - 1
    BY <1>1, <1>2, EmptySeq, LenProperties
<1>4. Ordered(todo')
    BY <1>1, OrderedContinued
<1>9. Head(todo) = todo[1] /\ (n = 0 <=> c = <<>>)
    BY <1>1, HeadTailProperties, EmptySeq
<1> HIDE DEF n, m
<1>5. ASSUME NEW i \in DOMAIN todo', todo'[i].call = "shutdown" PROVE down'
    <2>1. ~(i <= n)
        BY <1>2, <1>3, <1>5
    <2>2. i - n + 1 \in 1 .. m /\ todo'[i] = todo[i - n + 1]
        BY <1>2, <1>3, <2>1
    <2> QED BY <1>3, <1>5, <2>2 DEF SchedulerInv, CallsOK
<1>6. ASSUME NEW s \in Device!Schedulers, Begins(todo, s), ~Is(Head(todo), "begin", s)
      PROVE  Begins(todo', s)
    <2>1. PICK i \in 1 .. m : Is(todo[i], "begin", s)
        BY <1>3, <1>6 DEF Begins
    <2>2. i \in 2 .. m /\ n + i - 1 \in 1 .. n + m - 1
        BY <1>3, <1>6, <1>9, <2>1
    <2>3. todo'[n + i - 1] = todo[i]
        BY <1>2, <2>2
    <2> QED BY <1>3, <2>1, <2>2, <2>3 DEF Begins
<1>7. ASSUME NEW s \in Device!Schedulers, Begins(c, s) PROVE Begins(todo', s)
    <2>1. PICK i \in 1 .. n : Is(c[i], "begin", s)
        BY <1>3, <1>7 DEF Begins
    <2>2. i \in 1 .. n + m - 1
        BY <1>3
    <2> QED BY <1>2, <1>3, <2>1, <2>2 DEF Begins
<1>8. ASSUME NEW s \in Device!Schedulers, todo' # <<>>, Head(todo').call = "pop", Head(todo').on = s
      PROVE  c # <<>> /\ Is(c[1], "pop", s)
    <2>1. Head(todo') = todo'[1] /\ 1 \in 1 .. n + m - 1
        BY <1>2, <1>3, <1>8, HeadTailProperties, EmptySeq
    <2>2. CASE n = 0
        <3>1. 2 \in 1 .. m /\ todo'[1] = todo[2]
            BY <1>2, <1>3, <2>1, <2>2
        <3>2. todo[2].call = "pop" => 2 = 1
            BY <1>1, <1>3, <3>1 DEF Ordered
        <3> QED BY <1>8, <2>1, <3>1, <3>2
    <2>3. CASE n # 0
        BY <1>2, <1>3, <1>8, <1>9, <2>1, <2>3 DEF Is
    <2> QED BY <2>2, <2>3
<1> QED BY <1>2, <1>4, <1>5, <1>6, <1>7, <1>8

LEMMA ClosesOnce ==
    ASSUME SchedulerInv, todo # <<>>, NEW c \in Seq(CallType), \A i \in DOMAIN c : c[i].call # "close",
           todo' = c \o Tail(todo),
           Head(todo).call # "close" =>
              \A s \in Device!Schedulers : state[s] = "draining" => state'[s] = "draining"
    PROVE  CloseOK'
<1> DEFINE n == Len(c)
           m == Len(todo)
<1>1. todo \in Seq(CallType)
    BY DEF SchedulerInv, Device!TypeOK, CallType
<1>2. /\ todo' \in Seq(CallType) /\ Len(todo') = n + m - 1
      /\ \A i \in 1 .. n : todo'[i] = c[i]
      /\ \A i \in 1 .. n + m - 1 : i <= n \/ (i - n + 1 \in 2 .. m /\ todo'[i] = todo[i - n + 1])
    BY <1>1, Continued
<1>3. /\ n \in Nat /\ m \in Nat \ {0} /\ DOMAIN c = 1 .. n /\ DOMAIN todo = 1 .. m
      /\ DOMAIN todo' = 1 .. n + m - 1 /\ Head(todo) = todo[1]
    BY <1>1, <1>2, EmptySeq, LenProperties, HeadTailProperties
<1> HIDE DEF n, m
<1>4. ASSUME NEW i \in DOMAIN todo', todo'[i].call = "close"
      PROVE  i - n + 1 \in 2 .. m /\ todo'[i] = todo[i - n + 1]
    BY <1>2, <1>3, <1>4
<1>5. ASSUME NEW i \in DOMAIN todo', todo'[i].call = "close"
      PROVE  state'[todo'[i].on] = "draining"
    <2>1. i - n + 1 \in 1 .. m /\ i - n + 1 # 1 /\ todo'[i] = todo[i - n + 1]
        BY <1>3, <1>4, <1>5
    <2>2. state[todo'[i].on] = "draining"
        BY <1>3, <1>5, <2>1 DEF SchedulerInv, CloseOK
    <2>3. Head(todo).call # "close"
        <3>1. 1 \in DOMAIN todo
            BY <1>3
        <3> QED BY <1>3, <1>5, <2>1, <3>1 DEF SchedulerInv, CloseOK
    <2>4. todo'[i].on \in Device!Schedulers
        <3>1. todo'[i] \in CallType
            BY <1>2, <1>5
        <3> QED BY <3>1 DEF CallType
    <2> QED BY <2>2, <2>3, <2>4
<1>6. ASSUME NEW i \in DOMAIN todo', todo'[i].call = "close",
             NEW j \in DOMAIN todo', todo'[j].call = "close"
      PROVE  j = i
    <2>1. /\ i - n + 1 \in 1 .. m /\ todo'[i] = todo[i - n + 1]
          /\ j - n + 1 \in 1 .. m /\ todo'[j] = todo[j - n + 1]
        <3>1. i - n + 1 \in 2 .. m /\ todo'[i] = todo[i - n + 1]
            BY <1>4, <1>6
        <3>2. j - n + 1 \in 2 .. m /\ todo'[j] = todo[j - n + 1]
            BY <1>4, <1>6
        <3> QED BY <1>3, <3>1, <3>2
    <2>2. j - n + 1 = i - n + 1
        BY <1>3, <1>6, <2>1 DEF SchedulerInv, CloseOK
    <2> QED BY <1>3, <2>2
<1> QED BY <1>5, <1>6 DEF CloseOK

\* The list moves on by one call.
LEMMA Advanced ==
    ASSUME todo \in Seq(CallType), todo # <<>>, todo' = <<>> \o Tail(todo)
    PROVE  /\ Len(todo') = Len(todo) - 1
           /\ \A i \in 1 .. Len(todo) - 1 : todo'[i] = todo[i + 1]
           /\ Len(todo') > 0 => Head(todo') = todo[2]
<1>1. /\ Tail(todo) \in Seq(CallType) /\ Len(Tail(todo)) = Len(todo) - 1
      /\ \A i \in 1 .. Len(todo) - 1 : Tail(todo)[i] = todo[i + 1]
    BY HeadTailProperties
<1>2. todo' = Tail(todo) /\ Len(todo) \in Nat \ {0}
    BY <1>1, ConcatEmptySeq, EmptySeq, LenProperties
<1>3. Len(todo') > 0 => Head(todo') = todo'[1]
    BY <1>1, <1>2, EmptySeq, HeadTailProperties
<1> QED BY <1>1, <1>2, <1>3

\* A call that no Shutdown makes is over: what is left to show of the invariant.
LEMMA CallKeeps ==
    ASSUME SchedulerInv, todo # <<>>,
           Head(todo).call \notin {"wait", "refresh", "pop", "drain", "close"},
           NEW c \in Seq(CallType), Ordered(c),
           \A i \in DOMAIN c : c[i].call \notin {"shutdown", "pop", "close"},
           todo' = c \o Tail(todo), UNCHANGED <<state, active, slice, recording, down>>,
           Device!TypeOK',
           \A s \in Device!Schedulers :
              /\ pending'[s] = <<>> <=> pending[s] = <<>>
              /\ \A i \in DOMAIN pending'[s] : pending'[s][i].tick <= current'
              /\ priority[s] = <<>> => priority'[s] = <<>>
              /\ running[s] = None => running'[s] = None
              /\ hint'[s] > 0
              /\ state[s] = "open" /\ active[s] /\ open'[s] = 0 => Begins(todo', s)
    PROVE  SchedulerInv'
<1>1. \A s \in Device!Schedulers : state[s] # "draining"
    BY DrainingHead
<1>2. /\ Ordered(todo')
      /\ \A i \in DOMAIN todo' : todo'[i].call = "shutdown" => down'
      /\ \A s \in Device!Schedulers :
            todo' # <<>> /\ Head(todo').call = "pop" /\ Head(todo').on = s =>
                        c # <<>> /\ Is(c[1], "pop", s)
    BY Goes
<1>3. c # <<>> => 1 \in DOMAIN c
    BY EmptySeq, LenProperties
<1>4. CallsOK'
    BY <1>2, <1>3 DEF CallsOK, Is, Device!Doing
<1>5. QueuesOK'
    BY DEF SchedulerInv, QueuesOK
<1>6. Device!ClosesEmpty'
    BY DEF SchedulerInv, Device!ClosesEmpty
<1>7. ShutdownOK'
    BY <1>1 DEF ShutdownOK
<1>8. CloseOK'
    BY ClosesOnce
<1> QED BY <1>4, <1>5, <1>6, <1>7, <1>8 DEF SchedulerInv

LEMMA SubmitKeeps ==
    ASSUME SchedulerInv, NEW s \in Device!Schedulers, Device!SubmitCall(s)
    PROVE  SchedulerInv'
<1>1. /\ todo # <<>> /\ Head(todo).call = "submit" /\ Head(todo).on = s
      /\ todo' = <<>> \o Tail(todo) /\ Device!Submit(s)
      /\ UNCHANGED <<known, complete, hint, state, recording, active, slice, progressed, down,
                     asyncCompute>>
    BY DEF Device!SubmitCall, Device!Doing, Device!ThenDo, Device!thread
<1>2. Device!TypeOK
    BY DEF SchedulerInv
<1>3. /\ current' = current + 1
      /\ open' = [open EXCEPT ![s] = 0]
      /\ pool' \in [Device!Schedulers -> Seq([tick : Nat, due : Nat])]
      /\ pending' \in [Device!Schedulers -> Seq(Device!OpType)]
      /\ priority' \in [Device!Schedulers -> Seq(Device!OpType)]
      /\ running' \in [Device!Schedulers -> Device!OpType \union {None}]
      /\ copy' \in Device!OpType \union {None}
      /\ \A r \in Device!Schedulers :
            /\ DOMAIN pending'[r] = DOMAIN pending[r]
            /\ pending'[r] = <<>> <=> pending[r] = <<>>
            /\ \A i \in DOMAIN pending[r] : pending'[r][i].tick = pending[r][i].tick
            /\ priority[r] = <<>> => priority'[r] = <<>>
            /\ running[r] = None => running'[r] = None
    BY <1>1, <1>2, Submitted
<1>4. <<>> \in Seq(CallType) /\ Ordered(<<>>) /\ DOMAIN <<>> = {}
    BY DEF Ordered
<1>5. /\ todo' \in Seq(CallType)
      /\ \A r \in Device!Schedulers : Begins(todo, r) /\ ~Is(Head(todo), "begin", r) => Begins(todo', r)
    BY <1>1, <1>4, Goes
<1>6. Device!TypeOK'
    <2>1. current' \in Nat /\ complete' < current' /\ open' \in [Device!Schedulers -> Nat]
        BY <1>1, <1>2, <1>3 DEF Device!TypeOK
    <2> QED BY <1>1, <1>2, <1>3, <1>5, <2>1 DEF Device!TypeOK, CallType
<1>7. Begins(todo, s)
    <2>1. 1 \in DOMAIN todo /\ Head(todo) = todo[1]
        BY <1>1, <1>2, EmptySeq, LenProperties, HeadTailProperties DEF Device!TypeOK
    <2>2. \E j \in DOMAIN todo : Is(todo[j], "begin", s)
        BY <1>1, <2>1 DEF SchedulerInv, CallsOK, Ordered
    <2> QED BY <2>2 DEF Begins
<1>8. \A r \in Device!Schedulers : state[r] = "open" /\ active[r] /\ open'[r] = 0 => Begins(todo', r)
    <2>1. ASSUME NEW r \in Device!Schedulers, state[r] = "open", active[r], open'[r] = 0, r # s
          PROVE  Begins(todo', r)
        <3>1. open[r] = 0
            BY <1>2, <1>3, <2>1 DEF Device!TypeOK
        <3> QED BY <1>1, <1>5, <2>1, <3>1 DEF SchedulerInv, QueuesOK, Is
    <2> QED BY <1>1, <1>5, <1>7, <2>1 DEF Is
<1>9. \A r \in Device!Schedulers : \A i \in DOMAIN pending'[r] : pending'[r][i].tick <= current'
    <2> SUFFICES ASSUME NEW r \in Device!Schedulers, NEW i \in DOMAIN pending[r]
                 PROVE  pending[r][i].tick <= current'
        BY <1>3
    <2>1. pending[r][i] \in Device!OpType /\ current \in Nat
        BY <1>2 DEF Device!TypeOK
    <2>2. pending[r][i].tick \in Nat /\ pending[r][i].tick <= current
        BY <2>1 DEF SchedulerInv, QueuesOK, Device!OpType
    <2> QED BY <1>3, <2>1, <2>2
<1> QED BY <1>1, <1>3, <1>4, <1>6, <1>8, <1>9, CallKeeps DEF SchedulerInv, QueuesOK

LEMMA BeginCommandKeeps ==
    ASSUME SchedulerInv, Device!CommandSchedulerAssumption,
           NEW s \in Device!Schedulers, Device!BeginCommand(s)
    PROVE  SchedulerInv'
<1>1. /\ todo # <<>> /\ Head(todo).call = "begin" /\ Head(todo).on = s
      /\ todo' = <<>> \o Tail(todo)
      /\ UNCHANGED <<current, complete, pending, priority, running, state, recording, active, slice,
                     progressed, down, asyncCompute, copy>>
    BY DEF Device!BeginCommand, Device!Doing, Device!ThenDo, Device!thread, Device!queues
<1>2. Device!TypeOK
    BY DEF SchedulerInv
<1> DEFINE Buffer == [tick : Nat, due : Nat]
<1>3. Device!Committed(s) \in Nat \ {0}
    BY <1>2, CommittedNumber DEF SchedulerInv, QueuesOK
<1>4. Device!Grown(s) \in Seq(Buffer)
    <2>1. pool[s] \in Seq(Buffer) /\ GrowStep \in Nat
        BY <1>2 DEF Device!TypeOK, Device!CommandSchedulerAssumption
    <2>2. [i \in 1 .. GrowStep |-> [tick |-> 0, due |-> 0]] \in Seq(Buffer)
        BY <2>1, IsASeq
    <2>3. pool[s] \o [i \in 1 .. GrowStep |-> [tick |-> 0, due |-> 0]] \in Seq(Buffer)
        BY <2>1, <2>2, ConcatProperties
    <2> QED BY <2>1, <2>3 DEF Device!Grown
<1>5. pool' \in [Device!Schedulers -> Seq(Buffer)]
    <2>1. [tick |-> current, due |-> 0] \in Buffer
        BY <1>2 DEF Device!TypeOK
    <2>2. [Device!Grown(s) EXCEPT ![Device!Committed(s)] = [tick |-> current, due |-> 0]] \in Seq(Buffer)
        BY <1>4, <2>1, PoolEntry
    <2> QED BY <1>2, <2>2 DEF Device!BeginCommand, Device!TypeOK
<1>6. /\ open' = [open EXCEPT ![s] = Device!Committed(s)]
      /\ \E n \in Nat \ {0} : hint' = [hint EXCEPT ![s] = n]
      /\ known' = known \/ known' = complete
    <2> DEFINE n == IF Device!Committed(s) = Len(Device!Grown(s)) THEN 1
                    ELSE Device!Committed(s) + 1
    <2>1. n \in Nat \ {0}
        BY <1>3
    <2>2. hint' = [hint EXCEPT ![s] = n] /\ open' = [open EXCEPT ![s] = Device!Committed(s)]
        BY DEF Device!BeginCommand
    <2>3. known' = known \/ known' = complete
        BY DEF Device!BeginCommand
    <2> HIDE DEF n
    <2> QED BY <2>1, <2>2, <2>3
<1>7. <<>> \in Seq(CallType) /\ Ordered(<<>>) /\ DOMAIN <<>> = {}
    BY DEF Ordered
<1>8. /\ todo' \in Seq(CallType)
      /\ \A r \in Device!Schedulers : Begins(todo, r) /\ ~Is(Head(todo), "begin", r) => Begins(todo', r)
    BY <1>1, <1>7, Goes
<1>9. Device!TypeOK'
    <2>1. open' \in [Device!Schedulers -> Nat] /\ hint' \in [Device!Schedulers -> Nat]
        BY <1>2, <1>3, <1>6 DEF Device!TypeOK
    <2>2. known' \in Nat /\ known' <= complete
        BY <1>2, <1>6 DEF Device!TypeOK
    <2> QED BY <1>1, <1>2, <1>5, <1>8, <2>1, <2>2 DEF Device!TypeOK, CallType
<1>10. \A r \in Device!Schedulers : state[r] = "open" /\ active[r] /\ open'[r] = 0 => Begins(todo', r)
    <2>1. ASSUME NEW r \in Device!Schedulers, state[r] = "open", active[r], open'[r] = 0
          PROVE  Begins(todo', r)
        <3>1. r # s /\ open[r] = 0
            BY <1>2, <1>3, <1>6, <2>1 DEF Device!TypeOK
        <3> QED BY <1>1, <1>8, <2>1, <3>1 DEF SchedulerInv, QueuesOK, Is
    <2> QED BY <2>1
<1>11. \A r \in Device!Schedulers : hint'[r] > 0
    BY <1>2, <1>6 DEF SchedulerInv, QueuesOK, Device!TypeOK
<1>12. \A r \in Device!Schedulers : \A i \in DOMAIN pending'[r] : pending'[r][i].tick <= current'
    BY <1>1 DEF SchedulerInv, QueuesOK
<1> QED BY <1>1, <1>7, <1>9, <1>10, <1>11, <1>12, CallKeeps

\* Finish and Shutdown submit what is open: SubmitOpen, and the last tick taken.
LEMMA OpenSubmitted ==
    ASSUME SchedulerInv, NEW s \in Device!Schedulers, Device!SubmitOpen(s),
           UNCHANGED <<known, complete>>
    PROVE  /\ current' \in Nat /\ complete' < current' /\ current <= current'
           /\ open' \in [Device!Schedulers -> Nat]
           /\ \A r \in Device!Schedulers : r # s => open'[r] = open[r]
           /\ pool' \in [Device!Schedulers -> Seq([tick : Nat, due : Nat])]
           /\ pending' \in [Device!Schedulers -> Seq(Device!OpType)]
           /\ priority' \in [Device!Schedulers -> Seq(Device!OpType)]
           /\ running' \in [Device!Schedulers -> Device!OpType \union {None}]
           /\ copy' \in Device!OpType \union {None}
           /\ \A r \in Device!Schedulers :
                 /\ pending'[r] = <<>> <=> pending[r] = <<>>
                 /\ \A i \in DOMAIN pending'[r] : pending'[r][i].tick <= current
                 /\ priority[r] = <<>> => priority'[r] = <<>>
                 /\ running[r] = None => running'[r] = None
           /\ Device!LastTick(s) \in Nat
           /\ open[s] # 0 => Device!LastTick(s) = current
<1>1. Device!TypeOK
    BY DEF SchedulerInv
<1>2. Device!LastTick(s) \in Nat /\ (open[s] # 0 => Device!LastTick(s) = current)
    BY <1>1 DEF Device!TypeOK, Device!LastTick
<1>3. \A r \in Device!Schedulers : \A i \in DOMAIN pending[r] : pending[r][i].tick <= current
    BY DEF SchedulerInv, QueuesOK
<1>4. CASE open[s] = 0
    <2>1. UNCHANGED <<current, open, pool, pending, priority, running, copy>>
        BY <1>4 DEF Device!SubmitOpen
    <2>2. /\ current' = current /\ open' = open /\ pool' = pool /\ pending' = pending
          /\ priority' = priority /\ running' = running /\ copy' = copy
          /\ complete' = complete
        BY <2>1
    <2>3. /\ current' \in Nat /\ complete' < current' /\ current <= current'
          /\ open' \in [Device!Schedulers -> Nat]
          /\ pool' \in [Device!Schedulers -> Seq([tick : Nat, due : Nat])]
          /\ pending' \in [Device!Schedulers -> Seq(Device!OpType)]
          /\ priority' \in [Device!Schedulers -> Seq(Device!OpType)]
          /\ running' \in [Device!Schedulers -> Device!OpType \union {None}]
          /\ copy' \in Device!OpType \union {None}
        BY <1>1, <2>2 DEF Device!TypeOK
    <2>4. \A r \in Device!Schedulers : \A i \in DOMAIN pending'[r] : pending'[r][i].tick <= current
        BY <1>3, <2>2
    <2> QED BY <1>2, <2>2, <2>3, <2>4
<1>5. CASE open[s] # 0
    <2>1. Device!Submit(s)
        BY <1>5 DEF Device!SubmitOpen
    <2>2. /\ current' = current + 1
          /\ open' = [open EXCEPT ![s] = 0]
          /\ pool' \in [Device!Schedulers -> Seq([tick : Nat, due : Nat])]
          /\ pending' \in [Device!Schedulers -> Seq(Device!OpType)]
          /\ priority' \in [Device!Schedulers -> Seq(Device!OpType)]
          /\ running' \in [Device!Schedulers -> Device!OpType \union {None}]
          /\ copy' \in Device!OpType \union {None}
          /\ \A r \in Device!Schedulers :
                /\ DOMAIN pending'[r] = DOMAIN pending[r]
                /\ pending'[r] = <<>> <=> pending[r] = <<>>
                /\ \A i \in DOMAIN pending[r] : pending'[r][i].tick = pending[r][i].tick
                /\ priority[r] = <<>> => priority'[r] = <<>>
                /\ running[r] = None => running'[r] = None
        BY <1>1, <2>1, Submitted
    <2>3. /\ current' \in Nat /\ complete' < current' /\ current <= current'
          /\ open' \in [Device!Schedulers -> Nat]
          /\ \A r \in Device!Schedulers : r # s => open'[r] = open[r]
        BY <1>1, <2>2 DEF Device!TypeOK
    <2>4. \A r \in Device!Schedulers : \A i \in DOMAIN pending'[r] : pending'[r][i].tick <= current
        BY <1>3, <2>2
    <2> QED BY <1>2, <2>2, <2>3, <2>4
<1> QED BY <1>4, <1>5

LEMMA FinishKeeps ==
    ASSUME SchedulerInv, NEW s \in Device!Schedulers, Device!Finish(s)
    PROVE  SchedulerInv'
<1> DEFINE c == <<Device!Call("wait", s, Device!LastTick(s)), Device!Call("begin", s, 0),
                  Device!Call("refresh", s, 0)>>
<1>1. /\ todo # <<>> /\ Head(todo).call = "finish" /\ Head(todo).on = s
      /\ todo' = c \o Tail(todo) /\ Device!SubmitOpen(s)
      /\ UNCHANGED <<known, complete, hint, state, recording, active, slice, progressed, down,
                     asyncCompute>>
    BY DEF Device!Finish, Device!Doing, Device!ThenDo, Device!thread
<1>2. Device!TypeOK
    BY DEF SchedulerInv
<1>3. /\ current' \in Nat /\ complete' < current' /\ current <= current'
      /\ open' \in [Device!Schedulers -> Nat]
      /\ \A r \in Device!Schedulers : r # s => open'[r] = open[r]
      /\ pool' \in [Device!Schedulers -> Seq([tick : Nat, due : Nat])]
      /\ pending' \in [Device!Schedulers -> Seq(Device!OpType)]
      /\ priority' \in [Device!Schedulers -> Seq(Device!OpType)]
      /\ running' \in [Device!Schedulers -> Device!OpType \union {None}]
      /\ copy' \in Device!OpType \union {None}
      /\ \A r \in Device!Schedulers :
            /\ pending'[r] = <<>> <=> pending[r] = <<>>
            /\ \A i \in DOMAIN pending'[r] : pending'[r][i].tick <= current
            /\ priority[r] = <<>> => priority'[r] = <<>>
            /\ running[r] = None => running'[r] = None
      /\ Device!LastTick(s) \in Nat
    BY <1>1, OpenSubmitted
<1>4. /\ Len(c) = 3 /\ DOMAIN c = 1 .. 3 /\ c \in Seq(CallType)
      /\ c[1].call = "wait" /\ c[2].call = "begin" /\ c[2].on = s /\ c[3].call = "refresh"
    BY <1>3 DEF Device!Call, CallType, Device!Calls
<1> HIDE DEF c
<1>5. Ordered(c) /\ Begins(c, s) /\ \A i \in DOMAIN c : c[i].call \notin {"shutdown", "pop", "close"}
    BY <1>4 DEF Ordered, Begins, Is
<1>6. /\ todo' \in Seq(CallType)
      /\ \A r \in Device!Schedulers :
            /\ Begins(todo, r) /\ ~Is(Head(todo), "begin", r) => Begins(todo', r)
            /\ Begins(c, r) => Begins(todo', r)
    BY <1>1, <1>4, <1>5, Goes
<1>7. Device!TypeOK'
    BY <1>1, <1>2, <1>3, <1>6 DEF Device!TypeOK, CallType
<1>8. \A r \in Device!Schedulers : state[r] = "open" /\ active[r] /\ open'[r] = 0 => Begins(todo', r)
    BY <1>1, <1>3, <1>5, <1>6 DEF SchedulerInv, QueuesOK, Is
<1>9. ASSUME NEW r \in Device!Schedulers, NEW i \in DOMAIN pending'[r]
      PROVE  pending'[r][i].tick <= current'
    <2>1. pending'[r][i] \in Device!OpType
        BY <1>3
    <2>2. pending'[r][i].tick \in Nat /\ pending'[r][i].tick <= current /\ current \in Nat
        BY <1>2, <1>3, <2>1 DEF Device!OpType, Device!TypeOK
    <2> QED BY <1>3, <2>2
<1>10. \A r \in Device!Schedulers : hint'[r] > 0
    BY <1>1 DEF SchedulerInv, QueuesOK
<1> QED BY <1>1, <1>3, <1>4, <1>5, <1>7, <1>8, <1>9, <1>10, CallKeeps

\* Waits for priority operations and the copy of what was read.
LEMMA ReadbackKeeps ==
    ASSUME SchedulerInv,
           (\E s \in Device!Schedulers : Device!WaitPriorityOperations(s)) \/ Device!WriteBacking
    PROVE  SchedulerInv'
<1>1. /\ todo # <<>> /\ Head(todo).call \in {"waitpriority", "read"}
      /\ todo' = <<>> \o Tail(todo)
      /\ UNCHANGED <<current, known, complete, open, pool, hint, pending, priority, running, state,
                     recording, active, slice, progressed, down, asyncCompute>>
      /\ copy' = copy \/ copy' = None
    BY DEF Device!WaitPriorityOperations, Device!WriteBacking, Device!Doing, Device!ThenDo,
           Device!thread, Device!queues, Device!timeline, Device!buffers
<1>2. <<>> \in Seq(CallType) /\ Ordered(<<>>) /\ DOMAIN <<>> = {}
    BY DEF Ordered
<1>3. /\ todo' \in Seq(CallType)
      /\ \A r \in Device!Schedulers : Begins(todo, r) /\ ~Is(Head(todo), "begin", r) => Begins(todo', r)
    BY <1>1, <1>2, Goes
<1>4. Device!TypeOK'
    BY <1>1, <1>3 DEF SchedulerInv, Device!TypeOK, CallType
<1>5. \A r \in Device!Schedulers :
         /\ state[r] = "open" /\ active[r] /\ open'[r] = 0 => Begins(todo', r)
         /\ hint'[r] > 0
         /\ \A i \in DOMAIN pending'[r] : pending'[r][i].tick <= current'
    BY <1>1, <1>3 DEF SchedulerInv, QueuesOK, Is
<1> QED BY <1>1, <1>2, <1>4, <1>5, CallKeeps

\* A call is over, and what it did keeps a Shutdown on its way.
LEMMA StepKeeps ==
    ASSUME SchedulerInv, todo # <<>>, Head(todo).call # "begin",
           NEW c \in Seq(CallType), Ordered(c), \A i \in DOMAIN c : c[i].call # "shutdown",
           todo' = c \o Tail(todo), UNCHANGED <<hint, active, slice, recording, down>>,
           Device!TypeOK', Device!ClosesEmpty', ShutdownOK', CloseOK',
           \A s \in Device!Schedulers :
              /\ c # <<>> /\ Is(c[1], "pop", s) => pending'[s] # <<>>
              /\ pending'[s] # <<>> => pending[s] # <<>>
              /\ \A i \in DOMAIN pending'[s] : pending'[s][i].tick <= current'
              /\ state'[s] # "open" => down
              /\ state'[s] = "open" => state[s] = "open" /\ open'[s] = open[s]
    PROVE  SchedulerInv'
<1>1. /\ Ordered(todo')
      /\ \A i \in DOMAIN todo' : todo'[i].call = "shutdown" => down'
      /\ \A s \in Device!Schedulers :
            /\ Begins(todo, s) /\ ~Is(Head(todo), "begin", s) => Begins(todo', s)
            /\ todo' # <<>> /\ Head(todo').call = "pop" /\ Head(todo').on = s =>
                        c # <<>> /\ Is(c[1], "pop", s)
    BY Goes
<1>2. CallsOK'
    BY <1>1 DEF CallsOK, Device!Doing
<1>3. QueuesOK'
    BY <1>1 DEF SchedulerInv, QueuesOK, Is
<1> QED BY <1>2, <1>3 DEF SchedulerInv

\* The step of one scheduler in its Shutdown: the other one is not shutting down.
LEMMA OneShutsDown ==
    ASSUME SchedulerInv, todo # <<>>, NEW s \in Device!Schedulers, Head(todo).on = s,
           NEW r \in Device!Schedulers, state[r] = "draining"
    PROVE  r = s
BY DrainingHead

LEMMA WaitKeeps ==
    ASSUME SchedulerInv, NEW s \in Device!Schedulers, Device!WaitTick(s)
    PROVE  SchedulerInv'
<1>1. /\ todo # <<>> /\ Head(todo).call = "wait" /\ Head(todo).on = s
      /\ complete >= Head(todo).tick
      /\ todo' = <<>> \o Tail(todo)
      /\ known' = known \/ known' = complete
      /\ UNCHANGED <<current, complete, open, pool, hint, pending, priority, running, state,
                     recording, active, slice, progressed, down, asyncCompute, copy>>
    BY DEF Device!WaitTick, Device!Doing, Device!ThenDo, Device!KnownAfterWait,
           Device!thread, Device!queues, Device!buffers
<1>2. Device!TypeOK /\ todo \in Seq(CallType)
    BY DEF SchedulerInv, Device!TypeOK, CallType
<1>3. <<>> \in Seq(CallType) /\ Ordered(<<>>) /\ DOMAIN <<>> = {}
    BY DEF Ordered
<1>4. todo' \in Seq(CallType)
    BY <1>1, <1>3, Goes
<1>5. Device!TypeOK'
    <2>1. known' \in Nat /\ known' <= complete'
        <3>1. known \in Nat /\ complete \in Nat /\ known <= complete
            BY <1>2 DEF Device!TypeOK
        <3> QED BY <1>1, <3>1
    <2> QED BY <1>1, <1>2, <1>4, <2>1 DEF Device!TypeOK, CallType
<1>6. ASSUME NEW r \in Device!Schedulers, state[r] = "draining"
      PROVE  Ahead(todo', r, <<"refresh", "drain", "close">>) /\ UpTo(r, complete)'
    <2>1. Head(todo) = todo[1] /\ Len(todo) \in Nat \ {0}
        BY <1>1, <1>2, EmptySeq, HeadTailProperties
    <2>2. Ahead(todo, r, <<"wait", "refresh", "drain", "close">>) /\ UpTo(r, Head(todo).tick)
        BY <1>1, <1>2, <1>6, <2>1, ShutdownShapes DEF SchedulerInv, ShutdownOK, Is
    <2>3. 4 <= Len(todo) /\ Is(todo[2], "refresh", r) /\ Is(todo[3], "drain", r)
          /\ Is(todo[4], "close", r)
        BY <1>2, <2>2, ShutdownShapes
    <2>4. Len(todo') = Len(todo) - 1 /\ \A i \in 1 .. Len(todo) - 1 : todo'[i] = todo[i + 1]
        BY <1>1, <1>2, Advanced
    <2>5. 3 <= Len(todo') /\ todo'[1] = todo[2] /\ todo'[2] = todo[3] /\ todo'[3] = todo[4]
        BY <2>1, <2>3, <2>4
    <2>6. ASSUME NEW i \in DOMAIN pending[r] PROVE pending[r][i].tick <= complete
        <3>1. pending[r][i] \in Device!OpType /\ Head(todo) \in CallType /\ complete \in Nat
            BY <1>1, <1>2, HeadTailProperties DEF Device!TypeOK
        <3>2. pending[r][i].tick \in Nat /\ Head(todo).tick \in Nat
            BY <3>1 DEF Device!OpType, CallType
        <3> QED BY <1>1, <2>2, <3>1, <3>2 DEF UpTo
    <2> QED BY <1>1, <1>4, <2>3, <2>5, <2>6, ShutdownShapes DEF UpTo
<1>7. ShutdownOK'
    BY <1>1, <1>6 DEF ShutdownOK
<1>8. Device!ClosesEmpty'
    BY <1>1 DEF SchedulerInv, Device!ClosesEmpty
<1>9. \A r \in Device!Schedulers :
         /\ \A i \in DOMAIN pending'[r] : pending'[r][i].tick <= current'
         /\ state'[r] # "open" => down
    BY <1>1 DEF SchedulerInv, QueuesOK
<1>10. CloseOK'
    BY <1>1, <1>3, ClosesOnce
<1> QED BY <1>1, <1>3, <1>5, <1>7, <1>8, <1>9, <1>10, StepKeeps

LEMMA PopAlone ==
    ASSUME NEW s \in Device!Schedulers
    PROVE  LET c == <<Device!Call("pop", s, 0)>>
           IN  Len(c) = 1 /\ DOMAIN c = {1} /\ c \in Seq(CallType) /\ Is(c[1], "pop", s)
<1> DEFINE e == Device!Call("pop", s, 0)
<1>1. e \in CallType /\ Is(e, "pop", s)
    BY DEF Device!Call, CallType, Device!Calls, Is
<1> HIDE DEF e
<1>2. Len(<<e>>) = 1 /\ DOMAIN <<e>> = {1} /\ <<e>> \in Seq(CallType) /\ <<e>>[1] = e
    BY <1>1
<1> QED BY <1>1, <1>2 DEF e

LEMMA RefreshKeeps ==
    ASSUME SchedulerInv, NEW s \in Device!Schedulers, Device!Refresh(s)
    PROVE  SchedulerInv'
<1> DEFINE c == IF Device!FreeFront(pending[s], complete) THEN <<Device!Call("pop", s, 0)>> ELSE <<>>
<1>1. /\ todo # <<>> /\ Head(todo).call = "refresh" /\ Head(todo).on = s
      /\ todo' = c \o Tail(todo)
      /\ known' = complete
      /\ UNCHANGED <<current, complete, open, pool, hint, pending, priority, running, state,
                     recording, active, slice, progressed, down, asyncCompute, copy>>
    BY DEF Device!Refresh, Device!Doing, Device!ThenDo, Device!thread, Device!queues, Device!buffers
<1>2. Device!TypeOK /\ todo \in Seq(CallType)
    BY DEF SchedulerInv, Device!TypeOK, CallType
<1>3. \/ /\ pending[s] # <<>> /\ Head(pending[s]).tick <= complete
         /\ c = <<Device!Call("pop", s, 0)>> /\ Len(c) = 1 /\ DOMAIN c = {1} /\ c \in Seq(CallType)
         /\ Is(c[1], "pop", s)
      \/ /\ pending[s] = <<>> \/ ~(Head(pending[s]).tick <= complete)
         /\ c = <<>> /\ DOMAIN c = {}
    BY PopAlone DEF Device!FreeFront
<1>4. /\ c \in Seq(CallType) /\ Ordered(c)
      /\ \A i \in DOMAIN c : c[i].call \notin {"shutdown", "close"}
    BY <1>3 DEF Ordered, Is
<1> HIDE DEF c
<1>5. todo' \in Seq(CallType)
    BY <1>1, <1>4, Goes
<1>6. Device!TypeOK'
    <2>1. known' \in Nat /\ known' <= complete'
        <3>1. complete \in Nat
            BY <1>2 DEF Device!TypeOK
        <3> QED BY <1>1, <3>1
    <2> QED BY <1>1, <1>2, <1>5, <2>1 DEF Device!TypeOK, CallType
<1>7. ASSUME NEW r \in Device!Schedulers, state[r] = "draining"
      PROVE  \/ Ahead(todo', r, <<"pop", "drain", "close">>) /\ UpTo(r, known)'
             \/ Ahead(todo', r, <<"drain", "close">>) /\ pending'[r] = <<>>
    <2>1. Head(todo) = todo[1] /\ Len(todo) \in Nat \ {0} /\ r = s
        BY <1>1, <1>2, <1>7, EmptySeq, HeadTailProperties, OneShutsDown
    <2>2. Ahead(todo, r, <<"refresh", "drain", "close">>) /\ UpTo(r, complete)
        BY <1>1, <1>2, <1>7, <2>1, ShutdownShapes DEF SchedulerInv, ShutdownOK, Is
    <2>3. 3 <= Len(todo) /\ Is(todo[2], "drain", r) /\ Is(todo[3], "close", r)
        BY <1>2, <2>2, ShutdownShapes
    <2>4. /\ Len(todo') = Len(c) + Len(todo) - 1
          /\ \A i \in 1 .. Len(c) : todo'[i] = c[i]
          /\ \A i \in 2 .. Len(todo) : todo'[Len(c) + i - 1] = todo[i]
        BY <1>1, <1>2, <1>4, Continued
    <2>5. CASE pending[s] # <<>>
        <3>1. Head(pending[s]).tick <= complete
            <4>1. pending[s] \in Seq(Device!OpType)
                BY <1>2 DEF Device!TypeOK
            <4>2. 1 \in DOMAIN pending[s] /\ Head(pending[s]) = pending[s][1]
                BY <2>5, <4>1, EmptySeq, LenProperties, HeadTailProperties
            <4> QED BY <2>1, <2>2, <4>2 DEF UpTo
        <3>2. Len(c) = 1 /\ Is(c[1], "pop", s)
            BY <1>3, <2>5, <3>1
        <3>3. 3 <= Len(todo') /\ todo'[1] = c[1] /\ todo'[2] = todo[2] /\ todo'[3] = todo[3]
            BY <2>1, <2>3, <2>4, <3>2
        <3>4. Ahead(todo', r, <<"pop", "drain", "close">>)
            BY <1>5, <2>1, <2>3, <3>2, <3>3, ShutdownShapes
        <3>5. UpTo(r, known)'
            BY <1>1, <2>2 DEF UpTo
        <3> QED BY <3>4, <3>5
    <2>6. CASE pending[s] = <<>>
        <3>1. c = <<>> /\ Len(c) = 0
            BY <1>3, <2>6
        <3>2. 2 <= Len(todo') /\ todo'[1] = todo[2] /\ todo'[2] = todo[3]
            BY <2>1, <2>3, <2>4, <3>1
        <3> QED BY <1>1, <1>5, <2>1, <2>3, <2>6, <3>2, ShutdownShapes
    <2> QED BY <2>5, <2>6
<1>8. ShutdownOK'
    BY <1>1, <1>7 DEF ShutdownOK
<1>9. Device!ClosesEmpty'
    BY <1>1 DEF SchedulerInv, Device!ClosesEmpty
<1>10. \A r \in Device!Schedulers :
         /\ \A i \in DOMAIN pending'[r] : pending'[r][i].tick <= current'
         /\ state'[r] # "open" => down
    BY <1>1 DEF SchedulerInv, QueuesOK
<1>11. \A r \in Device!Schedulers : c # <<>> /\ Is(c[1], "pop", r) => pending'[r] # <<>>
    BY <1>1, <1>3 DEF Is
<1>12. CloseOK'
    BY <1>1, <1>4, <1>5, <1>6, ClosesOnce
<1> QED BY <1>1, <1>4, <1>6, <1>8, <1>9, <1>10, <1>11, <1>12, StepKeeps

LEMMA PopKeeps ==
    ASSUME SchedulerInv, NEW s \in Device!Schedulers, Device!PopPendingOperations(s)
    PROVE  SchedulerInv'
<1> DEFINE rest == Tail(pending[s])
           c == IF Device!FreeFront(rest, known) THEN <<Device!Call("pop", s, 0)>> ELSE <<>>
<1>1. /\ todo # <<>> /\ Head(todo).call = "pop" /\ Head(todo).on = s
      /\ todo' = c \o Tail(todo)
      /\ pending' = [pending EXCEPT ![s] = rest]
      /\ UNCHANGED <<current, known, complete, open, pool, hint, priority, running, state,
                     recording, active, slice, progressed, down, asyncCompute, copy>>
    BY DEF Device!PopPendingOperations, Device!Doing, Device!ThenDo, Device!thread,
           Device!timeline, Device!buffers
<1>2. Device!TypeOK /\ todo \in Seq(CallType)
    BY DEF SchedulerInv, Device!TypeOK, CallType
<1>3. pending[s] # <<>> /\ pending[s] \in Seq(Device!OpType)
    BY <1>1, <1>2 DEF SchedulerInv, CallsOK, Device!Doing, Device!TypeOK
<1>4. /\ rest \in Seq(Device!OpType) /\ DOMAIN rest = 1 .. Len(pending[s]) - 1
      /\ \A i \in DOMAIN rest : i + 1 \in DOMAIN pending[s] /\ rest[i] = pending[s][i + 1]
      /\ rest # <<>> => 1 \in DOMAIN rest /\ Head(rest) = rest[1]
    BY <1>3, EmptySeq, LenProperties, HeadTailProperties
<1>5. \/ /\ rest # <<>> /\ Head(rest).tick <= known
         /\ c = <<Device!Call("pop", s, 0)>> /\ Len(c) = 1 /\ DOMAIN c = {1} /\ c \in Seq(CallType)
         /\ Is(c[1], "pop", s)
      \/ /\ rest = <<>> \/ ~(Head(rest).tick <= known)
         /\ c = <<>> /\ DOMAIN c = {}
    BY PopAlone DEF Device!FreeFront
<1>6. /\ c \in Seq(CallType) /\ Ordered(c)
      /\ \A i \in DOMAIN c : c[i].call \notin {"shutdown", "close"}
    BY <1>5 DEF Ordered, Is
<1> HIDE DEF c, rest
<1>7. todo' \in Seq(CallType)
    BY <1>1, <1>6, Goes
<1>8. pending' \in [Device!Schedulers -> Seq(Device!OpType)] /\ pending'[s] = rest
      /\ \A r \in Device!Schedulers : r # s => pending'[r] = pending[r]
    BY <1>1, <1>2, <1>4 DEF Device!TypeOK
<1>9. Device!TypeOK'
    BY <1>1, <1>2, <1>7, <1>8 DEF Device!TypeOK, CallType
<1>10. ASSUME NEW r \in Device!Schedulers, state[r] = "draining"
       PROVE  \/ Ahead(todo', r, <<"pop", "drain", "close">>) /\ UpTo(r, known)'
              \/ Ahead(todo', r, <<"drain", "close">>) /\ pending'[r] = <<>>
    <2>1. Head(todo) = todo[1] /\ Len(todo) \in Nat \ {0} /\ r = s
        BY <1>1, <1>2, <1>10, EmptySeq, HeadTailProperties, OneShutsDown
    <2>2. Ahead(todo, r, <<"pop", "drain", "close">>) /\ UpTo(r, known)
        BY <1>1, <1>2, <1>10, <2>1, ShutdownShapes DEF SchedulerInv, ShutdownOK, Is
    <2>3. 3 <= Len(todo) /\ Is(todo[2], "drain", r) /\ Is(todo[3], "close", r)
        BY <1>2, <2>2, ShutdownShapes
    <2>4. /\ Len(todo') = Len(c) + Len(todo) - 1
          /\ \A i \in 1 .. Len(c) : todo'[i] = c[i]
          /\ \A i \in 2 .. Len(todo) : todo'[Len(c) + i - 1] = todo[i]
        BY <1>1, <1>2, <1>6, Continued
    <2>5. \A i \in DOMAIN rest : rest[i].tick <= known
        BY <1>4, <2>1, <2>2 DEF UpTo
    <2>6. CASE rest # <<>>
        <3>1. Head(rest).tick <= known
            BY <1>4, <2>5, <2>6
        <3>2. Len(c) = 1 /\ Is(c[1], "pop", s)
            BY <1>5, <2>6, <3>1
        <3>3. 3 <= Len(todo') /\ todo'[1] = c[1] /\ todo'[2] = todo[2] /\ todo'[3] = todo[3]
            BY <2>1, <2>3, <2>4, <3>2
        <3>4. Ahead(todo', r, <<"pop", "drain", "close">>)
            BY <1>7, <2>1, <2>3, <3>2, <3>3, ShutdownShapes
        <3>5. UpTo(r, known)'
            BY <1>1, <1>8, <2>1, <2>5 DEF UpTo
        <3> QED BY <3>4, <3>5
    <2>7. CASE rest = <<>>
        <3>1. c = <<>> /\ Len(c) = 0
            BY <1>5, <2>7
        <3>2. 2 <= Len(todo') /\ todo'[1] = todo[2] /\ todo'[2] = todo[3]
            BY <2>1, <2>3, <2>4, <3>1
        <3> QED BY <1>7, <1>8, <2>1, <2>3, <2>7, <3>2, ShutdownShapes
    <2> QED BY <2>6, <2>7
<1>11. ShutdownOK'
    BY <1>1, <1>10 DEF ShutdownOK
<1>12. Device!ClosesEmpty'
    <2>1. state[s] # "closed"
        BY <1>3 DEF SchedulerInv, Device!ClosesEmpty
    <2> QED BY <1>1, <1>8, <2>1 DEF SchedulerInv, Device!ClosesEmpty
<1>13. \A r \in Device!Schedulers :
         /\ \A i \in DOMAIN pending'[r] : pending'[r][i].tick <= current'
         /\ state'[r] # "open" => down
         /\ pending'[r] # <<>> => pending[r] # <<>>
    BY <1>1, <1>3, <1>4, <1>8 DEF SchedulerInv, QueuesOK
<1>14. \A r \in Device!Schedulers : c # <<>> /\ Is(c[1], "pop", r) => pending'[r] # <<>>
    BY <1>5, <1>8 DEF Is
<1>15. CloseOK'
    BY <1>1, <1>4, <1>5, <1>6, ClosesOnce
<1> QED BY <1>1, <1>6, <1>9, <1>11, <1>12, <1>13, <1>14, <1>15, StepKeeps

LEMMA DrainKeeps ==
    ASSUME SchedulerInv, NEW s \in Device!Schedulers, Device!DrainPriorityOperations(s)
    PROVE  SchedulerInv'
<1>1. /\ todo # <<>> /\ Head(todo).call = "drain" /\ Head(todo).on = s
      /\ todo' = <<>> \o Tail(todo)
      /\ priority[s] = <<>> /\ running[s] = None
      /\ UNCHANGED <<current, known, complete, open, pool, hint, pending, priority, running, state,
                     recording, active, slice, progressed, down, asyncCompute, copy>>
    BY DEF Device!DrainPriorityOperations, Device!Doing, Device!ThenDo, Device!timeline,
           Device!thread, Device!queues, Device!buffers
<1>2. Device!TypeOK /\ todo \in Seq(CallType)
    BY DEF SchedulerInv, Device!TypeOK, CallType
<1>3. <<>> \in Seq(CallType) /\ Ordered(<<>>) /\ DOMAIN <<>> = {}
    BY DEF Ordered
<1>4. todo' \in Seq(CallType)
    BY <1>1, <1>3, Goes
<1>5. Device!TypeOK'
    BY <1>1, <1>2, <1>4 DEF Device!TypeOK, CallType
<1>6. ASSUME NEW r \in Device!Schedulers, state[r] = "draining"
      PROVE  Ahead(todo', r, <<"close">>) /\ pending[r] = <<>> /\ r = s
    <2>1. Head(todo) = todo[1] /\ Len(todo) \in Nat \ {0} /\ r = s
        BY <1>1, <1>2, <1>6, EmptySeq, HeadTailProperties, OneShutsDown
    <2>2. Ahead(todo, r, <<"drain", "close">>) /\ pending[r] = <<>>
        BY <1>1, <1>2, <1>6, <2>1, ShutdownShapes DEF SchedulerInv, ShutdownOK, Is
    <2>3. 2 <= Len(todo) /\ Is(todo[2], "close", r)
        BY <1>2, <2>2, ShutdownShapes
    <2>4. Len(todo') = Len(todo) - 1 /\ \A i \in 1 .. Len(todo) - 1 : todo'[i] = todo[i + 1]
        BY <1>1, <1>2, Advanced
    <2>5. 1 <= Len(todo') /\ todo'[1] = todo[2]
        BY <2>1, <2>3, <2>4
    <2> QED BY <1>4, <2>1, <2>2, <2>3, <2>5, ShutdownShapes
<1>7. ShutdownOK'
    BY <1>1, <1>6 DEF ShutdownOK
<1>8. Device!ClosesEmpty'
    BY <1>1 DEF SchedulerInv, Device!ClosesEmpty
<1>9. \A r \in Device!Schedulers :
         /\ \A i \in DOMAIN pending'[r] : pending'[r][i].tick <= current'
         /\ state'[r] # "open" => down
    BY <1>1 DEF SchedulerInv, QueuesOK
<1>10. CloseOK'
    BY <1>1, <1>3, ClosesOnce
<1> QED BY <1>1, <1>3, <1>5, <1>7, <1>8, <1>9, <1>10, StepKeeps

\* What is left of the program when a scheduler closes is left by the drain: no
\* operation, and none in the priority thread's hand.
LEMMA CloseKeeps ==
    ASSUME SchedulerInv, NEW s \in Device!Schedulers, Device!Close(s)
    PROVE  SchedulerInv'
<1>1. /\ todo # <<>> /\ Head(todo).call = "close" /\ Head(todo).on = s
      /\ todo' = <<>> \o Tail(todo)
      /\ state' = [state EXCEPT ![s] = "closed"]
      /\ UNCHANGED <<current, known, complete, open, pool, hint, pending, priority, running,
                     recording, active, slice, progressed, down, asyncCompute, copy>>
    BY DEF Device!Close, Device!Doing, Device!ThenDo, Device!timeline, Device!thread, Device!buffers
<1>2. Device!TypeOK /\ todo \in Seq(CallType)
    BY DEF SchedulerInv, Device!TypeOK, CallType
<1>3. <<>> \in Seq(CallType) /\ Ordered(<<>>) /\ DOMAIN <<>> = {}
    BY DEF Ordered
<1>4. todo' \in Seq(CallType)
    BY <1>1, <1>3, Goes
<1>5. Device!TypeOK'
    BY <1>1, <1>2, <1>4 DEF Device!TypeOK, CallType
<1>6. pending[s] = <<>> /\ priority[s] = <<>> /\ running[s] = None
    <2>1. Head(todo) = todo[1] /\ 1 \in DOMAIN todo
        BY <1>1, <1>2, EmptySeq, LenProperties, HeadTailProperties
    <2>2. state[s] = "draining"
        BY <1>1, <2>1 DEF SchedulerInv, CloseOK
    <2> QED BY <1>1, <1>2, <2>1, <2>2, ShutdownShapes DEF SchedulerInv, ShutdownOK, Is
<1>7. \A r \in Device!Schedulers : state'[r] # "draining"
    BY <1>1, <1>2, OneShutsDown DEF Device!TypeOK
<1>8. Device!ClosesEmpty'
    BY <1>1, <1>2, <1>6 DEF SchedulerInv, Device!ClosesEmpty, Device!TypeOK
<1>9. \A r \in Device!Schedulers :
         /\ \A i \in DOMAIN pending'[r] : pending'[r][i].tick <= current'
         /\ state'[r] # "open" => down
         /\ state'[r] = "open" => state[r] = "open"
    <2>1. state'[s] = "closed" /\ \A r \in Device!Schedulers : r # s => state'[r] = state[r]
        BY <1>1, <1>2 DEF Device!TypeOK
    <2>2. state[s] = "draining"
        <3>1. Head(todo) = todo[1] /\ 1 \in DOMAIN todo
            BY <1>1, <1>2, EmptySeq, LenProperties, HeadTailProperties
        <3> QED BY <1>1, <3>1 DEF SchedulerInv, CloseOK
    <2> QED BY <1>1, <2>1, <2>2 DEF SchedulerInv, QueuesOK
<1>10. ShutdownOK'
    BY <1>7 DEF ShutdownOK
<1>11. CloseOK'
    BY <1>1, <1>3, ClosesOnce
<1> QED BY <1>1, <1>3, <1>5, <1>8, <1>9, <1>10, <1>11, StepKeeps

LEMMA ShutdownKeeps ==
    ASSUME SchedulerInv, NEW s \in Device!Schedulers, Device!Shutdown(s)
    PROVE  SchedulerInv'
<1> DEFINE c == <<Device!Call("wait", s, Device!LastTick(s)), Device!Call("refresh", s, 0),
                  Device!Call("drain", s, 0), Device!Call("close", s, 0)>>
<1>1. /\ todo # <<>> /\ Head(todo).call = "shutdown" /\ Head(todo).on = s
      /\ todo' = c \o Tail(todo) /\ Device!SubmitOpen(s)
      /\ state' = [state EXCEPT ![s] = "draining"]
      /\ UNCHANGED <<known, complete, hint, recording, active, slice, progressed, down,
                     asyncCompute>>
    BY DEF Device!Shutdown, Device!Doing, Device!ThenDo, Device!thread
<1>2. Device!TypeOK /\ todo \in Seq(CallType)
    BY DEF SchedulerInv, Device!TypeOK, CallType
<1>3. /\ current' \in Nat /\ complete' < current' /\ current <= current'
      /\ open' \in [Device!Schedulers -> Nat]
      /\ \A r \in Device!Schedulers : r # s => open'[r] = open[r]
      /\ pool' \in [Device!Schedulers -> Seq([tick : Nat, due : Nat])]
      /\ pending' \in [Device!Schedulers -> Seq(Device!OpType)]
      /\ priority' \in [Device!Schedulers -> Seq(Device!OpType)]
      /\ running' \in [Device!Schedulers -> Device!OpType \union {None}]
      /\ copy' \in Device!OpType \union {None}
      /\ \A r \in Device!Schedulers :
            /\ pending'[r] = <<>> <=> pending[r] = <<>>
            /\ \A i \in DOMAIN pending'[r] : pending'[r][i].tick <= current
            /\ priority[r] = <<>> => priority'[r] = <<>>
            /\ running[r] = None => running'[r] = None
      /\ Device!LastTick(s) \in Nat
      /\ open[s] # 0 => Device!LastTick(s) = current
    BY <1>1, OpenSubmitted
<1>4. /\ Len(c) = 4 /\ DOMAIN c = 1 .. 4 /\ c \in Seq(CallType)
      /\ Is(c[1], "wait", s) /\ c[1].tick = Device!LastTick(s) /\ Is(c[2], "refresh", s)
      /\ Is(c[3], "drain", s) /\ Is(c[4], "close", s)
    BY <1>3 DEF Device!Call, CallType, Device!Calls, Is
<1> HIDE DEF c
<1>5. /\ Ordered(c) /\ \A i \in DOMAIN c : c[i].call # "shutdown"
      /\ \A r \in Device!Schedulers : ~Is(c[1], "pop", r)
    BY <1>4 DEF Ordered, Is
<1>6. todo' \in Seq(CallType)
    BY <1>1, <1>4, <1>5, Goes
<1>7. Head(todo) = todo[1] /\ 1 \in DOMAIN todo /\ Len(todo) \in Nat \ {0} /\ DOMAIN todo = 1 .. Len(todo)
    BY <1>1, <1>2, EmptySeq, LenProperties, HeadTailProperties
<1>8. down
    BY <1>1, <1>7 DEF SchedulerInv, CallsOK
<1>9. Device!TypeOK'
    <2>1. state' \in [Device!Schedulers -> {"open", "draining", "closed"}]
        BY <1>1, <1>2 DEF Device!TypeOK
    <2> QED BY <1>1, <1>2, <1>3, <1>6, <2>1 DEF Device!TypeOK, CallType
<1>10. \A r \in Device!Schedulers : state[r] # "draining"
    BY <1>1, DrainingHead
<1>11. pending[s] # <<>> => open[s] # 0
    <2>1. ~Begins(todo, s)
        <3>1. \A j \in DOMAIN todo : 1 < j => ~Is(todo[j], "begin", s)
            BY <1>1, <1>7 DEF SchedulerInv, CallsOK, Ordered
        <3>2. ~Is(todo[1], "begin", s)
            BY <1>1, <1>7 DEF Is
        <3> QED BY <1>7, <3>1, <3>2 DEF Begins
    <2>2. state[s] # "open" => state[s] = "closed"
        BY <1>2, <1>10 DEF Device!TypeOK
    <2> QED BY <2>1, <2>2 DEF SchedulerInv, QueuesOK, Device!ClosesEmpty
<1>12. Ahead(todo', s, <<"wait", "refresh", "drain", "close">>) /\ Head(todo') = c[1]
    <2>1. Len(todo') = Len(c) + Len(todo) - 1 /\ \A i \in 1 .. Len(c) : todo'[i] = c[i]
        BY <1>1, <1>2, <1>4, Continued
    <2>2. 4 <= Len(todo') /\ todo'[1] = c[1] /\ todo'[2] = c[2] /\ todo'[3] = c[3] /\ todo'[4] = c[4]
        BY <1>4, <1>7, <2>1
    <2>3. Head(todo') = todo'[1]
        BY <1>6, <2>2, EmptySeq, HeadTailProperties
    <2> QED BY <1>4, <1>6, <2>2, <2>3, ShutdownShapes
<1>13. \A i \in DOMAIN pending'[s] : pending'[s][i].tick <= c[1].tick
    <2>1. CASE pending[s] = <<>>
        <3>1. pending'[s] = <<>> /\ DOMAIN pending'[s] = {}
            BY <1>3, <2>1
        <3> QED BY <3>1
    <2>2. CASE pending[s] # <<>>
        <3>1. c[1].tick = current
            BY <1>3, <1>4, <1>11, <2>2
        <3>2. \A i \in DOMAIN pending'[s] : pending'[s][i].tick <= current
            BY <1>3
        <3> QED BY <3>1, <3>2
    <2> QED BY <2>1, <2>2
<1>14. ShutdownOK'
    <2>1. \A r \in Device!Schedulers : state'[r] = "draining" => r = s
        BY <1>1, <1>2, <1>10 DEF Device!TypeOK
    <2>2. UpTo(s, Head(todo).tick)'
        BY <1>12, <1>13 DEF UpTo
    <2> QED BY <1>12, <2>1, <2>2 DEF ShutdownOK
<1>15. Device!ClosesEmpty'
    BY <1>1, <1>2, <1>3 DEF SchedulerInv, Device!ClosesEmpty, Device!TypeOK
<1>16. ASSUME NEW r \in Device!Schedulers, NEW i \in DOMAIN pending'[r]
       PROVE  pending'[r][i].tick <= current'
    <2>1. pending'[r][i] \in Device!OpType
        BY <1>3
    <2>2. pending'[r][i].tick \in Nat /\ pending'[r][i].tick <= current /\ current \in Nat
        BY <1>2, <1>3, <2>1 DEF Device!OpType, Device!TypeOK
    <2> QED BY <1>3, <2>2
<1>17. \A r \in Device!Schedulers :
         /\ pending'[r] # <<>> => pending[r] # <<>>
         /\ state'[r] # "open" => down
         /\ state'[r] = "open" => state[r] = "open" /\ open'[r] = open[r]
    BY <1>1, <1>2, <1>3, <1>8 DEF Device!TypeOK
<1>18. CloseOK'
    <2>1. /\ Len(todo') = 3 + Len(todo)
          /\ \A i \in 1 .. 4 : todo'[i] = c[i]
          /\ \A i \in 1 .. 3 + Len(todo) : i <= 4 \/ (i - 3 \in 2 .. Len(todo) /\ todo'[i] = todo[i - 3])
        <3>1. /\ Len(todo') = Len(c) + Len(todo) - 1
              /\ \A i \in 1 .. Len(c) : todo'[i] = c[i]
              /\ \A i \in 1 .. Len(c) + Len(todo) - 1 :
                    \/ i <= Len(c)
                    \/ i - Len(c) + 1 \in 2 .. Len(todo) /\ todo'[i] = todo[i - Len(c) + 1]
            BY <1>1, <1>2, <1>4, Continued
        <3>2. Len(c) = 4 /\ Len(c) + Len(todo) - 1 = 3 + Len(todo)
              /\ \A i \in Int : i - Len(c) + 1 = i - 3
            BY <1>4, <1>7
        <3> QED BY <1>7, <3>1, <3>2
    <2>2. \A i \in DOMAIN todo : todo[i].call # "close"
        <3>1. \A i \in DOMAIN todo : todo[i].on \in Device!Schedulers
            <4>1. \A i \in DOMAIN todo : todo[i] \in CallType
                BY <1>2, <1>7
            <4> QED BY <4>1 DEF CallType
        <3> QED BY <1>10, <3>1 DEF SchedulerInv, CloseOK
    <2>3. DOMAIN todo' = 1 .. 3 + Len(todo)
        BY <1>6, <2>1, LenProperties
    <2>4. ASSUME NEW i \in DOMAIN todo', todo'[i].call = "close" PROVE i = 4 /\ todo'[i] = c[4]
        <3>1. i <= 4
            BY <1>7, <2>1, <2>2, <2>3, <2>4
        <3>2. i \in {1, 2, 3, 4} /\ todo'[i] = c[i]
            BY <1>7, <2>1, <2>3, <3>1
        <3> QED BY <1>4, <2>4, <3>2 DEF Is
    <2>5. state'[s] = "draining"
        BY <1>1, <1>2 DEF Device!TypeOK
    <2>6. c[4].on = s
        BY <1>4 DEF Is
    <2>7. ASSUME NEW i \in DOMAIN todo', todo'[i].call = "close"
          PROVE  /\ state'[todo'[i].on] = "draining"
                 /\ \A j \in DOMAIN todo' : todo'[j].call = "close" => j = i
        <3>1. i = 4 /\ todo'[i] = c[4]
            BY <2>4, <2>7
        <3>2. \A j \in DOMAIN todo' : todo'[j].call = "close" => j = 4
            BY <2>4
        <3> QED BY <2>5, <2>6, <3>1, <3>2
    <2> QED BY <2>7 DEF CloseOK
<1> QED BY <1>1, <1>4, <1>5, <1>9, <1>14, <1>15, <1>16, <1>17, <1>18, StepKeeps

-----------------------------------------------------------------------------
(* What the GPU thread starts. *)

\* Calls that the GPU thread makes while it runs.
Plain(c) ==
    /\ c \in Seq(CallType) /\ Ordered(c)
    /\ \A i \in DOMAIN c : c[i].call \notin {"shutdown", "pop", "close"}

LEMMA PlainLists ==
    ASSUME NEW s \in Device!Schedulers, current \in Nat
    PROVE  /\ Plain(<<>>) /\ Plain(Device!Flush(s)) /\ Plain(Device!FlushAndWait(s))
           /\ Plain(<<Device!Call("finish", s, 0)>>) /\ Plain(<<Device!Call("refresh", s, 0)>>)
           /\ Plain(<<Device!Call("finish", s, 0), Device!Call("waitpriority", s, current)>>)
           /\ Plain(<<Device!Call("finish", s, 0), Device!Call("waitpriority", s, current),
                      Device!Call("read", s, 0)>>)
           /\ Plain(Device!BeginIfNone(s))
           /\ open[s] = 0 => Begins(Device!BeginIfNone(s), s)
<1>1. ASSUME NEW call \in Device!Calls, NEW t \in Nat
      PROVE  /\ Device!Call(call, s, t) \in CallType
             /\ Device!Call(call, s, t).call = call /\ Device!Call(call, s, t).on = s
    BY DEF Device!Call, CallType
<1>2. ASSUME NEW a \in CallType, NEW b \in CallType, NEW c \in CallType
      PROVE  /\ <<a>> \in Seq(CallType) /\ DOMAIN <<a>> = {1} /\ <<a>>[1] = a
             /\ <<a, b>> \in Seq(CallType) /\ DOMAIN <<a, b>> = {1, 2}
             /\ <<a, b>>[1] = a /\ <<a, b>>[2] = b
             /\ <<a, b, c>> \in Seq(CallType) /\ DOMAIN <<a, b, c>> = {1, 2, 3}
             /\ <<a, b, c>>[1] = a /\ <<a, b, c>>[2] = b /\ <<a, b, c>>[3] = c
    OBVIOUS
<1>3. Plain(<<>>)
    BY DEF Plain, Ordered
<1>4. ASSUME NEW a \in CallType, NEW b \in CallType, NEW c \in CallType,
             a.on = s, b.on = s, c.on = s,
             a.call \notin {"submit", "shutdown", "pop", "close"},
             b.call \notin {"submit", "shutdown", "pop", "close"},
             c.call \notin {"submit", "shutdown", "pop", "close"}
      PROVE  Plain(<<a>>) /\ Plain(<<a, b>>) /\ Plain(<<a, b, c>>)
    <2>1. Plain(<<a>>)
        BY <1>2, <1>4 DEF Plain, Ordered
    <2>2. Plain(<<a, b>>)
        BY <1>2, <1>4 DEF Plain, Ordered
    <2>3. Plain(<<a, b, c>>)
        BY <1>2, <1>4 DEF Plain, Ordered
    <2> QED BY <2>1, <2>2, <2>3
<1>5. ASSUME NEW a \in CallType, NEW b \in CallType, NEW c \in CallType,
             a.on = s, b.on = s, c.on = s, a.call = "submit",
             b.call \notin {"submit", "shutdown", "pop", "close"},
             c.call \notin {"submit", "shutdown", "pop", "close"},
             b.call = "begin" \/ c.call = "begin"
      PROVE  Plain(<<a, b, c>>)
    <2>1. /\ <<a, b, c>> \in Seq(CallType) /\ DOMAIN <<a, b, c>> = {1, 2, 3}
          /\ <<a, b, c>>[1] = a /\ <<a, b, c>>[2] = b /\ <<a, b, c>>[3] = c
        BY <1>2
    <2> DEFINE w == <<a, b, c>>
    <2> HIDE DEF w
    <2>2. Plain(w)
        BY <1>5, <2>1 DEF Plain, Ordered, Is, w
    <2> QED BY <2>2 DEF w
<1>6. {"submit", "begin", "wait", "refresh", "finish", "waitpriority", "read"} \subseteq Device!Calls
      /\ 0 \in Nat
    BY DEF Device!Calls
<1>7. Plain(Device!Flush(s)) /\ Plain(Device!FlushAndWait(s))
    BY <1>1, <1>5, <1>6 DEF Device!Flush, Device!FlushAndWait
<1>8. /\ Plain(<<Device!Call("finish", s, 0)>>) /\ Plain(<<Device!Call("refresh", s, 0)>>)
      /\ Plain(<<Device!Call("finish", s, 0), Device!Call("waitpriority", s, current)>>)
      /\ Plain(<<Device!Call("finish", s, 0), Device!Call("waitpriority", s, current),
                 Device!Call("read", s, 0)>>)
      /\ Plain(<<Device!Call("begin", s, 0)>>)
    <2> DEFINE f == Device!Call("finish", s, 0)
               w == Device!Call("waitpriority", s, current)
               x == Device!Call("read", s, 0)
               y == Device!Call("refresh", s, 0)
               z == Device!Call("begin", s, 0)
    <2>1. /\ f \in CallType /\ f.on = s /\ f.call = "finish"
          /\ w \in CallType /\ w.on = s /\ w.call = "waitpriority"
          /\ x \in CallType /\ x.on = s /\ x.call = "read"
          /\ y \in CallType /\ y.on = s /\ y.call = "refresh"
          /\ z \in CallType /\ z.on = s /\ z.call = "begin"
        BY <1>1, <1>6
    <2> HIDE DEF f, w, x, y, z
    <2>2. Plain(<<f>>) /\ Plain(<<f, w>>) /\ Plain(<<f, w, x>>)
        BY <1>4, <2>1
    <2>3. Plain(<<y>>) /\ Plain(<<z>>)
        BY <1>4, <2>1
    <2> QED BY <2>2, <2>3 DEF f, w, x, y, z
<1>9. Begins(<<Device!Call("begin", s, 0)>>, s)
    <2>1. Device!Call("begin", s, 0) \in CallType /\ Is(Device!Call("begin", s, 0), "begin", s)
        BY <1>1, <1>6 DEF Is
    <2> QED BY <1>2, <2>1 DEF Begins
<1> QED BY <1>3, <1>7, <1>8, <1>9 DEF Device!BeginIfNone

\* The GPU thread starts a call.
LEMMA StartKeeps ==
    ASSUME SchedulerInv, todo = <<>>, ~down,
           Ordered(todo'), \A i \in DOMAIN todo' : /\ todo'[i].call \notin {"pop", "close"}
                                                   /\ todo'[i].call = "shutdown" => down',
           UNCHANGED <<state, open, hint>>, Device!TypeOK',
           slice' # None => active'[slice'],
           \A s \in Device!Schedulers :
              /\ active'[s] => recording' # None /\ (open[s] # 0 \/ Begins(todo', s))
              /\ pending'[s] # <<>> => active'[s]
              /\ \A i \in DOMAIN pending'[s] : pending'[s][i].tick <= current'
    PROVE  SchedulerInv'
<1>1. \A s \in Device!Schedulers : state[s] = "open"
    BY Rested
<1>2. Device!ClosesEmpty' /\ ShutdownOK'
    BY <1>1 DEF Device!ClosesEmpty, ShutdownOK
<1>3. CallsOK'
    <2>1. todo' # <<>> => Head(todo') = todo'[1] /\ 1 \in DOMAIN todo'
        BY EmptySeq, LenProperties, HeadTailProperties DEF Device!TypeOK
    <2> QED BY <2>1 DEF CallsOK, Device!Doing
<1>4. QueuesOK'
    BY <1>1 DEF SchedulerInv, QueuesOK
<1>5. CloseOK'
    BY DEF CloseOK
<1> QED BY <1>2, <1>3, <1>4, <1>5 DEF SchedulerInv

\* Calls of the GPU thread that change no queue, or queue one operation under the
\* present tick.
LEMMA PlainStarts ==
    ASSUME SchedulerInv, todo = <<>>, ~down, Plain(todo'),
           UNCHANGED <<state, open, hint, current, known, complete, pool, running, down,
                       asyncCompute>>,
           slice' \in Device!Schedulers \union {None}, progressed' \in BOOLEAN,
           recording' \in Device!Schedulers \union {None},
           active' \in [Device!Schedulers -> BOOLEAN],
           copy' \in Device!OpType \union {None},
           \A s \in Device!Schedulers :
              /\ active[s] => active'[s]
              /\ active'[s] => recording' # None /\ (open[s] # 0 \/ Begins(todo', s)),
           slice' # None => active'[slice'],
           priority' = priority \/ \E s, r \in Device!Schedulers : priority' = Device!Later(priority, s, r),
           pending' = pending \/ \E s, r \in Device!Schedulers :
                                     active[s] /\ pending' = Device!Later(pending, s, r)
    PROVE  SchedulerInv'
<1>1. Device!TypeOK
    BY DEF SchedulerInv
<1>2. ASSUME NEW q \in [Device!Schedulers -> Seq(Device!OpType)],
             NEW s \in Device!Schedulers, NEW r \in Device!Schedulers
      PROVE  /\ Device!Later(q, s, r) \in [Device!Schedulers -> Seq(Device!OpType)]
             /\ \A t \in Device!Schedulers : t # s => Device!Later(q, s, r)[t] = q[t]
             /\ DOMAIN q[s] = 1 .. Len(q[s]) /\ Len(q[s]) \in Nat
             /\ DOMAIN Device!Later(q, s, r)[s] = 1 .. Len(q[s]) + 1
             /\ \A i \in 1 .. Len(q[s]) : Device!Later(q, s, r)[s][i] = q[s][i]
             /\ Device!Later(q, s, r)[s][Len(q[s]) + 1].tick = current
    <2> DEFINE entry == Device!Op(current, r)
    <2>1. entry \in Device!OpType /\ entry.tick = current
        BY <1>1 DEF Device!Op, Device!OpType, Device!TypeOK
    <2> HIDE DEF entry
    <2>2. /\ Append(q[s], entry) \in Seq(Device!OpType) /\ Len(Append(q[s], entry)) = Len(q[s]) + 1
          /\ \A i \in 1 .. Len(q[s]) : Append(q[s], entry)[i] = q[s][i]
          /\ Append(q[s], entry)[Len(q[s]) + 1] = entry
        BY <2>1, AppendProperties
    <2>3. Device!Later(q, s, r) = [q EXCEPT ![s] = Append(q[s], entry)]
        BY DEF Device!Later, entry
    <2>4. DOMAIN q[s] = 1 .. Len(q[s]) /\ Len(q[s]) \in Nat
          /\ DOMAIN Append(q[s], entry) = 1 .. Len(q[s]) + 1
        BY <2>2, LenProperties
    <2> QED BY <2>1, <2>2, <2>3, <2>4
<1>3. priority' \in [Device!Schedulers -> Seq(Device!OpType)]
    <2>1. priority \in [Device!Schedulers -> Seq(Device!OpType)]
        BY <1>1 DEF Device!TypeOK
    <2>2. \A s, r \in Device!Schedulers :
             Device!Later(priority, s, r) \in [Device!Schedulers -> Seq(Device!OpType)]
        BY <1>2, <2>1
    <2> QED BY <2>1, <2>2
<1>4. /\ pending' \in [Device!Schedulers -> Seq(Device!OpType)]
      /\ \A s \in Device!Schedulers :
            /\ pending'[s] # <<>> => pending[s] # <<>> \/ active[s]
            /\ \A i \in DOMAIN pending'[s] : pending'[s][i].tick <= current
    <2>1. CASE pending' = pending
        BY <1>1, <2>1 DEF SchedulerInv, QueuesOK, Device!TypeOK
    <2>2. ASSUME NEW s \in Device!Schedulers, NEW r \in Device!Schedulers, active[s],
                 pending' = Device!Later(pending, s, r)
          PROVE  <1>4!:
        <3>1. pending \in [Device!Schedulers -> Seq(Device!OpType)] /\ current \in Nat
            BY <1>1 DEF Device!TypeOK
        <3>2. /\ pending' \in [Device!Schedulers -> Seq(Device!OpType)]
              /\ \A t \in Device!Schedulers : t # s => pending'[t] = pending[t]
              /\ DOMAIN pending[s] = 1 .. Len(pending[s]) /\ Len(pending[s]) \in Nat
              /\ DOMAIN pending'[s] = 1 .. Len(pending[s]) + 1
              /\ \A i \in 1 .. Len(pending[s]) : pending'[s][i] = pending[s][i]
              /\ pending'[s][Len(pending[s]) + 1].tick = current
            <4> DEFINE w == Device!Later(pending, s, r)
            <4>1. /\ w \in [Device!Schedulers -> Seq(Device!OpType)]
                  /\ \A t \in Device!Schedulers : t # s => w[t] = pending[t]
                  /\ DOMAIN pending[s] = 1 .. Len(pending[s]) /\ Len(pending[s]) \in Nat
                  /\ DOMAIN w[s] = 1 .. Len(pending[s]) + 1
                  /\ \A i \in 1 .. Len(pending[s]) : w[s][i] = pending[s][i]
                  /\ w[s][Len(pending[s]) + 1].tick = current
                BY <1>2, <3>1
            <4> QED BY <2>2, <4>1
        <3>3. \A t \in Device!Schedulers : \A i \in DOMAIN pending[t] : pending[t][i].tick <= current
            BY DEF SchedulerInv, QueuesOK
        <3>4. ASSUME NEW i \in DOMAIN pending'[s] PROVE pending'[s][i].tick <= current
            <4>1. i \in 1 .. Len(pending[s]) \/ i = Len(pending[s]) + 1
                BY <3>2
            <4>2. current <= current
                BY <3>1
            <4> QED BY <3>2, <3>3, <4>1, <4>2
        <3> QED BY <2>2, <3>2, <3>3, <3>4
    <2> QED BY <2>1, <2>2
<1>5. Device!TypeOK'
    BY <1>1, <1>3, <1>4 DEF Device!TypeOK, Plain, CallType
<1>6. \A s \in Device!Schedulers : pending'[s] # <<>> => active'[s]
    BY <1>4 DEF SchedulerInv, QueuesOK
<1> QED BY <1>4, <1>5, <1>6, StartKeeps DEF Plain

\* Packets, slices, commands of other threads.
LEMMA GuestKeeps ==
    ASSUME SchedulerInv, Device!CommandSchedulerAssumption, Device!GpuStarts
    PROVE  SchedulerInv' \/ Device!ShutdownGpu
<1>1. Device!TypeOK
    BY DEF SchedulerInv
<1>2. todo = <<>> /\ ~down
    BY DEF Device!GpuStarts, Device!BeginSlice, Device!DeleteImage, Device!DeferOperation,
           Device!DeferPriorityOperation, Device!PacketCalls, Device!SuspendSlice,
           Device!CompleteSlice, Device!Readback, Device!UnmapMemory, Device!ShutdownGpu,
           Device!Packet, Device!Command, Device!Ready
<1>3. \A s \in Device!Schedulers : active[s] => open[s] # 0
    BY <1>2, Rested
<1>4. /\ \A s \in Device!Schedulers : active[s] => recording # None
      /\ slice # None => active[slice]
    BY DEF SchedulerInv, QueuesOK
<1>5. Graphics \in Device!Schedulers /\ None \notin Device!Schedulers
    BY DEF Device!Schedulers, Device!CommandSchedulerAssumption
<1>6. ASSUME NEW s \in Device!Schedulers, Device!BeginSlice(s) PROVE SchedulerInv'
    <2>1. /\ slice' = s /\ recording' = s /\ progressed' = FALSE
          /\ active' = [active EXCEPT ![s] = TRUE]
          /\ todo' = Device!BeginIfNone(s)
          /\ UNCHANGED <<state, open, hint, current, known, complete, pool, running, down,
                         asyncCompute, copy, priority, pending>>
        BY <1>6 DEF Device!BeginSlice, Device!timeline, Device!buffers, Device!queues
    <2>2. Plain(todo') /\ (open[s] = 0 => Begins(todo', s))
        BY <1>1, <2>1, PlainLists DEF Device!TypeOK
    <2>3. ASSUME NEW r \in Device!Schedulers
          PROVE  (active[r] => active'[r]) /\ (active'[r] => open[r] # 0 \/ Begins(todo', r))
        BY <1>1, <1>3, <2>1, <2>2 DEF Device!TypeOK
    <2>4. active' \in [Device!Schedulers -> BOOLEAN] /\ active'[s]
        BY <1>1, <2>1 DEF Device!TypeOK
    <2>5. copy' \in Device!OpType \union {None}
        BY <1>1, <2>1 DEF Device!TypeOK
    <2> QED BY <1>2, <1>5, <2>1, <2>2, <2>3, <2>4, <2>5, PlainStarts
<1>7. ASSUME /\ Plain(todo')
             /\ UNCHANGED <<state, open, hint, current, known, complete, pool, running, down,
                            asyncCompute, recording, active>>
             /\ slice' \in {slice, None} /\ progressed' \in BOOLEAN
             /\ copy' \in Device!OpType \union {None}
             /\ \/ priority' = priority
                \/ \E s, r \in Device!Schedulers : priority' = Device!Later(priority, s, r)
             /\ \/ pending' = pending
                \/ \E s, r \in Device!Schedulers : active[s] /\ pending' = Device!Later(pending, s, r)
      PROVE  SchedulerInv'
    <2>1. /\ slice' \in Device!Schedulers \union {None}
          /\ recording' \in Device!Schedulers \union {None}
          /\ active' \in [Device!Schedulers -> BOOLEAN]
        BY <1>1, <1>7 DEF Device!TypeOK
    <2>2. \A s \in Device!Schedulers :
              /\ active[s] => active'[s]
              /\ active'[s] => recording' # None /\ (open[s] # 0 \/ Begins(todo', s))
        BY <1>3, <1>4, <1>7
    <2>3. slice' # None => active'[slice']
        BY <1>4, <1>7
    <2> QED BY <1>2, <1>7, <2>1, <2>2, <2>3, PlainStarts
<1>8. copy \in Device!OpType \union {None} /\ progressed \in BOOLEAN /\ current \in Nat
      /\ slice \in Device!Schedulers \union {None} /\ recording \in Device!Schedulers \union {None}
    BY <1>1 DEF Device!TypeOK
<1>9. Plain(<<>>)
    BY <1>5, <1>8, PlainLists
<1>10. CASE Device!DeferOperation
    <2>1. /\ slice \in Device!Schedulers /\ pending' = Device!Later(pending, slice, slice)
          /\ progressed' = TRUE
          /\ UNCHANGED <<state, open, hint, current, known, complete, pool, running, down,
                         asyncCompute, recording, active, slice, priority, copy, todo>>
        BY <1>8, <1>10 DEF Device!DeferOperation, Device!Packet, Device!PacketDone, Device!timeline,
                           Device!buffers
    <2>2. active[slice] /\ slice \in Device!Schedulers
        BY <1>4, <1>5, <2>1
    <2> QED BY <1>2, <1>7, <1>8, <1>9, <2>1, <2>2
<1>11. CASE Device!DeferPriorityOperation
    <2>1. /\ slice \in Device!Schedulers /\ priority' = Device!Later(priority, slice, slice)
          /\ progressed' = TRUE
          /\ UNCHANGED <<state, open, hint, current, known, complete, pool, running, down,
                         asyncCompute, recording, active, slice, pending, copy, todo>>
        BY <1>8, <1>11 DEF Device!DeferPriorityOperation, Device!Packet, Device!PacketDone,
                           Device!timeline, Device!buffers
    <2> QED BY <1>2, <1>7, <1>8, <1>9, <2>1
<1>12. ASSUME NEW on \in Device!Schedulers, Device!DeleteImage(on) PROVE SchedulerInv'
    <2>1. /\ active[Graphics] /\ pending' = Device!Later(pending, Graphics, on)
          /\ progressed' = TRUE
          /\ UNCHANGED <<state, open, hint, current, known, complete, pool, running, down,
                         asyncCompute, recording, active, slice, priority, copy, todo>>
        BY <1>12 DEF Device!DeleteImage, Device!Packet, Device!PacketDone, Device!timeline,
                     Device!buffers
    <2> QED BY <1>2, <1>5, <1>7, <1>8, <1>9, <1>12, <2>1
<1>13. CASE Device!PacketCalls
    <2>1. /\ slice \in Device!Schedulers /\ progressed' = TRUE
          /\ todo' \in {Device!Flush(slice), Device!FlushAndWait(slice),
                        <<Device!Call("finish", slice, 0)>>, <<Device!Call("refresh", slice, 0)>>}
          /\ UNCHANGED <<state, open, hint, current, known, complete, pool, running, down,
                         asyncCompute, recording, active, slice, priority, pending, copy>>
        BY <1>8, <1>13 DEF Device!PacketCalls, Device!Packet, Device!PacketDone, Device!timeline,
                           Device!buffers, Device!queues
    <2>2. Plain(todo')
        BY <1>8, <2>1, PlainLists
    <2> QED BY <1>7, <1>8, <2>1, <2>2
<1>14. CASE Device!SuspendSlice
    <2>1. /\ slice \in Device!Schedulers /\ slice' = None /\ progressed' = FALSE
          /\ todo' \in {Device!Flush(slice), <<>>}
          /\ UNCHANGED <<state, open, hint, current, known, complete, pool, running, down,
                         asyncCompute, recording, active, priority, pending, copy>>
        BY <1>8, <1>14 DEF Device!SuspendSlice, Device!SliceOver, Device!timeline,
                           Device!buffers, Device!queues
    <2>2. Plain(todo')
        BY <1>8, <2>1, PlainLists
    <2> QED BY <1>7, <1>8, <2>1, <2>2
<1>15. ASSUME NEW download \in BOOLEAN, NEW flip \in BOOLEAN, Device!CompleteSlice(download, flip)
       PROVE  SchedulerInv'
    <2>1. /\ slice \in Device!Schedulers /\ slice' = None /\ progressed' = FALSE
          /\ todo' \in {Device!Flush(slice), <<>>}
          /\ priority' \in {priority, Device!Later(priority, Graphics, Graphics)}
          /\ UNCHANGED <<state, open, hint, current, known, complete, pool, running, down,
                         asyncCompute, recording, active, pending, copy>>
        BY <1>8, <1>15 DEF Device!CompleteSlice, Device!SliceOver, Device!timeline,
                           Device!buffers, Device!queues
    <2>2. Plain(todo')
        BY <1>8, <2>1, PlainLists
    <2> QED BY <1>5, <1>7, <1>8, <2>1, <2>2
<1>16. CASE Device!Readback
    <2>1. /\ active[Graphics] /\ copy' = Device!Op(current, recording)
          /\ todo' = <<Device!Call("finish", Graphics, 0), Device!Call("waitpriority", Graphics, current),
                       Device!Call("read", Graphics, 0)>>
          /\ UNCHANGED <<state, open, hint, current, known, complete, pool, running, down,
                         asyncCompute, recording, active, slice, progressed, priority, pending>>
        BY <1>16 DEF Device!Readback, Device!Command, Device!timeline, Device!buffers, Device!queues,
                     Device!thread
    <2>2. recording \in Device!Schedulers
        BY <1>4, <1>5, <1>8, <2>1
    <2>3. copy' \in Device!OpType
        BY <1>8, <2>1, <2>2 DEF Device!Op, Device!OpType
    <2>4. Plain(todo')
        BY <1>5, <1>8, <2>1, PlainLists
    <2> QED BY <1>7, <1>8, <2>1, <2>3, <2>4
<1>17. CASE Device!UnmapMemory
    <2>1. /\ todo' = <<Device!Call("finish", Graphics, 0), Device!Call("waitpriority", Graphics, current)>>
          /\ UNCHANGED <<state, open, hint, current, known, complete, pool, running, down,
                         asyncCompute, recording, active, slice, progressed, priority, pending, copy>>
        BY <1>17 DEF Device!UnmapMemory, Device!timeline, Device!buffers, Device!queues,
                     Device!thread
    <2>2. Plain(todo')
        BY <1>5, <1>8, <2>1, PlainLists
    <2> QED BY <1>7, <1>8, <2>1, <2>2
<1> QED BY <1>6, <1>10, <1>11, <1>12, <1>13, <1>14, <1>15, <1>16, <1>17 DEF Device!GpuStarts

\* The GPU thread leaves its loop.
LEMMA LeavingKeeps ==
    ASSUME SchedulerInv, Device!CommandSchedulerAssumption, Device!ShutdownGpu
    PROVE  SchedulerInv'
<1>1. Device!TypeOK /\ Graphics \in Device!Schedulers /\ Compute \in Device!Schedulers
      /\ None \notin Device!Schedulers
    BY DEF SchedulerInv, Device!Schedulers, Device!CommandSchedulerAssumption
<1> DEFINE a == Device!Call("begin", Graphics, 0)
           b == Device!Call("finish", Graphics, 0)
           c == Device!Call("shutdown", Compute, 0)
           d == Device!Call("drain", Graphics, 0)
           e == Device!Call("shutdown", Graphics, 0)
<1>2. /\ todo = <<>> /\ ~down /\ down' = TRUE /\ slice = None /\ recording' = Graphics
      /\ active' = [active EXCEPT ![Graphics] = TRUE]
      /\ todo' = Device!BeginIfNone(Graphics) \o <<b, c, b, d, e>>
      /\ UNCHANGED <<state, open, hint, current, known, complete, pool, running, pending, priority,
                     copy, slice, progressed, asyncCompute>>
    BY DEF Device!ShutdownGpu, Device!Ready, Device!timeline, Device!buffers, Device!queues
<1>3. \A s \in Device!Schedulers : active[s] => open[s] # 0
    BY <1>2, Rested
<1>4. /\ a \in CallType /\ a.call = "begin" /\ a.on = Graphics
      /\ b \in CallType /\ b.call = "finish"
      /\ c \in CallType /\ c.call = "shutdown"
      /\ d \in CallType /\ d.call = "drain"
      /\ e \in CallType /\ e.call = "shutdown"
    BY <1>1 DEF Device!Call, CallType, Device!Calls
<1>5. Device!BeginIfNone(Graphics) = IF open[Graphics] = 0 THEN <<a>> ELSE <<>>
    BY DEF Device!BeginIfNone
<1> HIDE DEF a, b, c, d, e
<1>6. /\ todo' \in Seq(CallType) /\ Ordered(todo')
      /\ \A i \in DOMAIN todo' : todo'[i].call \notin {"pop", "close"}
      /\ open[Graphics] = 0 => Begins(todo', Graphics)
    <2>1. CASE open[Graphics] = 0
        <3> DEFINE t == <<b, c, b, d, e>>
                   w == <<a>> \o t
        <3>1. w \in Seq(CallType) /\ Len(w) = 6
              /\ \A i \in 1 .. 6 : w[i] = IF i <= 1 THEN <<a>>[i] ELSE t[i - 1]
            <4>1. <<a>> \in Seq(CallType) /\ Len(<<a>>) = 1 /\ t \in Seq(CallType) /\ Len(t) = 5
                BY <1>4
            <4> HIDE DEF t
            <4>2. /\ w \in Seq(CallType) /\ Len(w) = Len(<<a>>) + Len(t)
                  /\ \A i \in 1 .. Len(<<a>>) + Len(t) :
                        w[i] = IF i <= Len(<<a>>) THEN <<a>>[i] ELSE t[i - Len(<<a>>)]
                BY <4>1, ConcatProperties
            <4> QED BY <4>1, <4>2
        <3>2. /\ w \in Seq(CallType) /\ DOMAIN w = 1 .. 6 /\ w[1] = a /\ w[2] = b /\ w[3] = c
              /\ w[4] = b /\ w[5] = d /\ w[6] = e
            <4>1. <<a>>[1] = a /\ t[1] = b /\ t[2] = c /\ t[3] = b /\ t[4] = d /\ t[5] = e
                BY <1>4
            <4> HIDE DEF w, t
            <4>2. w[1] = <<a>>[1] /\ w[2] = t[1] /\ w[3] = t[2] /\ w[4] = t[3] /\ w[5] = t[4] /\ w[6] = t[5]
                BY <3>1
            <4> QED BY <3>1, <4>1, <4>2, LenProperties
        <3>3. todo' = w
            BY <1>2, <1>5, <2>1
        <3> HIDE DEF w
        <3>4. \A i \in DOMAIN w : i = 1 \/ i = 2 \/ i = 3 \/ i = 4 \/ i = 5 \/ i = 6
            BY <3>2
        <3>5. \A i \in DOMAIN w : /\ w[i].call \notin {"submit", "pop", "close"}
                                  /\ w[i].call = "begin" => i = 1
                                  /\ w[i].call = "shutdown" => i > 1
            BY <1>4, <3>2, <3>4
        <3>6. Ordered(w)
            BY <3>2, <3>5 DEF Ordered, Is
        <3>7. Begins(w, Graphics)
            BY <1>4, <3>2 DEF Begins, Is
        <3> QED BY <3>2, <3>3, <3>5, <3>6, <3>7
    <2>2. CASE open[Graphics] # 0
        <3> DEFINE w == <<b, c, b, d, e>>
        <3>1. /\ w \in Seq(CallType) /\ DOMAIN w = 1 .. 5 /\ w[1] = b /\ w[2] = c
              /\ w[3] = b /\ w[4] = d /\ w[5] = e
            BY <1>4
        <3>2. todo' = <<>> \o w
            BY <1>2, <1>5, <2>2
        <3> HIDE DEF w
        <3>3. todo' = w
            BY <3>1, <3>2, ConcatEmptySeq
        <3>4. \A i \in DOMAIN w : i = 1 \/ i = 2 \/ i = 3 \/ i = 4 \/ i = 5
            BY <3>1
        <3>5. \A i \in DOMAIN w : w[i].call \notin {"submit", "pop", "close", "begin"}
            BY <1>4, <3>1, <3>4
        <3>6. Ordered(w)
            BY <3>1, <3>5 DEF Ordered, Is
        <3> QED BY <2>2, <3>1, <3>3, <3>5, <3>6
    <2> QED BY <1>1, <2>1, <2>2 DEF Device!TypeOK
<1>7. Device!TypeOK'
    <2>1. active' \in [Device!Schedulers -> BOOLEAN]
        BY <1>1, <1>2 DEF Device!TypeOK
    <2> QED BY <1>1, <1>2, <1>6, <2>1 DEF Device!TypeOK, CallType
<1>8. ASSUME NEW s \in Device!Schedulers
      PROVE  /\ active'[s] => recording' # None /\ (open[s] # 0 \/ Begins(todo', s))
             /\ pending'[s] # <<>> => active'[s]
             /\ \A i \in DOMAIN pending'[s] : pending'[s][i].tick <= current'
    <2>1. active' = [active EXCEPT ![Graphics] = TRUE] /\ DOMAIN active = Device!Schedulers
        BY <1>1, <1>2 DEF Device!TypeOK
    <2>2. active[s] => active'[s]
        BY <2>1
    <2>3. active'[s] => active[s] \/ s = Graphics
        BY <2>1
    <2>4. recording' # None
        BY <1>1, <1>2
    <2> QED BY <1>2, <1>3, <1>6, <2>2, <2>3, <2>4 DEF SchedulerInv, QueuesOK
<1> QED BY <1>2, <1>6, <1>7, <1>8, StartKeeps

\* The device and the priority threads go on beside the GPU thread.
LEMMA BesideKeeps ==
    ASSUME SchedulerInv, Device!TypeOK',
           UNCHANGED <<todo, pending, state, current, open, hint, recording, active, slice, down>>,
           complete <= complete', known <= known',
           \A s \in Device!Schedulers :
              priority[s] = <<>> /\ running[s] = None => priority'[s] = <<>> /\ running'[s] = None
    PROVE  SchedulerInv'
<1>1. Device!ClosesEmpty'
    BY DEF SchedulerInv, Device!ClosesEmpty
<1>2. CallsOK' /\ QueuesOK' /\ CloseOK'
    BY DEF SchedulerInv, CallsOK, QueuesOK, CloseOK, Device!Doing
<1>3. ASSUME NEW s \in Device!Schedulers
      PROVE  (UpTo(s, complete) => UpTo(s, complete)') /\ (UpTo(s, known) => UpTo(s, known)')
    <2>1. \A i \in DOMAIN pending[s] : pending[s][i].tick \in Nat
        <3>1. pending[s] \in Seq(Device!OpType)
            BY DEF SchedulerInv, Device!TypeOK
        <3>2. \A i \in DOMAIN pending[s] : pending[s][i] \in Device!OpType
            BY <3>1
        <3> QED BY <3>2 DEF Device!OpType
    <2>2. complete \in Nat /\ complete' \in Nat /\ known \in Nat /\ known' \in Nat
        BY DEF SchedulerInv, Device!TypeOK
    <2> QED BY <2>1, <2>2 DEF UpTo
<1>4. ShutdownOK'
    <2> SUFFICES ASSUME NEW s \in Device!Schedulers, state[s] = "draining"
                 PROVE  \/ Ahead(todo, s, <<"wait", "refresh", "drain", "close">>) /\ UpTo(s, Head(todo).tick)
                        \/ Ahead(todo, s, <<"refresh", "drain", "close">>) /\ UpTo(s, complete)'
                        \/ Ahead(todo, s, <<"pop", "drain", "close">>) /\ UpTo(s, known)'
                        \/ Ahead(todo, s, <<"drain", "close">>) /\ pending[s] = <<>>
                        \/ Ahead(todo, s, <<"close">>) /\ pending[s] = <<>>
                                /\ priority'[s] = <<>> /\ running'[s] = None
        BY DEF ShutdownOK, UpTo
    <2> QED BY <1>3 DEF SchedulerInv, ShutdownOK
<1> QED BY <1>1, <1>2, <1>4 DEF SchedulerInv

LEMMA ConcurrentKeeps ==
    ASSUME SchedulerInv,
           Device!DeviceCompletes \/ \E s \in Device!Schedulers : Device!PriorityThread(s)
    PROVE  SchedulerInv'
<1>1. Device!TypeOK
    BY DEF SchedulerInv
<1>2. known \in Nat /\ complete \in Nat /\ known <= complete /\ current \in Nat /\ complete < current
    BY <1>1 DEF Device!TypeOK
<1>3. CASE Device!DeviceCompletes
    <2>1. /\ complete + 1 < current /\ complete' = complete + 1
          /\ UNCHANGED <<todo, pending, state, current, open, hint, recording, active, slice, down,
                         known, pool, priority, running, progressed, asyncCompute, copy>>
        BY <1>3 DEF Device!DeviceCompletes, Device!buffers, Device!queues, Device!thread
    <2>2. complete' \in Nat /\ known' <= complete' /\ complete' < current'
        BY <1>2, <2>1
    <2>3. Device!TypeOK'
        BY <1>1, <2>1, <2>2 DEF Device!TypeOK
    <2> QED BY <1>2, <2>1, <2>3, BesideKeeps
<1>4. ASSUME NEW s \in Device!Schedulers, Device!TakePriority(s) PROVE SchedulerInv'
    <2>1. /\ priority[s] # <<>>
          /\ running' = [running EXCEPT ![s] = Head(priority[s])]
          /\ priority' = [priority EXCEPT ![s] = Tail(@)]
          /\ UNCHANGED <<todo, pending, state, current, open, hint, recording, active, slice, down,
                         known, complete, pool, progressed, asyncCompute, copy>>
        BY <1>4 DEF Device!TakePriority, Device!timeline, Device!buffers, Device!thread
    <2>2. priority[s] \in Seq(Device!OpType)
        BY <1>1 DEF Device!TypeOK
    <2>3. Head(priority[s]) \in Device!OpType /\ Tail(priority[s]) \in Seq(Device!OpType)
        BY <2>1, <2>2, HeadTailProperties
    <2>4. /\ running' \in [Device!Schedulers -> Device!OpType \union {None}]
          /\ priority' \in [Device!Schedulers -> Seq(Device!OpType)]
          /\ \A r \in Device!Schedulers : r # s => running'[r] = running[r] /\ priority'[r] = priority[r]
        BY <1>1, <2>1, <2>3 DEF Device!TypeOK
    <2>5. Device!TypeOK'
        BY <1>1, <2>1, <2>4 DEF Device!TypeOK
    <2> QED BY <1>2, <2>1, <2>4, <2>5, BesideKeeps
<1>5. ASSUME NEW s \in Device!Schedulers, Device!RunPriority(s) PROVE SchedulerInv'
    <2>1. /\ running[s] # None
          /\ known' = known \/ known' = complete
          /\ running' = [running EXCEPT ![s] = None]
          /\ UNCHANGED <<todo, pending, state, current, open, hint, recording, active, slice, down,
                         complete, pool, priority, progressed, asyncCompute, copy>>
        BY <1>5 DEF Device!RunPriority, Device!KnownAfterWait, Device!buffers, Device!thread
    <2>2. known' \in Nat /\ known <= known' /\ known' <= complete'
        BY <1>2, <2>1
    <2>3. /\ running' \in [Device!Schedulers -> Device!OpType \union {None}]
          /\ \A r \in Device!Schedulers : r # s => running'[r] = running[r]
        BY <1>1, <2>1 DEF Device!TypeOK
    <2>4. Device!TypeOK'
        BY <1>1, <2>1, <2>2, <2>3 DEF Device!TypeOK
    <2> QED BY <1>2, <2>1, <2>2, <2>3, <2>4, BesideKeeps
<1> QED BY <1>3, <1>4, <1>5 DEF Device!PriorityThread

LEMMA SchedulerStarts ==
    ASSUME Device!CommandSchedulerAssumption, Device!Init
    PROVE  SchedulerInv
<1>1. todo = <<>> /\ DOMAIN todo = {}
    BY DEF Device!Init
<1>2. <<>> \in Seq(CallType) /\ <<>> \in Seq(Device!OpType) /\ <<>> \in Seq([tick : Nat, due : Nat])
    OBVIOUS
<1>3. Device!TypeOK
    <2>1. asyncCompute \in BOOLEAN /\ progressed \in BOOLEAN /\ down \in BOOLEAN
        BY DEF Device!Init
    <2>2. current = 1 /\ known = 0 /\ complete = 0
        BY DEF Device!Init
    <2>3. /\ current \in Nat /\ known \in Nat /\ complete \in Nat
          /\ known <= complete /\ complete < current
        BY <2>2
    <2>4. /\ recording \in Device!Schedulers \union {None} /\ slice \in Device!Schedulers \union {None}
          /\ active \in [Device!Schedulers -> BOOLEAN]
        BY DEF Device!Init
    <2>5. /\ open \in [Device!Schedulers -> Nat] /\ hint \in [Device!Schedulers -> Nat]
          /\ running \in [Device!Schedulers -> Device!OpType \union {None}]
          /\ state \in [Device!Schedulers -> {"open", "draining", "closed"}]
          /\ copy \in Device!OpType \union {None}
        BY DEF Device!Init
    <2>6. /\ pool \in [Device!Schedulers -> Seq([tick : Nat, due : Nat])]
          /\ pending \in [Device!Schedulers -> Seq(Device!OpType)]
          /\ priority \in [Device!Schedulers -> Seq(Device!OpType)]
        BY <1>2 DEF Device!Init
    <2>7. todo \in Seq([call : Device!Calls, on : Device!Schedulers, tick : Nat])
        BY <1>1
    <2> QED BY <2>1, <2>5, <2>6, <2>7, <2>3, <2>4 DEF Device!TypeOK
<1>4. Device!ClosesEmpty /\ ShutdownOK
    BY DEF Device!Init, Device!ClosesEmpty, ShutdownOK
<1>5. CallsOK /\ CloseOK
    BY <1>1 DEF CallsOK, CloseOK, Ordered, Device!Doing
<1>6. QueuesOK
    BY DEF Device!Init, QueuesOK
<1> QED BY <1>3, <1>4, <1>5, <1>6 DEF SchedulerInv

LEMMA SchedulerStep ==
    ASSUME SchedulerInv, Device!CommandSchedulerAssumption, Device!Next \/ UNCHANGED deviceVars
    PROVE  SchedulerInv'
<1>1. ASSUME UNCHANGED deviceVars PROVE SchedulerInv'
    <2>1. Device!TypeOK' /\ Device!ClosesEmpty'
        BY <1>1 DEF deviceVars, SchedulerInv, Device!TypeOK, Device!ClosesEmpty
    <2>2. UNCHANGED <<todo, pending, state, current, open, hint, recording, active, slice, down,
                      complete, known, priority, running>>
        BY <1>1 DEF deviceVars
    <2>3. complete <= complete' /\ known <= known'
        BY <2>2 DEF SchedulerInv, Device!TypeOK
    <2> QED BY <2>1, <2>2, <2>3, BesideKeeps
<1>2. ASSUME NEW s \in Device!Schedulers, Device!GpuCall(s) PROVE SchedulerInv'
    BY <1>2, SubmitKeeps, BeginCommandKeeps, WaitKeeps, FinishKeeps, RefreshKeeps, PopKeeps,
       ReadbackKeeps, ShutdownKeeps, DrainKeeps, CloseKeeps DEF Device!GpuCall
<1>3. CASE Device!GpuStarts
    BY <1>3, GuestKeeps, LeavingKeeps
<1>4. CASE Device!Terminated
    <2>1. UNCHANGED deviceVars
        BY <1>4 DEF Device!Terminated, Device!vars, Device!timeline, Device!buffers, Device!queues,
                    Device!thread, deviceVars
    <2> QED BY <1>1, <2>1
<1>5. CASE Device!WriteBacking
    BY <1>5, ReadbackKeeps
<1>6. CASE Device!DeviceCompletes \/ \E s \in Device!Schedulers : Device!PriorityThread(s)
    BY <1>6, ConcurrentKeeps
<1> QED BY <1>1, <1>2, <1>3, <1>4, <1>5, <1>6 DEF Device!Next

\* The host believes the device no further than it is, every queue is typed, and
\* a scheduler closes only when no operation was left behind and none is in the
\* priority thread's hand (Shutdown's assertion), for every pool, every number of
\* operations and every order of packets, commands and completions.
THEOREM SchedulerCorrect ==
    ASSUME Device!CommandSchedulerAssumption
    PROVE  MCSpec => []SchedulerSound
<1>1. MCInit => SchedulerInv
    BY SchedulerStarts DEF MCInit
<1>2. SchedulerInv /\ [DeviceStep \/ RingStep \/ CacheStep]_allVars => SchedulerInv'
    BY SchedulerStep DEF DeviceStep, RingStep, CacheStep, allVars
<1>3. SchedulerInv => SchedulerSound
    BY DEF SchedulerInv, SchedulerSound, Device!SchedulerSound
<1> QED BY <1>1, <1>2, <1>3, PTL DEF MCSpec

-----------------------------------------------------------------------------
(* A guest that uses the graphics queue only. *)

\* An operation of the graphics queue has the tick of the submission that carries
\* it, once that is made.
Timed(o, now) ==
    /\ o.on = Graphics /\ 0 < o.tick /\ o.tick <= now
    /\ o.due = IF o.tick < now THEN o.tick ELSE 0

\* A guest that uses no compute queue: the compute scheduler records nothing.
Ours(c) == c.on = Compute => c.call \notin {"submit", "begin", "finish"}
OneQueue ==
    /\ slice # Compute /\ recording # Compute /\ ~active[Compute] /\ open[Compute] = 0
    /\ \A i \in DOMAIN todo : Ours(todo[i])

OpsTimed ==
    \A s \in Device!Schedulers :
        /\ \A i \in DOMAIN pending[s] : Timed(pending[s][i], current)
        /\ \A i \in DOMAIN priority[s] : Timed(priority[s][i], current)
        /\ running[s] # None => Timed(running[s], current)

\* The open buffer has the tick it will be submitted with; no other was submitted
\* later than its tick says.  The hint stands behind a buffer of the pool.
PoolTimed ==
    /\ hint[Graphics] > 1 => hint[Graphics] - 1 \in DOMAIN pool[Graphics]
    /\ open[Graphics] # 0 =>
          open[Graphics] \in DOMAIN pool[Graphics] /\ pool[Graphics][open[Graphics]].tick = current
    /\ \A i \in DOMAIN pool[Graphics] : pool[Graphics][i].due <= pool[Graphics][i].tick

\* A readback is recorded, or waits for its tick, or is complete.
CopyOK ==
    copy # None =>
        /\ Timed(copy, current)
        /\ \/ todo # <<>> /\ Is(Head(todo), "finish", Graphics) /\ open[Graphics] # 0
           \/ /\ todo # <<>> /\ Head(todo).call = "wait"
              /\ copy.tick <= Head(todo).tick /\ copy.tick < current
           \/ copy.tick <= complete

PopsFree ==
    \A s \in Device!Schedulers :
        Device!Doing("pop", s) => pending[s] # <<>> /\ Head(pending[s]).tick <= known

GraphicsOnly == OneQueue /\ OpsTimed /\ PoolTimed /\ CopyOK /\ PopsFree
DoneInv == SchedulerInv /\ (~asyncCompute => GraphicsOnly)

\* What a step does only once the device is done.
StepDone ==
    /\ copy # None /\ copy' = None => Device!Complete(copy)
    /\ \A s \in Device!Schedulers : \A o \in Device!RanPending(s) : Device!Complete(o)
    /\ \A o \in Device!RanPriority : Device!Complete(o)
    /\ \A s \in Device!Schedulers :
          open[s] = 0 /\ open'[s] \in 1 .. Len(pool[s]) => pool[s][open'[s]].due <= complete

\* A step that runs nothing and begins no buffer.
LEMMA Harmless ==
    ASSUME copy' = copy \/ copy' # None,
           \A s \in Device!Schedulers :
              /\ Len(pending[s]) \in Nat /\ Len(pending'[s]) \in Nat
              /\ Len(pending[s]) <= Len(pending'[s])
              /\ running[s] # None => running'[s] # None
              /\ open[s] = 0 => open'[s] = 0
    PROVE  StepDone
<1>1. \A s \in Device!Schedulers : Device!RanPending(s) = {}
    BY DEF Device!RanPending
<1>2. Device!RanPriority = {}
    BY DEF Device!RanPriority
<1>3. \A n : ~(0 \in 1 .. n)
    OBVIOUS
<1> QED BY <1>1, <1>2, <1>3 DEF StepDone

LEMMA TimedComplete ==
    ASSUME Device!TypeOK, NEW o \in Device!OpType, Timed(o, current), o.tick <= complete
    PROVE  Device!Complete(o)
BY DEF Device!TypeOK, Device!OpType, Timed, Device!Complete

\* The operations that are queued, run or copied are operations.
LEMMA OpsTyped ==
    ASSUME SchedulerInv, NEW s \in Device!Schedulers
    PROVE  /\ pending[s] \in Seq(Device!OpType) /\ priority[s] \in Seq(Device!OpType)
           /\ Len(pending[s]) \in Nat /\ DOMAIN pending[s] = 1 .. Len(pending[s])
           /\ Len(priority[s]) \in Nat /\ DOMAIN priority[s] = 1 .. Len(priority[s])
           /\ \A i \in DOMAIN pending[s] : pending[s][i] \in Device!OpType
           /\ \A i \in DOMAIN priority[s] : priority[s][i] \in Device!OpType
           /\ running[s] # None => running[s] \in Device!OpType
           /\ copy # None => copy \in Device!OpType
<1>1. /\ pending[s] \in Seq(Device!OpType) /\ priority[s] \in Seq(Device!OpType)
      /\ running[s] # None => running[s] \in Device!OpType
      /\ copy # None => copy \in Device!OpType
    BY DEF SchedulerInv, Device!TypeOK
<1> QED BY <1>1, LenProperties

\* A submission of the graphics scheduler stamps what was recorded for it.
LEMMA StampTimes ==
    ASSUME Device!TypeOK, Device!CommandSchedulerAssumption, current' = current + 1,
           NEW o \in Device!OpType, Timed(o, current), NEW w, w = Device!Stamped(o, Graphics)
    PROVE  w # None /\ w.tick = o.tick /\ o.tick < current' /\ Timed(w, current')
<1>1. o # None /\ None \notin Device!OpType
    BY DEF Device!CommandSchedulerAssumption, Device!OpType
<1>2. o.tick \in Nat /\ o.due \in Nat /\ current \in Nat /\ 0 < o.tick /\ o.tick <= current
      /\ o.on = Graphics
    BY DEF Device!TypeOK, Device!OpType, Timed
<1>3. w \in Device!OpType /\ w # None /\ w.tick = o.tick /\ w.on = Graphics /\ w.due = o.tick
    <2>1. CASE o.due = 0
        <3>1. o.tick = current
            BY <1>2, <2>1 DEF Timed
        <3>2. w = [o EXCEPT !.due = current]
            BY <1>1, <1>2, <2>1 DEF Device!Stamped
        <3> QED BY <1>1, <1>2, <3>1, <3>2 DEF Device!OpType
    <2>2. CASE o.due # 0
        <3>1. o.due = o.tick
            BY <2>2 DEF Timed
        <3>2. w = o
            BY <2>2 DEF Device!Stamped
        <3> QED BY <1>1, <1>2, <3>1, <3>2
    <2> QED BY <2>1, <2>2
<1>4. o.tick < current'
    BY <1>2
<1> QED BY <1>2, <1>3, <1>4 DEF Timed

\* Two lists of the same length.
LEMMA SameLength ==
    ASSUME NEW S, NEW q \in Seq(S), NEW w \in Seq(S), DOMAIN q = DOMAIN w
    PROVE  Len(q) = Len(w)
<1>1. Len(q) \in Nat /\ Len(w) \in Nat /\ 1 .. Len(q) = 1 .. Len(w)
    BY LenProperties
<1>2. \A i \in Nat : i \in 1 .. Len(q) <=> i \in 1 .. Len(w)
    BY <1>1
<1>3. CASE Len(q) < Len(w)
    <2>1. Len(w) \in 1 .. Len(w) /\ Len(w) \notin 1 .. Len(q)
        BY <1>1, <1>3
    <2> QED BY <1>1, <2>1
<1>4. CASE Len(w) < Len(q)
    <2>1. Len(q) \in 1 .. Len(q) /\ Len(q) \notin 1 .. Len(w)
        BY <1>1, <1>4
    <2> QED BY <1>1, <2>1
<1> QED BY <1>1, <1>3, <1>4

LEMMA SubmitTimes ==
    ASSUME SchedulerInv, GraphicsOnly, Device!CommandSchedulerAssumption,
           Device!Submit(Graphics), hint' = hint
    PROVE  /\ current' = current + 1 /\ open' = [open EXCEPT ![Graphics] = 0]
           /\ OpsTimed' /\ PoolTimed'
           /\ copy = None => copy' = None
           /\ copy # None => /\ copy' # None /\ Timed(copy', current')
                             /\ copy'.tick = copy.tick /\ copy.tick < current'
           /\ \A r \in Device!Schedulers :
                 /\ Len(pending'[r]) = Len(pending[r]) /\ Len(pending[r]) \in Nat
                 /\ running[r] # None => running'[r] # None
<1>1. /\ Device!TypeOK /\ Graphics \in Device!Schedulers /\ OpsTimed /\ PoolTimed /\ CopyOK
      /\ current \in Nat
    BY DEF SchedulerInv, Device!Schedulers, GraphicsOnly, Device!TypeOK
<1>2. /\ current' = current + 1 /\ open' = [open EXCEPT ![Graphics] = 0]
      /\ pool' = [pool EXCEPT ![Graphics] = [@ EXCEPT ![open[Graphics]].due = current]]
      /\ pending' = [r \in Device!Schedulers |->
                        [i \in DOMAIN pending[r] |-> Device!Stamped(pending[r][i], Graphics)]]
      /\ priority' = [r \in Device!Schedulers |->
                        [i \in DOMAIN priority[r] |-> Device!Stamped(priority[r][i], Graphics)]]
      /\ running' = [r \in Device!Schedulers |-> Device!Stamped(running[r], Graphics)]
      /\ copy' = Device!Stamped(copy, Graphics)
    BY DEF Device!Submit, Device!StampedAll
<1>3. Device!Stamped(None, Graphics) = None
    BY DEF Device!Stamped
<1>4. ASSUME NEW r \in Device!Schedulers
      PROVE  /\ \A i \in DOMAIN pending'[r] : Timed(pending'[r][i], current')
             /\ \A i \in DOMAIN priority'[r] : Timed(priority'[r][i], current')
             /\ running'[r] # None => Timed(running'[r], current')
             /\ running[r] # None => running'[r] # None
    <2>1. ASSUME NEW i \in DOMAIN pending'[r] PROVE Timed(pending'[r][i], current')
        <3>1. pending[r][i] \in Device!OpType /\ Timed(pending[r][i], current)
              /\ pending'[r][i] = Device!Stamped(pending[r][i], Graphics)
            BY <1>1, <1>2, <2>1, OpsTyped DEF OpsTimed
        <3> QED BY <1>1, <1>2, <3>1, StampTimes
    <2>2. ASSUME NEW i \in DOMAIN priority'[r] PROVE Timed(priority'[r][i], current')
        <3>1. priority[r][i] \in Device!OpType /\ Timed(priority[r][i], current)
              /\ priority'[r][i] = Device!Stamped(priority[r][i], Graphics)
            BY <1>1, <1>2, <2>2, OpsTyped DEF OpsTimed
        <3> QED BY <1>1, <1>2, <3>1, StampTimes
    <2>3. running'[r] = Device!Stamped(running[r], Graphics)
        BY <1>2
    <2>4. CASE running[r] # None
        <3>1. running[r] \in Device!OpType /\ Timed(running[r], current)
            BY <1>1, <2>4, OpsTyped DEF OpsTimed
        <3> QED BY <1>1, <1>2, <2>1, <2>2, <2>3, <2>4, <3>1, StampTimes
    <2>5. CASE running[r] = None
        BY <1>3, <2>1, <2>2, <2>3, <2>5
    <2> QED BY <2>4, <2>5
<1>5. OpsTimed'
    BY <1>4 DEF OpsTimed
<1>6. PoolTimed'
    <2>1. open'[Graphics] = 0
        BY <1>1, <1>2 DEF Device!TypeOK
    <2> DEFINE p == pool[Graphics]
               k == open[Graphics]
    <2>2. /\ p \in Seq([tick : Nat, due : Nat]) /\ DOMAIN p = 1 .. Len(p)
          /\ \A i \in DOMAIN p : p[i] \in [tick : Nat, due : Nat]
        BY <1>1, LenProperties DEF Device!TypeOK
    <2>3. pool'[Graphics] = [p EXCEPT ![k].due = current]
        BY <1>1, <1>2 DEF Device!TypeOK
    <2>4. k # 0 => k \in DOMAIN p /\ p[k].tick = current
        BY <1>1 DEF PoolTimed
    <2>5. /\ \A i \in DOMAIN p : p[i].due <= p[i].tick
          /\ hint'[Graphics] > 1 => hint'[Graphics] - 1 \in DOMAIN p
        BY <1>1 DEF PoolTimed
    <2> HIDE DEF p, k
    <2>6. DOMAIN pool'[Graphics] = DOMAIN p
        BY <2>3
    <2>7. ASSUME NEW i \in DOMAIN p
          PROVE  pool'[Graphics][i].due <= pool'[Graphics][i].tick
        <3>1. CASE i = k
            <4>1. k # 0
                BY <2>2, <3>1
            <4>2. pool'[Graphics][i] = [p[i] EXCEPT !.due = current]
                BY <2>3, <3>1
            <4> QED BY <1>1, <2>2, <2>4, <3>1, <4>1, <4>2
        <3>2. CASE i # k
            BY <2>3, <2>5, <3>2
        <3> QED BY <3>1, <3>2
    <2> QED BY <2>1, <2>5, <2>6, <2>7 DEF PoolTimed
<1>7. /\ copy = None => copy' = None
      /\ copy # None => /\ copy' # None /\ Timed(copy', current')
                        /\ copy'.tick = copy.tick /\ copy.tick < current'
    <2>1. CASE copy = None
        BY <1>2, <1>3, <2>1
    <2>2. CASE copy # None
        <3>1. copy \in Device!OpType /\ Timed(copy, current)
            BY <1>1, <2>2, OpsTyped DEF CopyOK
        <3> QED BY <1>1, <1>2, <2>2, <3>1, StampTimes
    <2> QED BY <2>1, <2>2
<1>8. ASSUME NEW r \in Device!Schedulers
      PROVE  Len(pending'[r]) = Len(pending[r]) /\ Len(pending[r]) \in Nat
    <2>1. pending[r] \in Seq(Device!OpType) /\ Len(pending[r]) \in Nat
        BY OpsTyped
    <2>2. pending'[r] \in Seq(Device!OpType) /\ DOMAIN pending'[r] = DOMAIN pending[r]
        BY <1>1, Submitted
    <2> QED BY <2>1, <2>2, SameLength
<1> QED BY <1>2, <1>4, <1>5, <1>6, <1>7, <1>8

\* What the present call leaves to do, on the graphics scheduler.
LEMMA CallTimes ==
    ASSUME SchedulerInv, OneQueue, todo # <<>>, NEW c \in Seq(CallType), Ordered(c),
           \A i \in DOMAIN c : c[i].call # "shutdown" /\ Ours(c[i]),
           todo' = c \o Tail(todo), UNCHANGED <<slice, recording, active, down>>,
           open'[Compute] = 0
    PROVE  /\ OneQueue'
           /\ c # <<>> => todo' # <<>> /\ Head(todo') = c[1]
           /\ \A s \in Device!Schedulers :
                 (todo' # <<>> /\ Head(todo').call = "pop" /\ Head(todo').on = s) =>
                    c # <<>> /\ Is(c[1], "pop", s)
<1>1. todo \in Seq(CallType)
    BY DEF SchedulerInv, Device!TypeOK, CallType
<1> DEFINE n == Len(c)
           m == Len(todo)
           w == c \o Tail(todo)
<1>2. /\ w \in Seq(CallType) /\ Len(w) = n + m - 1
      /\ \A i \in 1 .. n : w[i] = c[i]
      /\ \A i \in 1 .. n + m - 1 : i <= n \/ (i - n + 1 \in 2 .. m /\ w[i] = todo[i - n + 1])
    BY <1>1, Continued
<1>3. n \in Nat /\ m \in Nat /\ DOMAIN c = 1 .. n /\ DOMAIN todo = 1 .. m /\ DOMAIN w = 1 .. n + m - 1
    BY <1>1, <1>2, LenProperties
<1> HIDE DEF w
<1>4. ASSUME NEW i \in DOMAIN w PROVE Ours(w[i])
    <2>1. CASE i <= n
        <3>1. i \in 1 .. n
            BY <1>3, <2>1
        <3>2. i \in DOMAIN c /\ w[i] = c[i]
            BY <1>2, <1>3, <3>1
        <3> QED BY <3>2
    <2>2. CASE ~(i <= n)
        <3>1. i - n + 1 \in 2 .. m /\ w[i] = todo[i - n + 1]
            BY <1>2, <1>3, <2>2
        <3>2. i - n + 1 \in DOMAIN todo
            BY <1>3, <3>1
        <3>3. Ours(todo[i - n + 1])
            BY <3>2 DEF OneQueue
        <3> QED BY <3>1, <3>3
    <2> QED BY <2>1, <2>2
<1>5. todo' = w
    BY DEF w
<1>6. OneQueue'
    BY <1>4, <1>5 DEF OneQueue
<1>7. c # <<>> => todo' # <<>> /\ Head(todo') = c[1]
    <2> SUFFICES ASSUME c # <<>> PROVE todo' # <<>> /\ Head(todo') = c[1]
        OBVIOUS
    <2>1. n # 0 /\ m # 0
        BY <1>1, EmptySeq
    <2>2. 1 \in 1 .. n /\ Len(w) # 0
        BY <1>2, <1>3, <2>1
    <2>3. w # <<>>
        BY <2>2
    <2>4. Head(w) = w[1]
        BY <1>2, <2>3, HeadTailProperties
    <2> QED BY <1>2, <1>5, <2>2, <2>3, <2>4
<1>8. \A s \in Device!Schedulers :
         (todo' # <<>> /\ Head(todo').call = "pop" /\ Head(todo').on = s) =>
            c # <<>> /\ Is(c[1], "pop", s)
    BY Goes
<1> QED BY <1>6, <1>7, <1>8

\* The operations that are queued are timed as before.
LEMMA OpsStay ==
    ASSUME OpsTimed, UNCHANGED <<pending, priority, running, current>>
    PROVE  OpsTimed'
BY DEF OpsTimed

LEMMA PoolStays ==
    ASSUME PoolTimed, UNCHANGED <<pool, open, hint, current>>
    PROVE  PoolTimed'
BY DEF PoolTimed

\* A readback that is neither recorded nor waited for is complete.
LEMMA CopyDone ==
    ASSUME CopyOK, todo = <<>> \/ Head(todo).call \notin {"finish", "wait"},
           UNCHANGED <<copy, current, complete>>
    PROVE  CopyOK' /\ (copy # None => Timed(copy, current) /\ copy.tick <= complete)
BY DEF CopyOK, Is

\* The lists of calls that follow a call.
LEMMA NextLists ==
    ASSUME Device!CommandSchedulerAssumption, NEW s \in Device!Schedulers, NEW t \in Nat
    PROVE  /\ <<>> \in Seq(CallType) /\ Ordered(<<>>)
           /\ \A i \in DOMAIN <<>> : <<>>[i].call # "shutdown" /\ Ours(<<>>[i])
           /\ LET c == <<Device!Call("wait", s, t), Device!Call("begin", s, 0),
                         Device!Call("refresh", s, 0)>>
              IN  /\ c \in Seq(CallType) /\ Ordered(c) /\ c # <<>>
                  /\ \A i \in DOMAIN c : c[i].call # "shutdown" /\ (s = Graphics => Ours(c[i]))
                  /\ c[1].call = "wait" /\ c[1].tick = t
           /\ LET c == <<Device!Call("wait", s, t), Device!Call("refresh", s, 0),
                         Device!Call("drain", s, 0), Device!Call("close", s, 0)>>
              IN  /\ c \in Seq(CallType) /\ Ordered(c) /\ c # <<>>
                  /\ \A i \in DOMAIN c : c[i].call # "shutdown" /\ Ours(c[i])
                  /\ c[1].call = "wait" /\ c[1].tick = t
           /\ LET c == <<Device!Call("pop", s, 0)>>
              IN  /\ c \in Seq(CallType) /\ Ordered(c) /\ c # <<>>
                  /\ \A i \in DOMAIN c : c[i].call # "shutdown" /\ Ours(c[i])
<1>1. ASSUME NEW call \in Device!Calls, NEW u \in Nat
      PROVE  /\ Device!Call(call, s, u) \in CallType
             /\ Device!Call(call, s, u).call = call /\ Device!Call(call, s, u).on = s
             /\ Device!Call(call, s, u).tick = u
    BY DEF Device!Call, CallType
<1>2. {"begin", "wait", "refresh", "pop", "drain", "close"} \subseteq Device!Calls /\ 0 \in Nat
    BY DEF Device!Calls
<1> DEFINE a == Device!Call("wait", s, t)
           b == Device!Call("begin", s, 0)
           r == Device!Call("refresh", s, 0)
           d == Device!Call("drain", s, 0)
           e == Device!Call("close", s, 0)
           p == Device!Call("pop", s, 0)
<1>3. /\ a \in CallType /\ a.call = "wait" /\ a.tick = t /\ b \in CallType /\ b.call = "begin" /\ b.on = s
      /\ r \in CallType /\ r.call = "refresh" /\ d \in CallType /\ d.call = "drain"
      /\ e \in CallType /\ e.call = "close" /\ p \in CallType /\ p.call = "pop"
    BY <1>1, <1>2
<1> HIDE DEF a, b, r, d, e, p
<1>4. <<>> \in Seq(CallType) /\ DOMAIN <<>> = {} /\ Ordered(<<>>)
    BY DEF Ordered
<1>5. LET c == <<a, b, r>>
      IN  /\ c \in Seq(CallType) /\ Ordered(c) /\ c # <<>>
          /\ \A i \in DOMAIN c : c[i].call # "shutdown" /\ (s = Graphics => Ours(c[i]))
          /\ c[1].call = "wait" /\ c[1].tick = t
    <2> DEFINE c == <<a, b, r>>
    <2>1. c \in Seq(CallType) /\ DOMAIN c = {1, 2, 3} /\ c[1] = a /\ c[2] = b /\ c[3] = r /\ c # <<>>
        BY <1>3
    <2>2. Graphics # Compute
        BY DEF Device!CommandSchedulerAssumption
    <2> HIDE DEF c
    <2>3. Ordered(c)
        BY <1>3, <2>1 DEF Ordered
    <2>4. \A i \in DOMAIN c : c[i].call # "shutdown" /\ (s = Graphics => Ours(c[i]))
        BY <1>3, <2>1, <2>2 DEF Ours
    <2> QED BY <1>3, <2>1, <2>3, <2>4 DEF c
<1>6. LET c == <<a, r, d, e>>
      IN  /\ c \in Seq(CallType) /\ Ordered(c) /\ c # <<>>
          /\ \A i \in DOMAIN c : c[i].call # "shutdown" /\ Ours(c[i])
          /\ c[1].call = "wait" /\ c[1].tick = t
    <2> DEFINE c == <<a, r, d, e>>
    <2>1. /\ c \in Seq(CallType) /\ DOMAIN c = {1, 2, 3, 4} /\ c # <<>>
          /\ c[1] = a /\ c[2] = r /\ c[3] = d /\ c[4] = e
        BY <1>3
    <2> HIDE DEF c
    <2>2. Ordered(c)
        BY <1>3, <2>1 DEF Ordered
    <2>3. \A i \in DOMAIN c : c[i].call # "shutdown" /\ Ours(c[i])
        BY <1>3, <2>1 DEF Ours
    <2> QED BY <1>3, <2>1, <2>2, <2>3 DEF c
<1>7. LET c == <<p>>
      IN  /\ c \in Seq(CallType) /\ Ordered(c) /\ c # <<>>
          /\ \A i \in DOMAIN c : c[i].call # "shutdown" /\ Ours(c[i])
    <2> DEFINE c == <<p>>
    <2>1. c \in Seq(CallType) /\ DOMAIN c = {1} /\ c[1] = p /\ c # <<>>
        BY <1>3
    <2> HIDE DEF c
    <2>2. Ordered(c)
        BY <1>3, <2>1 DEF Ordered
    <2>3. \A i \in DOMAIN c : c[i].call # "shutdown" /\ Ours(c[i])
        BY <1>3, <2>1 DEF Ours
    <2> QED BY <2>1, <2>2, <2>3 DEF c
<1> QED BY <1>4, <1>5, <1>6, <1>7 DEF a, b, r, d, e, p

\* Submit
LEMMA SubmitCallTimes ==
    ASSUME SchedulerInv, GraphicsOnly, Device!CommandSchedulerAssumption,
           NEW s \in Device!Schedulers, Device!SubmitCall(s)
    PROVE  GraphicsOnly' /\ StepDone
<1>1. /\ todo # <<>> /\ Head(todo).call = "submit" /\ Head(todo).on = s
      /\ Device!Submit(s) /\ todo' = <<>> \o Tail(todo)
      /\ UNCHANGED <<complete, known, hint, slice, recording, active, down>>
    BY DEF Device!SubmitCall, Device!Doing, Device!ThenDo, Device!thread
<1>2. /\ Device!TypeOK /\ todo \in Seq(CallType) /\ Graphics \in Device!Schedulers
      /\ Compute \in Device!Schedulers /\ Graphics # Compute
      /\ Device!Schedulers = {Graphics, Compute}
    BY DEF SchedulerInv, Device!TypeOK, CallType, Device!Schedulers, Device!CommandSchedulerAssumption
<1>3. s = Graphics
    <2>1. 1 \in DOMAIN todo /\ Head(todo) = todo[1]
        BY <1>1, <1>2, EmptySeq, LenProperties, HeadTailProperties
    <2> QED BY <1>1, <1>2, <2>1 DEF GraphicsOnly, OneQueue, Ours
<1>4. /\ open' = [open EXCEPT ![Graphics] = 0] /\ OpsTimed' /\ PoolTimed'
      /\ copy = None => copy' = None
      /\ copy # None => copy' # None /\ Timed(copy', current') /\ copy'.tick = copy.tick
      /\ \A r \in Device!Schedulers :
            /\ Len(pending'[r]) = Len(pending[r]) /\ Len(pending[r]) \in Nat
            /\ running[r] # None => running'[r] # None
    BY <1>1, <1>3, SubmitTimes
<1>5. open'[Compute] = 0 /\ \A r \in Device!Schedulers : open[r] = 0 => open'[r] = 0
    BY <1>2, <1>4 DEF Device!TypeOK, GraphicsOnly, OneQueue
<1>6. OneQueue' /\ PopsFree'
    BY <1>1, <1>2, <1>5, NextLists, CallTimes, 0 \in Nat DEF GraphicsOnly, PopsFree, Device!Doing
<1>7. CopyOK'
    BY <1>1, <1>4 DEF GraphicsOnly, CopyOK, Is
<1>8. StepDone
    BY <1>4, <1>5, Harmless
<1> QED BY <1>4, <1>6, <1>7, <1>8 DEF GraphicsOnly

\* A step of a call that waits or is over.
LEMMA OverTimes ==
    ASSUME SchedulerInv, GraphicsOnly, Device!CommandSchedulerAssumption, todo # <<>>,
           Head(todo).call # "finish",
           Head(todo).call = "wait" => complete >= Head(todo).tick,
           todo' = <<>> \o Tail(todo),
           UNCHANGED <<complete, current, open, pool, hint, pending, priority, running, slice,
                       recording, active, down>>,
           copy' = copy \/ (copy' = None /\ Head(todo).call = "read")
    PROVE  GraphicsOnly' /\ StepDone
<1>1. /\ Device!TypeOK /\ Graphics \in Device!Schedulers /\ todo \in Seq(CallType)
      /\ complete \in Nat
    BY DEF SchedulerInv, Device!TypeOK, CallType, Device!Schedulers
<1>2. OpsTimed' /\ PoolTimed'
    BY OpsStay, PoolStays DEF GraphicsOnly
<1>3. OneQueue' /\ PopsFree'
    BY <1>1, NextLists, CallTimes, 0 \in Nat DEF GraphicsOnly, OneQueue, PopsFree, Device!Doing
<1>4. copy # None => Timed(copy, current) /\ copy \in Device!OpType /\ copy.tick <= complete
    <2> SUFFICES ASSUME copy # None
                 PROVE  Timed(copy, current) /\ copy \in Device!OpType /\ copy.tick <= complete
        OBVIOUS
    <2>1. copy \in Device!OpType /\ Timed(copy, current)
        BY <1>1, OpsTyped DEF GraphicsOnly, CopyOK
    <2>2. CASE Head(todo).call = "wait"
        <3>1. Head(todo) \in CallType
            BY <1>1, HeadTailProperties
        <3>2. copy.tick \in Nat /\ Head(todo).tick \in Nat
            BY <2>1, <3>1 DEF Device!OpType, CallType
        <3>3. copy.tick <= Head(todo).tick \/ copy.tick <= complete
            BY <2>2 DEF GraphicsOnly, CopyOK, Is
        <3> QED BY <1>1, <2>1, <2>2, <3>2, <3>3
    <2>3. CASE Head(todo).call # "wait"
        BY <2>1, <2>3 DEF GraphicsOnly, CopyOK, Is
    <2> QED BY <2>2, <2>3
<1>5. CopyOK'
    BY <1>4 DEF CopyOK
<1>6. copy # None => Device!Complete(copy)
    BY <1>1, <1>4, TimedComplete
<1>7. \A s \in Device!Schedulers : Device!RanPending(s) = {}
    <2>1. \A s \in Device!Schedulers : Len(pending[s]) \in Nat
        BY OpsTyped
    <2> QED BY <2>1 DEF Device!RanPending
<1>8. Device!RanPriority = {}
    BY DEF Device!RanPriority
<1>9. \A n : ~(0 \in 1 .. n)
    OBVIOUS
<1>10. StepDone
    BY <1>6, <1>7, <1>8, <1>9 DEF StepDone
<1> QED BY <1>2, <1>3, <1>5, <1>10 DEF GraphicsOnly

LEMMA OverCalls ==
    ASSUME SchedulerInv, GraphicsOnly, Device!CommandSchedulerAssumption,
           \/ Device!WriteBacking
           \/ \E s \in Device!Schedulers :
                 Device!WaitTick(s) \/ Device!WaitPriorityOperations(s)
                 \/ Device!DrainPriorityOperations(s) \/ Device!Close(s)
    PROVE  GraphicsOnly' /\ StepDone
<1>1. /\ todo # <<>> /\ Head(todo).call # "finish"
      /\ Head(todo).call = "wait" => complete >= Head(todo).tick
      /\ todo' = <<>> \o Tail(todo)
      /\ UNCHANGED <<complete, current, open, pool, hint, pending, priority, running, slice,
                     recording, active, down>>
      /\ copy' = copy \/ (copy' = None /\ Head(todo).call = "read")
    BY DEF Device!WriteBacking, Device!WaitTick, Device!WaitPriorityOperations,
           Device!DrainPriorityOperations, Device!Close, Device!Doing, Device!ThenDo,
           Device!timeline, Device!buffers, Device!queues, Device!thread
<1> QED BY <1>1, OverTimes

\* BeginNext: Commit takes a buffer that the device is done with, or a new one.
LEMMA BeginTimes ==
    ASSUME SchedulerInv, GraphicsOnly, Device!CommandSchedulerAssumption,
           NEW s \in Device!Schedulers, Device!BeginCommand(s)
    PROVE  GraphicsOnly' /\ StepDone
<1> DEFINE Buffer == [tick : Nat, due : Nat]
           p == pool[Graphics]
           g == Device!Grown(Graphics)
           k == Device!Committed(Graphics)
<1>1. /\ todo # <<>> /\ Head(todo).call = "begin" /\ Head(todo).on = s
      /\ todo' = <<>> \o Tail(todo)
      /\ pool' = [pool EXCEPT ![s] = [Device!Grown(s) EXCEPT ![Device!Committed(s)] =
                    [tick |-> current, due |-> 0]]]
      /\ open' = [open EXCEPT ![s] = Device!Committed(s)]
      /\ hint' = [hint EXCEPT ![s] = IF Device!Committed(s) = Len(Device!Grown(s)) THEN 1
                                     ELSE Device!Committed(s) + 1]
      /\ UNCHANGED <<current, complete, pending, priority, running, recording, active, slice, down,
                     copy>>
    BY DEF Device!BeginCommand, Device!Doing, Device!ThenDo, Device!thread, Device!queues
<1>2. /\ Device!TypeOK /\ todo \in Seq(CallType) /\ Graphics \in Device!Schedulers
      /\ Compute \in Device!Schedulers /\ Graphics # Compute
      /\ Device!Schedulers = {Graphics, Compute}
      /\ current \in Nat /\ known \in Nat /\ complete \in Nat /\ known <= complete
    BY DEF SchedulerInv, Device!TypeOK, CallType, Device!Schedulers, Device!CommandSchedulerAssumption
<1>3. s = Graphics
    <2>1. 1 \in DOMAIN todo /\ Head(todo) = todo[1]
        BY <1>1, <1>2, EmptySeq, LenProperties, HeadTailProperties
    <2> QED BY <1>1, <1>2, <2>1 DEF GraphicsOnly, OneQueue, Ours
<1>4. /\ p \in Seq(Buffer) /\ Len(p) \in Nat /\ DOMAIN p = 1 .. Len(p)
      /\ \A i \in DOMAIN p : p[i] \in Buffer /\ p[i].due <= p[i].tick
    <2>1. p \in Seq(Buffer)
        BY <1>2 DEF Device!TypeOK
    <2>2. Len(p) \in Nat /\ DOMAIN p = 1 .. Len(p) /\ \A i \in DOMAIN p : p[i] \in Buffer
        BY <2>1, LenProperties
    <2> QED BY <2>1, <2>2 DEF GraphicsOnly, PoolTimed
<1>5. k \in Nat \ {0} /\ (k \in Device!FirstFree(Graphics) \/ k = Len(p) + 1)
    BY <1>2, CommittedNumber DEF SchedulerInv, QueuesOK
<1>6. k \in 1 .. Len(p) => p[k].due <= complete
    <2> SUFFICES ASSUME k \in 1 .. Len(p)
                 PROVE  p[k].due <= complete
        OBVIOUS
    <2>1. k \in Device!FirstFree(Graphics)
        BY <1>4, <1>5
    <2>2. p[k].tick <= known \/ p[k].tick <= complete
        BY <2>1 DEF Device!FirstFree, Device!AtHint, Device!Free
    <2>3. p[k] \in Buffer /\ p[k].due <= p[k].tick
        BY <1>4
    <2> QED BY <1>2, <2>2, <2>3
<1>7. /\ DOMAIN g = 1 .. Len(g) /\ Len(g) \in Nat /\ k <= Len(g)
      /\ \A i \in DOMAIN g : g[i].due <= g[i].tick
    <2>1. CASE k <= Len(p)
        <3>1. g = p
            BY <2>1 DEF Device!Grown
        <3> QED BY <1>4, <2>1, <3>1
    <2>2. CASE ~(k <= Len(p))
        <3> DEFINE new == [i \in 1 .. GrowStep |-> [tick |-> 0, due |-> 0]]
        <3>1. GrowStep \in Nat \ {0} /\ [tick |-> 0, due |-> 0] \in Buffer
            BY DEF Device!CommandSchedulerAssumption
        <3>2. new \in Seq(Buffer) /\ Len(new) = GrowStep /\ \A i \in 1 .. GrowStep : new[i].due <= new[i].tick
            <4>1. new \in Seq(Buffer)
                BY <3>1, IsASeq
            <4>2. Len(new) = GrowStep
                BY <3>1, <4>1, LenProperties
            <4>3. \A i \in 1 .. GrowStep : new[i] = [tick |-> 0, due |-> 0]
                OBVIOUS
            <4> HIDE DEF new
            <4>4. \A i \in 1 .. GrowStep : new[i].due = 0 /\ new[i].tick = 0
                BY <4>3
            <4>5. 0 <= 0
                OBVIOUS
            <4> QED BY <4>1, <4>2, <4>4, <4>5
        <3>3. g = p \o new
            BY <2>2 DEF Device!Grown
        <3> HIDE DEF new, g, p, k
        <3>4. /\ g \in Seq(Buffer) /\ Len(g) = Len(p) + GrowStep
              /\ \A i \in 1 .. Len(p) + GrowStep : g[i] = IF i <= Len(p) THEN p[i] ELSE new[i - Len(p)]
            BY <1>4, <3>2, <3>3, ConcatProperties
        <3>5. k = Len(p) + 1
            <4>1. ASSUME k \in Device!FirstFree(Graphics) PROVE FALSE
                <5>1. k \in hint[Graphics] .. Len(p) \/ k \in 1 .. hint[Graphics] - 1
                    BY <4>1 DEF Device!FirstFree, Device!AtHint, Device!Free, p
                <5>2. hint[Graphics] \in Nat /\ (hint[Graphics] > 1 => hint[Graphics] - 1 \in 1 .. Len(p))
                    BY <1>2, <1>4 DEF Device!TypeOK, GraphicsOnly, PoolTimed, p
                <5> QED BY <1>4, <1>5, <2>2, <5>1, <5>2
            <4> QED BY <1>5, <4>1
        <3>6. ASSUME NEW i \in 1 .. Len(g) PROVE g[i].due <= g[i].tick
            <4>1. CASE i <= Len(p)
                <5>1. i \in DOMAIN p /\ g[i] = p[i]
                    BY <1>4, <3>1, <3>4, <4>1
                <5> QED BY <1>4, <5>1
            <4>2. CASE ~(i <= Len(p))
                <5>1. i - Len(p) \in 1 .. GrowStep /\ g[i] = new[i - Len(p)]
                    BY <1>4, <3>1, <3>4, <4>2
                <5> QED BY <3>2, <5>1
            <4> QED BY <4>1, <4>2
        <3> QED BY <1>4, <3>1, <3>4, <3>5, <3>6, LenProperties
    <2> QED BY <2>1, <2>2
<1>8. PoolTimed'
    <2>1. pool'[Graphics] = [g EXCEPT ![k] = [tick |-> current, due |-> 0]] /\ open'[Graphics] = k
        BY <1>1, <1>2, <1>3 DEF Device!TypeOK
    <2> HIDE DEF g, k, p
    <2>2. k \in DOMAIN g
        BY <1>5, <1>7
    <2>3. /\ DOMAIN pool'[Graphics] = DOMAIN g
          /\ pool'[Graphics][k] = [tick |-> current, due |-> 0]
          /\ \A i \in DOMAIN g : i # k => pool'[Graphics][i] = g[i]
        BY <2>1, <2>2
    <2>4. ASSUME NEW i \in DOMAIN g
          PROVE  pool'[Graphics][i].due <= pool'[Graphics][i].tick
        <3>1. CASE i = k
            BY <1>2, <2>3, <3>1
        <3>2. CASE i # k
            BY <1>7, <2>3, <3>2
        <3> QED BY <3>1, <3>2
    <2>5. hint'[Graphics] > 1 => hint'[Graphics] - 1 \in DOMAIN g
        <3>1. hint'[Graphics] = IF k = Len(g) THEN 1 ELSE k + 1
            BY <1>1, <1>2, <1>3 DEF Device!TypeOK, g, k
        <3> QED BY <1>5, <1>7, <3>1
    <2>6. pool'[Graphics][k].tick = current' /\ open'[Graphics] \in DOMAIN pool'[Graphics]
        BY <1>1, <2>1, <2>2, <2>3
    <2> QED BY <2>1, <2>3, <2>4, <2>5, <2>6 DEF PoolTimed
<1>9. OpsTimed'
    BY <1>1, OpsStay DEF GraphicsOnly
<1>10. OneQueue' /\ PopsFree'
    <2>1. open'[Compute] = 0
        BY <1>1, <1>2, <1>3 DEF Device!TypeOK, GraphicsOnly, OneQueue
    <2> QED BY <1>1, <1>2, <2>1, NextLists, CallTimes, 0 \in Nat DEF GraphicsOnly, PopsFree, Device!Doing
<1>11. CopyOK'
    BY <1>1, CopyDone DEF GraphicsOnly
<1>12. StepDone
    <2>1. \A r \in Device!Schedulers : Device!RanPending(r) = {}
        <3>1. \A r \in Device!Schedulers : Len(pending[r]) \in Nat
            BY OpsTyped
        <3> QED BY <1>1, <3>1 DEF Device!RanPending
    <2>2. Device!RanPriority = {}
        BY <1>1 DEF Device!RanPriority
    <2>3. ASSUME NEW r \in Device!Schedulers, open'[r] \in 1 .. Len(pool[r]), open[r] = 0
          PROVE  pool[r][open'[r]].due <= complete
        <3>1. open'[Graphics] = k /\ open'[Compute] = 0
            BY <1>1, <1>2, <1>3 DEF Device!TypeOK, GraphicsOnly, OneQueue
        <3>2. \A n : ~(0 \in 1 .. n)
            OBVIOUS
        <3> HIDE DEF k
        <3> QED BY <1>2, <1>6, <2>3, <3>1, <3>2
    <2> QED BY <1>1, <2>1, <2>2, <2>3 DEF StepDone
<1> QED BY <1>8, <1>9, <1>10, <1>11, <1>12 DEF GraphicsOnly

\* Finish and Shutdown submit what is open and wait for the last tick.
LEMMA OpenTimes ==
    ASSUME SchedulerInv, GraphicsOnly, Device!CommandSchedulerAssumption,
           NEW s \in Device!Schedulers, Device!SubmitOpen(s),
           todo # <<>>, Head(todo).on = s, Head(todo).call \in {"finish", "shutdown"},
           UNCHANGED <<complete, known, hint, slice, recording, active, down>>,
           NEW c \in Seq(CallType), Ordered(c), c # <<>>,
           \A i \in DOMAIN c : c[i].call # "shutdown" /\ Ours(c[i]),
           c[1].call = "wait", c[1].tick = Device!LastTick(s),
           todo' = c \o Tail(todo)
    PROVE  GraphicsOnly' /\ StepDone
<1>1. /\ Device!TypeOK /\ Graphics \in Device!Schedulers
      /\ Compute \in Device!Schedulers /\ Graphics # Compute
      /\ Device!Schedulers = {Graphics, Compute} /\ current \in Nat /\ complete \in Nat
    BY DEF SchedulerInv, Device!TypeOK, Device!Schedulers, Device!CommandSchedulerAssumption
<1>2. /\ OpsTimed' /\ PoolTimed'
      /\ copy = None => copy' = None
      /\ copy # None => copy' # None /\ Timed(copy', current') /\ copy'.tick = copy.tick
      /\ copy # None /\ open[s] # 0 => copy.tick <= current /\ copy.tick < current'
      /\ \A r \in Device!Schedulers :
            /\ Len(pending'[r]) = Len(pending[r]) /\ Len(pending[r]) \in Nat
            /\ running[r] # None => running'[r] # None
            /\ open[r] = 0 => open'[r] = 0
    <2>1. CASE open[s] = 0
        <3>1. UNCHANGED <<current, open, pool, pending, priority, running, copy>>
            BY <2>1 DEF Device!SubmitOpen
        <3>2. \A r \in Device!Schedulers : Len(pending[r]) \in Nat
            BY OpsTyped
        <3> QED BY <2>1, <3>1, <3>2, OpsStay, PoolStays DEF GraphicsOnly, CopyOK
    <2>2. CASE open[s] # 0
        <3>1. s = Graphics /\ Device!Submit(s)
            BY <1>1, <2>2 DEF Device!SubmitOpen, GraphicsOnly, OneQueue
        <3>2. /\ open' = [open EXCEPT ![Graphics] = 0] /\ OpsTimed' /\ PoolTimed'
              /\ copy = None => copy' = None
              /\ copy # None => copy' # None /\ Timed(copy', current') /\ copy'.tick = copy.tick
                                /\ copy.tick < current' /\ current' = current + 1
              /\ \A r \in Device!Schedulers :
                    /\ Len(pending'[r]) = Len(pending[r]) /\ Len(pending[r]) \in Nat
                    /\ running[r] # None => running'[r] # None
            BY <3>1, SubmitTimes
        <3>3. \A r \in Device!Schedulers : open[r] = 0 => open'[r] = 0
            BY <1>1, <3>2 DEF Device!TypeOK
        <3>4. copy # None => copy.tick <= current
            BY DEF GraphicsOnly, CopyOK, Timed
        <3> QED BY <3>2, <3>3, <3>4
    <2> QED BY <2>1, <2>2
<1>3. /\ OneQueue' /\ todo' # <<>> /\ Head(todo') = c[1]
      /\ \A r \in Device!Schedulers :
            (todo' # <<>> /\ Head(todo').call = "pop" /\ Head(todo').on = r) => Is(c[1], "pop", r)
    <2>1. open'[Compute] = 0
        BY <1>1, <1>2 DEF GraphicsOnly, OneQueue
    <2> QED BY <2>1, CallTimes DEF GraphicsOnly
<1>4. PopsFree'
    BY <1>3 DEF PopsFree, Device!Doing, Is
<1>5. CopyOK'
    <2> SUFFICES ASSUME copy' # None
                 PROVE  \/ copy'.tick <= c[1].tick /\ copy'.tick < current'
                        \/ copy'.tick <= complete
        BY <1>2, <1>3 DEF CopyOK
    <2>1. copy # None /\ copy'.tick = copy.tick
        BY <1>2
    <2>2. CASE copy.tick <= complete
        BY <2>1, <2>2
    <2>3. CASE ~(copy.tick <= complete)
        <3>1. Is(Head(todo), "finish", Graphics) /\ open[Graphics] # 0
            BY <2>1, <2>3 DEF GraphicsOnly, CopyOK
        <3>2. s = Graphics
            BY <3>1 DEF Is
        <3>3. Device!LastTick(s) = current
            BY <3>1, <3>2 DEF Device!LastTick
        <3> QED BY <1>2, <2>1, <3>1, <3>2, <3>3
    <2> QED BY <2>2, <2>3
<1>6. StepDone
    BY <1>2, Harmless
<1> QED BY <1>2, <1>3, <1>4, <1>5, <1>6 DEF GraphicsOnly

LEMMA FinishTimes ==
    ASSUME SchedulerInv, GraphicsOnly, Device!CommandSchedulerAssumption,
           NEW s \in Device!Schedulers, Device!Finish(s) \/ Device!Shutdown(s)
    PROVE  GraphicsOnly' /\ StepDone
<1>1. /\ todo # <<>> /\ Head(todo).on = s /\ Head(todo).call \in {"finish", "shutdown"}
      /\ Device!SubmitOpen(s)
      /\ UNCHANGED <<complete, known, hint, slice, recording, active, down>>
    BY DEF Device!Finish, Device!Shutdown, Device!Doing, Device!thread
<1>2. Device!LastTick(s) \in Nat
    BY <1>1, OpenSubmitted
<1>3. CASE Device!Finish(s)
    <2> DEFINE c == <<Device!Call("wait", s, Device!LastTick(s)), Device!Call("begin", s, 0),
                      Device!Call("refresh", s, 0)>>
    <2>1. todo' = c \o Tail(todo)
        BY <1>3 DEF Device!Finish, Device!ThenDo
    <2>2. s = Graphics
        <3>1. todo \in Seq(CallType)
            BY DEF SchedulerInv, Device!TypeOK, CallType
        <3>2. 1 \in DOMAIN todo /\ Head(todo) = todo[1] /\ Head(todo).call = "finish"
            BY <1>1, <1>3, <3>1, EmptySeq, LenProperties, HeadTailProperties DEF Device!Finish, Device!Doing
        <3>3. s \in {Graphics, Compute}
            BY DEF Device!Schedulers
        <3> QED BY <1>1, <3>2, <3>3 DEF GraphicsOnly, OneQueue, Ours
    <2>3. /\ c \in Seq(CallType) /\ Ordered(c) /\ c # <<>>
          /\ \A i \in DOMAIN c : c[i].call # "shutdown" /\ (s = Graphics => Ours(c[i]))
          /\ c[1].call = "wait" /\ c[1].tick = Device!LastTick(s)
        BY <1>2, NextLists
    <2> HIDE DEF c
    <2>4. \A i \in DOMAIN c : c[i].call # "shutdown" /\ Ours(c[i])
        BY <2>2, <2>3
    <2> QED BY <1>1, <2>1, <2>3, <2>4, OpenTimes
<1>4. CASE Device!Shutdown(s)
    <2> DEFINE c == <<Device!Call("wait", s, Device!LastTick(s)), Device!Call("refresh", s, 0),
                      Device!Call("drain", s, 0), Device!Call("close", s, 0)>>
    <2>1. todo' = c \o Tail(todo)
        BY <1>4 DEF Device!Shutdown, Device!ThenDo
    <2>2. /\ c \in Seq(CallType) /\ Ordered(c) /\ c # <<>>
          /\ \A i \in DOMAIN c : c[i].call # "shutdown" /\ Ours(c[i])
          /\ c[1].call = "wait" /\ c[1].tick = Device!LastTick(s)
        BY <1>2, NextLists
    <2> HIDE DEF c
    <2> QED BY <1>1, <2>1, <2>2, OpenTimes
<1> QED BY <1>3, <1>4

\* PopPendingOperations
LEMMA PopTimes ==
    ASSUME SchedulerInv, GraphicsOnly, Device!CommandSchedulerAssumption,
           NEW s \in Device!Schedulers, Device!Refresh(s) \/ Device!PopPendingOperations(s)
    PROVE  GraphicsOnly' /\ StepDone
<1> DEFINE rest == pending'[s]
           c == IF Device!FreeFront(rest, known') THEN <<Device!Call("pop", s, 0)>> ELSE <<>>
<1>1. /\ Device!TypeOK /\ known <= complete /\ known \in Nat /\ complete \in Nat
      /\ pending[s] \in Seq(Device!OpType)
    BY DEF SchedulerInv, Device!TypeOK
<1>2. /\ todo # <<>> /\ Head(todo).on = s /\ Head(todo).call \in {"refresh", "pop"}
      /\ todo' = c \o Tail(todo)
      /\ UNCHANGED <<complete, current, open, pool, hint, priority, running, slice, recording,
                     active, down, copy>>
      /\ \/ pending' = pending
         \/ /\ Head(todo).call = "pop" /\ pending' = [pending EXCEPT ![s] = Tail(pending[s])]
    <2>1. CASE Device!Refresh(s)
        BY <2>1 DEF Device!Refresh, Device!Doing, Device!ThenDo, Device!buffers, Device!queues,
                    Device!thread
    <2>2. CASE Device!PopPendingOperations(s)
        <3>1. pending' = [pending EXCEPT ![s] = Tail(pending[s])] /\ known' = known
            BY <2>2 DEF Device!PopPendingOperations, Device!timeline
        <3>2. rest = Tail(pending[s])
            BY <1>1, <3>1 DEF Device!TypeOK
        <3> QED BY <2>2, <3>1, <3>2 DEF Device!PopPendingOperations, Device!Doing, Device!ThenDo,
                    Device!timeline, Device!buffers, Device!thread
    <2> QED BY <2>1, <2>2
<1>3. /\ c \in Seq(CallType) /\ Ordered(c)
      /\ \A i \in DOMAIN c : c[i].call # "shutdown" /\ Ours(c[i])
      /\ c # <<>> => Device!FreeFront(rest, known')
    BY NextLists, 0 \in Nat
<1> HIDE DEF c
<1>4. OneQueue' /\ PopsFree'
    <2>1. /\ OneQueue'
          /\ \A r \in Device!Schedulers :
                (todo' # <<>> /\ Head(todo').call = "pop" /\ Head(todo').on = r) =>
                    c # <<>> /\ Is(c[1], "pop", r)
        BY <1>2, <1>3, CallTimes DEF GraphicsOnly, OneQueue
    <2>2. c # <<>> => c[1].on = s
        BY DEF c, Device!Call
    <2> QED BY <1>3, <2>1, <2>2 DEF PopsFree, Device!Doing, Device!FreeFront, Is
<1>5. /\ pending[s] # <<>> /\ Head(pending[s]) \in Device!OpType => 
            Head(pending[s]) = pending[s][1] /\ 1 \in DOMAIN pending[s]
      /\ pending[s] # <<>> => Len(Tail(pending[s])) = Len(pending[s]) - 1 /\ Len(pending[s]) \in Nat
      /\ pending[s] # <<>> => Head(pending[s]) \in Device!OpType
      /\ pending[s] # <<>> => \A i \in DOMAIN Tail(pending[s]) :
              i + 1 \in DOMAIN pending[s] /\ Tail(pending[s])[i] = pending[s][i + 1]
    BY <1>1, EmptySeq, LenProperties, HeadTailProperties
<1>6. Head(todo).call = "pop" => pending[s] # <<>> /\ Head(pending[s]).tick <= known
    BY <1>2 DEF GraphicsOnly, PopsFree, Device!Doing
<1>7. OpsTimed'
    <2>1. CASE pending' = pending
        BY <1>2, <2>1, OpsStay DEF GraphicsOnly
    <2>2. CASE Head(todo).call = "pop" /\ pending' = [pending EXCEPT ![s] = Tail(pending[s])]
        <3>1. /\ \A r \in Device!Schedulers : r # s => pending'[r] = pending[r]
              /\ pending'[s] = Tail(pending[s])
            BY <1>1, <2>2 DEF Device!TypeOK
        <3>2. \A i \in DOMAIN pending[s] : Timed(pending[s][i], current)
            BY DEF GraphicsOnly, OpsTimed
        <3>3. \A i \in DOMAIN pending'[s] : Timed(pending'[s][i], current)
            BY <1>5, <1>6, <2>2, <3>1, <3>2
        <3> QED BY <1>2, <3>1, <3>3 DEF GraphicsOnly, OpsTimed
    <2> QED BY <1>2, <2>1, <2>2
<1>8. PoolTimed' /\ CopyOK'
    BY <1>2, PoolStays, CopyDone DEF GraphicsOnly
<1>9. ASSUME NEW r \in Device!Schedulers, NEW o \in Device!RanPending(r) PROVE Device!Complete(o)
    <2>1. Len(pending'[r]) < Len(pending[r]) /\ o = Head(pending[r])
        BY DEF Device!RanPending
    <2>2. Len(pending[r]) \in Nat
        BY OpsTyped
    <2>3. pending' # pending
        BY <2>1, <2>2
    <2>4. Head(todo).call = "pop" /\ pending' = [pending EXCEPT ![s] = Tail(pending[s])]
        BY <1>2, <2>3
    <2>5. r = s
        BY <1>1, <2>1, <2>2, <2>4 DEF Device!TypeOK
    <2>6. o \in Device!OpType /\ o.tick <= known /\ Timed(o, current)
        BY <1>5, <1>6, <2>1, <2>4, <2>5 DEF GraphicsOnly, OpsTimed
    <2>7. o.tick <= complete
        BY <1>1, <2>6 DEF Device!OpType
    <2> QED BY <1>1, <2>6, <2>7, TimedComplete
<1>10. Device!RanPriority = {}
    BY <1>2 DEF Device!RanPriority
<1>11. \A n : ~(0 \in 1 .. n)
    OBVIOUS
<1>12. StepDone
    BY <1>2, <1>9, <1>10, <1>11 DEF StepDone
<1> QED BY <1>4, <1>7, <1>8, <1>12 DEF GraphicsOnly

\* The device and the priority threads go on beside the GPU thread.
LEMMA BesideTimes ==
    ASSUME SchedulerInv, GraphicsOnly,
           Device!DeviceCompletes \/ (\E s \in Device!Schedulers : Device!PriorityThread(s))
           \/ UNCHANGED deviceVars
    PROVE  GraphicsOnly' /\ StepDone
<1>1. /\ Device!TypeOK /\ known \in Nat /\ complete \in Nat /\ known <= complete
      /\ \A r \in Device!Schedulers : Len(pending[r]) \in Nat
    BY OpsTyped DEF SchedulerInv, Device!TypeOK
<1>2. ASSUME UNCHANGED <<todo, current, open, pool, hint, pending, slice, recording, active, copy>>,
             complete' \in Nat, complete <= complete', known' \in Nat, known <= known'
      PROVE  /\ OneQueue' /\ PoolTimed' /\ CopyOK' /\ PopsFree'
             /\ \A r \in Device!Schedulers : Device!RanPending(r) = {}
    <2>1. OneQueue' /\ PoolTimed'
        BY <1>2, PoolStays DEF GraphicsOnly, OneQueue
    <2>2. CopyOK'
        <3>1. copy # None => copy.tick \in Nat
            BY <1>1 DEF Device!TypeOK, Device!OpType
        <3>2. copy # None /\ copy.tick <= complete => copy.tick <= complete'
            BY <1>1, <1>2, <3>1
        <3> QED BY <1>2, <3>2 DEF GraphicsOnly, CopyOK
    <2>3. PopsFree'
        <3> SUFFICES ASSUME NEW s \in Device!Schedulers, todo # <<>>, Head(todo).call = "pop",
                            Head(todo).on = s
                     PROVE  pending[s] # <<>> /\ Head(pending[s]).tick <= known'
            BY <1>2 DEF PopsFree, Device!Doing
        <3>1. pending[s] # <<>> /\ Head(pending[s]).tick <= known
            BY DEF GraphicsOnly, PopsFree, Device!Doing
        <3>2. pending[s] \in Seq(Device!OpType)
            BY <1>1 DEF Device!TypeOK
        <3>3. Head(pending[s]).tick \in Nat
            <4>1. Head(pending[s]) \in Device!OpType
                BY <3>1, <3>2, HeadTailProperties
            <4> QED BY <4>1 DEF Device!OpType
        <3> QED BY <1>1, <1>2, <3>1, <3>3
    <2>4. \A r \in Device!Schedulers : Device!RanPending(r) = {}
        BY <1>1, <1>2 DEF Device!RanPending
    <2> QED BY <2>1, <2>2, <2>3, <2>4
<1>3. \A n : ~(0 \in 1 .. n)
    OBVIOUS
<1>4. ASSUME UNCHANGED <<todo, current, open, pool, hint, pending, slice, recording, active, copy,
                         priority, running>>,
             complete' \in Nat, complete <= complete', known' \in Nat, known <= known'
      PROVE  GraphicsOnly' /\ StepDone
    <2>1. OpsTimed'
        BY <1>4, OpsStay DEF GraphicsOnly
    <2>2. Device!RanPriority = {}
        BY <1>4 DEF Device!RanPriority
    <2> QED BY <1>2, <1>3, <1>4, <2>1, <2>2 DEF GraphicsOnly, StepDone
<1>5. CASE Device!DeviceCompletes
    <2>1. /\ complete' = complete + 1 /\ known' = known
          /\ UNCHANGED <<todo, current, open, pool, hint, pending, slice, recording, active, copy,
                         priority, running>>
        BY <1>5 DEF Device!DeviceCompletes, Device!buffers, Device!queues, Device!thread
    <2>2. complete' \in Nat /\ complete <= complete' /\ known' \in Nat /\ known <= known'
        BY <1>1, <2>1
    <2> QED BY <1>4, <2>1, <2>2
<1>6. CASE UNCHANGED deviceVars
    <2>1. /\ complete' = complete /\ known' = known
          /\ UNCHANGED <<todo, current, open, pool, hint, pending, slice, recording, active, copy,
                         priority, running>>
        BY <1>6 DEF deviceVars
    <2>2. complete' \in Nat /\ complete <= complete' /\ known' \in Nat /\ known <= known'
        BY <1>1, <2>1
    <2> QED BY <1>4, <2>1, <2>2
<1>7. ASSUME NEW s \in Device!Schedulers, Device!TakePriority(s)
      PROVE  GraphicsOnly' /\ StepDone
    <2>1. /\ running[s] = None /\ priority[s] # <<>>
          /\ running' = [running EXCEPT ![s] = Head(priority[s])]
          /\ priority' = [priority EXCEPT ![s] = Tail(priority[s])]
          /\ complete' = complete /\ known' = known
          /\ UNCHANGED <<todo, current, open, pool, hint, pending, slice, recording, active, copy>>
        BY <1>7 DEF Device!TakePriority, Device!timeline, Device!buffers, Device!thread
    <2>2. complete' \in Nat /\ complete <= complete' /\ known' \in Nat /\ known <= known'
        BY <1>1, <2>1
    <2>3. priority[s] \in Seq(Device!OpType)
        BY OpsTyped
    <2>4. /\ Head(priority[s]) = priority[s][1] /\ 1 \in DOMAIN priority[s]
          /\ \A i \in DOMAIN Tail(priority[s]) :
                i + 1 \in DOMAIN priority[s] /\ Tail(priority[s])[i] = priority[s][i + 1]
        BY <2>1, <2>3, EmptySeq, LenProperties, HeadTailProperties
    <2>5. \A i \in DOMAIN priority[s] : Timed(priority[s][i], current)
        BY DEF GraphicsOnly, OpsTimed
    <2>6. /\ \A r \in Device!Schedulers : r # s => running'[r] = running[r] /\ priority'[r] = priority[r]
          /\ running'[s] = Head(priority[s]) /\ priority'[s] = Tail(priority[s])
        BY <1>1, <2>1 DEF Device!TypeOK
    <2>7. Timed(running'[s], current) /\ \A i \in DOMAIN priority'[s] : Timed(priority'[s][i], current)
        BY <2>4, <2>5, <2>6
    <2>8. OpsTimed'
        BY <2>1, <2>6, <2>7 DEF GraphicsOnly, OpsTimed
    <2>9. Device!RanPriority = {}
        BY <2>1, <2>6 DEF Device!RanPriority
    <2> QED BY <1>2, <1>3, <2>1, <2>2, <2>8, <2>9 DEF GraphicsOnly, StepDone
<1>8. ASSUME NEW s \in Device!Schedulers, Device!RunPriority(s)
      PROVE  GraphicsOnly' /\ StepDone
    <2>1. /\ running[s] # None /\ complete >= running[s].tick
          /\ running' = [running EXCEPT ![s] = None] /\ priority' = priority
          /\ complete' = complete /\ (known' = known \/ known' = complete)
          /\ UNCHANGED <<todo, current, open, pool, hint, pending, slice, recording, active, copy>>
        BY <1>8 DEF Device!RunPriority, Device!KnownAfterWait, Device!buffers, Device!thread
    <2>2. complete' \in Nat /\ complete <= complete' /\ known' \in Nat /\ known <= known'
        BY <1>1, <2>1
    <2>3. \A r \in Device!Schedulers : r # s => running'[r] = running[r]
        BY <1>1, <2>1 DEF Device!TypeOK
    <2>4. running'[s] = None
        BY <1>1, <2>1 DEF Device!TypeOK
    <2>5. OpsTimed'
        BY <2>1, <2>3, <2>4 DEF GraphicsOnly, OpsTimed
    <2>6. running[s] \in Device!OpType /\ Timed(running[s], current)
        BY <2>1, OpsTyped DEF GraphicsOnly, OpsTimed
    <2>7. running[s].tick <= complete
        BY <1>1, <2>1, <2>6 DEF Device!OpType
    <2>8. Device!Complete(running[s])
        BY <1>1, <2>6, <2>7, TimedComplete
    <2>9. \A o \in Device!RanPriority : o = running[s]
        BY <2>3 DEF Device!RanPriority
    <2> QED BY <1>2, <1>3, <2>1, <2>2, <2>5, <2>8, <2>9 DEF GraphicsOnly, StepDone
<1> QED BY <1>5, <1>6, <1>7, <1>8 DEF Device!PriorityThread

\* The GPU thread starts a call, for the graphics queue.
LEMMA LaterTimes ==
    ASSUME Device!TypeOK, NEW q \in [Device!Schedulers -> Seq(Device!OpType)],
           \A s \in Device!Schedulers : \A i \in DOMAIN q[s] : Timed(q[s][i], current),
           NEW w, w = q \/ w = Device!Later(q, Graphics, Graphics)
    PROVE  \A s \in Device!Schedulers :
              /\ \A i \in DOMAIN w[s] : Timed(w[s][i], current)
              /\ Len(q[s]) \in Nat /\ Len(w[s]) \in Nat /\ Len(q[s]) <= Len(w[s])
<1>1. \A s \in Device!Schedulers : q[s] \in Seq(Device!OpType) /\ Len(q[s]) \in Nat
    BY LenProperties
<1>2. CASE w = q
    BY <1>1, <1>2
<1>3. CASE w = Device!Later(q, Graphics, Graphics)
    <2> DEFINE e == Device!Op(current, Graphics)
               l == q[Graphics]
    <2>1. /\ Graphics \in Device!Schedulers /\ current \in Nat /\ 0 < current
        BY DEF Device!TypeOK, Device!Schedulers
    <2>2. e \in Device!OpType /\ Timed(e, current)
        BY <2>1 DEF Device!Op, Device!OpType, Timed
    <2>3. l \in Seq(Device!OpType) /\ Len(l) \in Nat /\ DOMAIN l = 1 .. Len(l)
          /\ \A i \in DOMAIN l : Timed(l[i], current)
        BY <1>1, <2>1, LenProperties
    <2>4. w = [q EXCEPT ![Graphics] = Append(l, e)]
        BY <1>3 DEF Device!Later
    <2> HIDE DEF e
    <2>5. /\ w[Graphics] = Append(l, e)
          /\ \A s \in Device!Schedulers : s # Graphics => w[s] = q[s]
        BY <2>1, <2>4
    <2> HIDE DEF l
    <2>6. /\ Append(l, e) \in Seq(Device!OpType) /\ Len(Append(l, e)) = Len(l) + 1
          /\ DOMAIN Append(l, e) = 1 .. Len(l) + 1
          /\ \A i \in 1 .. Len(l) : Append(l, e)[i] = l[i]
          /\ Append(l, e)[Len(l) + 1] = e
        BY <2>2, <2>3, AppendProperties, LenProperties
    <2>7. ASSUME NEW i \in DOMAIN Append(l, e) PROVE Timed(Append(l, e)[i], current)
        <3>1. i \in 1 .. Len(l) \/ i = Len(l) + 1
            BY <2>3, <2>6
        <3> QED BY <2>2, <2>3, <2>6, <3>1
    <2>8. /\ \A i \in DOMAIN w[Graphics] : Timed(w[Graphics][i], current)
          /\ Len(l) \in Nat /\ Len(w[Graphics]) \in Nat /\ Len(l) <= Len(w[Graphics])
        <3>1. Len(w[Graphics]) = Len(l) + 1
            BY <2>5, <2>6
        <3> QED BY <2>3, <2>5, <2>7, <3>1
    <2>9. \A s \in Device!Schedulers : s # Graphics =>
              /\ \A i \in DOMAIN w[s] : Timed(w[s][i], current)
              /\ Len(q[s]) \in Nat /\ Len(w[s]) \in Nat /\ Len(q[s]) <= Len(w[s])
        BY <1>1, <2>5
    <2> QED BY <2>8, <2>9 DEF l
<1> QED BY <1>2, <1>3

LEMMA StartTimes ==
    ASSUME SchedulerInv, GraphicsOnly, todo = <<>>,
           todo' \in Seq(CallType),
           \A i \in DOMAIN todo' : Ours(todo'[i]) /\ todo'[i].call # "pop",
           slice' # Compute, recording' # Compute, ~active'[Compute],
           UNCHANGED <<complete, known, current, open, pool, hint, running>>,
           pending' = pending \/ pending' = Device!Later(pending, Graphics, Graphics),
           priority' = priority \/ priority' = Device!Later(priority, Graphics, Graphics),
           \/ copy' = copy
           \/ /\ copy' = Device!Op(current, Graphics) /\ copy' # None /\ open[Graphics] # 0
              /\ todo' # <<>> /\ todo'[1].call = "finish" /\ todo'[1].on = Graphics
    PROVE  GraphicsOnly' /\ StepDone
<1>1. /\ Device!TypeOK /\ current \in Nat /\ 0 < current /\ Graphics \in Device!Schedulers
      /\ pending \in [Device!Schedulers -> Seq(Device!OpType)]
      /\ priority \in [Device!Schedulers -> Seq(Device!OpType)]
    BY DEF SchedulerInv, Device!TypeOK, Device!Schedulers
<1>2. /\ \A s \in Device!Schedulers : \A i \in DOMAIN pending[s] : Timed(pending[s][i], current)
      /\ \A s \in Device!Schedulers : \A i \in DOMAIN priority[s] : Timed(priority[s][i], current)
    BY DEF GraphicsOnly, OpsTimed
<1>3. \A s \in Device!Schedulers :
          /\ \A i \in DOMAIN pending'[s] : Timed(pending'[s][i], current)
          /\ Len(pending[s]) \in Nat /\ Len(pending'[s]) \in Nat /\ Len(pending[s]) <= Len(pending'[s])
    BY <1>1, <1>2, LaterTimes
<1>4. \A s \in Device!Schedulers : \A i \in DOMAIN priority'[s] : Timed(priority'[s][i], current)
    BY <1>1, <1>2, LaterTimes
<1>5. OpsTimed'
    BY <1>3, <1>4 DEF GraphicsOnly, OpsTimed
<1>6. PoolTimed' /\ OneQueue'
    BY PoolStays DEF GraphicsOnly, OneQueue
<1>7. todo' # <<>> => Head(todo') = todo'[1] /\ 1 \in DOMAIN todo'
    BY EmptySeq, LenProperties, HeadTailProperties
<1>8. PopsFree'
    BY <1>7 DEF PopsFree, Device!Doing
<1>9. CopyOK'
    <2>1. CASE copy' = copy
        BY <2>1 DEF GraphicsOnly, CopyOK
    <2>2. CASE copy' # copy
        <3>1. Timed(copy', current)
            BY <1>1, <2>2 DEF Device!Op, Timed
        <3> QED BY <1>7, <2>2, <3>1 DEF CopyOK, Is
    <2> QED BY <2>1, <2>2
<1>10. StepDone
    BY <1>3, Harmless
<1> QED BY <1>5, <1>6, <1>8, <1>9, <1>10 DEF GraphicsOnly

\* The lists of calls that the GPU thread starts with are the graphics scheduler's.
LEMMA StartLists ==
    ASSUME Device!CommandSchedulerAssumption, Device!TypeOK
    PROVE  \A c \in {<<>>, Device!Flush(Graphics), Device!FlushAndWait(Graphics),
                     <<Device!Call("finish", Graphics, 0)>>, <<Device!Call("refresh", Graphics, 0)>>,
                     <<Device!Call("finish", Graphics, 0), Device!Call("waitpriority", Graphics, current)>>,
                     <<Device!Call("finish", Graphics, 0), Device!Call("waitpriority", Graphics, current),
                       Device!Call("read", Graphics, 0)>>,
                     Device!BeginIfNone(Graphics)} :
               c \in Seq(CallType) /\ \A i \in DOMAIN c : Ours(c[i]) /\ c[i].call # "pop"
<1>1. Graphics \in Device!Schedulers /\ Graphics # Compute /\ current \in Nat
    BY DEF Device!Schedulers, Device!CommandSchedulerAssumption, Device!TypeOK
<1> DEFINE On(c) == \A i \in DOMAIN c : c[i].on = Graphics
<1>2. \A call, t : Device!Call(call, Graphics, t).on = Graphics
    BY DEF Device!Call
<1>3. \A a, b, c : a.on = Graphics /\ b.on = Graphics /\ c.on = Graphics =>
          On(<<a>>) /\ On(<<a, b>>) /\ On(<<a, b, c>>)
    <2> SUFFICES ASSUME NEW a, NEW b, NEW c, a.on = Graphics, b.on = Graphics, c.on = Graphics
                 PROVE  On(<<a>>) /\ On(<<a, b>>) /\ On(<<a, b, c>>)
        OBVIOUS
    <2>1. On(<<a>>)
        OBVIOUS
    <2>2. On(<<a, b>>)
        OBVIOUS
    <2>3. On(<<a, b, c>>)
        OBVIOUS
    <2> QED BY <2>1, <2>2, <2>3
<1>4. On(<<>>)
    OBVIOUS
<1> HIDE DEF On
<1>5. /\ On(Device!Flush(Graphics)) /\ On(Device!FlushAndWait(Graphics))
      /\ On(<<Device!Call("finish", Graphics, 0)>>) /\ On(<<Device!Call("refresh", Graphics, 0)>>)
      /\ On(<<Device!Call("finish", Graphics, 0), Device!Call("waitpriority", Graphics, current)>>)
      /\ On(<<Device!Call("finish", Graphics, 0), Device!Call("waitpriority", Graphics, current),
              Device!Call("read", Graphics, 0)>>)
      /\ On(Device!BeginIfNone(Graphics))
    BY <1>2, <1>3, <1>4 DEF Device!Flush, Device!FlushAndWait, Device!BeginIfNone
<1>6. ASSUME NEW c, Plain(c), On(c)
      PROVE  c \in Seq(CallType) /\ \A i \in DOMAIN c : Ours(c[i]) /\ c[i].call # "pop"
    BY <1>1, <1>6 DEF Plain, On, Ours
<1> QED BY <1>1, <1>4, <1>5, <1>6, PlainLists

\* Packets, slices and commands of other threads.
LEMMA GuestTimes ==
    ASSUME SchedulerInv, GraphicsOnly, Device!CommandSchedulerAssumption, ~asyncCompute,
           Device!GpuStarts
    PROVE  (GraphicsOnly' /\ StepDone) \/ Device!ShutdownGpu
<1>1. /\ Device!TypeOK /\ Graphics \in Device!Schedulers /\ Graphics # Compute
      /\ None \notin Device!Schedulers /\ Device!Schedulers = {Graphics, Compute}
      /\ None \notin Device!OpType /\ current \in Nat
    BY DEF SchedulerInv, Device!TypeOK, Device!Schedulers, Device!CommandSchedulerAssumption,
           Device!OpType
<1>2. /\ slice \in {None, Graphics} /\ recording \in {None, Graphics}
      /\ ~active[Compute] /\ open[Compute] = 0
    BY <1>1 DEF GraphicsOnly, OneQueue, Device!TypeOK
<1>3. None # Compute
    BY <1>1
<1> DEFINE Lists == {<<>>, Device!Flush(Graphics), Device!FlushAndWait(Graphics),
                     <<Device!Call("finish", Graphics, 0)>>, <<Device!Call("refresh", Graphics, 0)>>,
                     <<Device!Call("finish", Graphics, 0), Device!Call("waitpriority", Graphics, current)>>,
                     <<Device!Call("finish", Graphics, 0), Device!Call("waitpriority", Graphics, current),
                       Device!Call("read", Graphics, 0)>>,
                     Device!BeginIfNone(Graphics)}
<1>4. \A c \in Lists : c \in Seq(CallType) /\ \A i \in DOMAIN c : Ours(c[i]) /\ c[i].call # "pop"
    BY <1>1, StartLists
<1>5. ASSUME todo = <<>>, todo' \in Lists,
             slice' # Compute, recording' # Compute, ~active'[Compute],
             UNCHANGED <<complete, known, current, open, pool, hint, running>>,
             pending' = pending \/ pending' = Device!Later(pending, Graphics, Graphics),
             priority' = priority \/ priority' = Device!Later(priority, Graphics, Graphics),
             \/ copy' = copy
             \/ /\ copy' = Device!Op(current, Graphics) /\ copy' # None /\ open[Graphics] # 0
                /\ todo' # <<>> /\ todo'[1].call = "finish" /\ todo'[1].on = Graphics
      PROVE  GraphicsOnly' /\ StepDone
    <2>1. todo' \in Seq(CallType) /\ \A i \in DOMAIN todo' : Ours(todo'[i]) /\ todo'[i].call # "pop"
        BY <1>4, <1>5
    <2> QED BY <1>5, <2>1, StartTimes
<1> DEFINE Rest == UNCHANGED <<complete, known, current, open, pool, hint, running>>
<1>6. ASSUME NEW s \in Device!Schedulers, Device!BeginSlice(s) PROVE GraphicsOnly' /\ StepDone
    <2>1. s = Graphics
        BY <1>1, <1>6 DEF Device!BeginSlice
    <2>2. active' = [active EXCEPT ![Graphics] = TRUE] /\ todo' = Device!BeginIfNone(Graphics)
          /\ todo = <<>> /\ slice' = Graphics /\ recording' = Graphics /\ Rest
          /\ UNCHANGED <<pending, priority, copy>>
        BY <1>6, <2>1 DEF Device!BeginSlice, Device!Ready, Device!timeline, Device!buffers, Device!queues
    <2>3. ~active'[Compute]
        BY <1>1, <1>2, <2>2 DEF Device!TypeOK
    <2> QED BY <1>1, <1>5, <2>2, <2>3
<1>7. CASE Device!DeferOperation \/ Device!DeferPriorityOperation
           \/ \E on \in Device!Schedulers : Device!DeleteImage(on)
    <2>1. slice = Graphics
        BY <1>2, <1>7 DEF Device!DeferOperation, Device!DeferPriorityOperation, Device!DeleteImage,
                          Device!Packet
    <2>2. /\ todo = <<>> /\ todo' = <<>> /\ Rest
          /\ UNCHANGED <<slice, recording, active, copy>>
          /\ pending' = pending \/ pending' = Device!Later(pending, Graphics, Graphics)
          /\ priority' = priority \/ priority' = Device!Later(priority, Graphics, Graphics)
        BY <1>7, <2>1 DEF Device!DeferOperation, Device!DeferPriorityOperation, Device!DeleteImage,
                          Device!Packet, Device!Ready, Device!PacketDone, Device!timeline, Device!buffers
    <2> QED BY <1>1, <1>2, <1>3, <1>5, <2>2
<1>8. CASE Device!PacketCalls \/ Device!SuspendSlice
    <2>1. slice = Graphics
        BY <1>2, <1>8 DEF Device!PacketCalls, Device!SuspendSlice, Device!Packet
    <2>2. /\ todo = <<>> /\ todo' \in Lists /\ Rest /\ slice' \in {slice, None}
          /\ UNCHANGED <<recording, active, copy, pending, priority>>
        BY <1>8, <2>1 DEF Device!PacketCalls, Device!SuspendSlice, Device!Packet, Device!Ready,
                          Device!PacketDone, Device!SliceOver, Device!timeline, Device!buffers, Device!queues
    <2> QED BY <1>1, <1>2, <1>3, <1>5, <2>2
<1>9. ASSUME NEW download \in BOOLEAN, NEW flip \in BOOLEAN, Device!CompleteSlice(download, flip)
      PROVE  GraphicsOnly' /\ StepDone
    <2>1. slice = Graphics
        BY <1>2, <1>9 DEF Device!CompleteSlice
    <2>2. /\ todo = <<>> /\ todo' \in Lists /\ Rest /\ slice' = None
          /\ UNCHANGED <<recording, active, copy, pending>>
          /\ priority' = priority \/ priority' = Device!Later(priority, Graphics, Graphics)
        BY <1>9, <2>1 DEF Device!CompleteSlice, Device!Ready, Device!SliceOver,
                          Device!timeline, Device!buffers
    <2> QED BY <1>1, <1>2, <1>3, <1>5, <2>2
<1>10. CASE Device!Readback
    <2>1. recording = Graphics
        <3>1. active[Graphics]
            BY <1>10 DEF Device!Readback, Device!Command
        <3> QED BY <1>1, <1>2, <3>1 DEF SchedulerInv, QueuesOK
    <2> DEFINE c == <<Device!Call("finish", Graphics, 0), Device!Call("waitpriority", Graphics, current),
                       Device!Call("read", Graphics, 0)>>
    <2>2. /\ todo = <<>> /\ todo' = c /\ Rest /\ open[Graphics] # 0
          /\ copy' = Device!Op(current, Graphics)
          /\ UNCHANGED <<slice, recording, active, pending, priority>>
        BY <1>10, <2>1 DEF Device!Readback, Device!Command, Device!Ready,
                           Device!timeline, Device!buffers, Device!queues, Device!thread
    <2>3. c # <<>> /\ c[1].call = "finish" /\ c[1].on = Graphics /\ c \in Lists
        BY DEF Device!Call
    <2>4. copy' # None
        <3>1. Device!Op(current, Graphics) \in Device!OpType
            BY <1>1 DEF Device!Op, Device!OpType
        <3> QED BY <1>1, <2>2, <3>1
    <2> HIDE DEF c
    <2> QED BY <1>1, <1>2, <1>3, <1>5, <2>2, <2>3, <2>4
<1>11. CASE Device!UnmapMemory
    <2>1. /\ todo = <<>> /\ todo' \in Lists /\ Rest
          /\ UNCHANGED <<slice, recording, active, copy, pending, priority>>
        BY <1>11 DEF Device!UnmapMemory, Device!Command, Device!Ready,
                     Device!timeline, Device!buffers, Device!queues, Device!thread
    <2> QED BY <1>1, <1>2, <1>3, <1>5, <2>1
<1> HIDE DEF Lists, Rest
<1> QED BY <1>6, <1>7, <1>8, <1>9, <1>10, <1>11 DEF Device!GpuStarts

\* RenderContext::ShutdownGpu
LEMMA LeavingTimes ==
    ASSUME SchedulerInv, GraphicsOnly, Device!CommandSchedulerAssumption, Device!ShutdownGpu
    PROVE  GraphicsOnly' /\ StepDone
<1>1. /\ Device!TypeOK /\ Graphics \in Device!Schedulers /\ Compute \in Device!Schedulers
      /\ Graphics # Compute /\ None \notin Device!Schedulers
    BY DEF SchedulerInv, Device!Schedulers, Device!CommandSchedulerAssumption
<1> DEFINE a == Device!BeginIfNone(Graphics)
           b == Device!Call("finish", Graphics, 0)
           c == Device!Call("shutdown", Compute, 0)
           d == Device!Call("drain", Graphics, 0)
           e == Device!Call("shutdown", Graphics, 0)
           t == <<b, c, b, d, e>>
<1>2. /\ todo = <<>> /\ slice = None /\ recording' = Graphics
      /\ active' = [active EXCEPT ![Graphics] = TRUE] /\ todo' = a \o t
      /\ UNCHANGED <<complete, known, current, open, pool, hint, running, pending, priority, copy, slice>>
    BY DEF Device!ShutdownGpu, Device!Ready, Device!timeline, Device!buffers, Device!queues
<1>3. a \in Seq(CallType) /\ \A i \in DOMAIN a : Ours(a[i]) /\ a[i].call # "pop"
    BY <1>1, StartLists
<1>4. t \in Seq(CallType) /\ \A i \in DOMAIN t : Ours(t[i]) /\ t[i].call # "pop"
    <2>1. /\ b \in CallType /\ Ours(b) /\ b.call # "pop"
          /\ c \in CallType /\ Ours(c) /\ c.call # "pop"
          /\ d \in CallType /\ Ours(d) /\ d.call # "pop"
          /\ e \in CallType /\ Ours(e) /\ e.call # "pop"
        BY <1>1 DEF Device!Call, CallType, Device!Calls, Ours
    <2> HIDE DEF b, c, d, e
    <2>2. /\ t \in Seq(CallType) /\ DOMAIN t = 1 .. 5
          /\ t[1] = b /\ t[2] = c /\ t[3] = b /\ t[4] = d /\ t[5] = e
        BY <2>1
    <2> HIDE DEF t
    <2>3. \A i \in DOMAIN t : i = 1 \/ i = 2 \/ i = 3 \/ i = 4 \/ i = 5
        BY <2>2
    <2> QED BY <2>1, <2>2, <2>3
<1> HIDE DEF a, t
<1>5. todo' \in Seq(CallType) /\ \A i \in DOMAIN todo' : Ours(todo'[i]) /\ todo'[i].call # "pop"
    <2>1. /\ a \o t \in Seq(CallType) /\ Len(a \o t) = Len(a) + Len(t)
          /\ \A i \in 1 .. Len(a) + Len(t) : (a \o t)[i] = IF i <= Len(a) THEN a[i] ELSE t[i - Len(a)]
        BY <1>3, <1>4, ConcatProperties
    <2>2. /\ Len(a) \in Nat /\ DOMAIN a = 1 .. Len(a) /\ Len(t) \in Nat /\ DOMAIN t = 1 .. Len(t)
          /\ DOMAIN (a \o t) = 1 .. Len(a) + Len(t)
        BY <1>3, <1>4, <2>1, LenProperties
    <2>3. ASSUME NEW i \in 1 .. Len(a) + Len(t)
          PROVE  Ours((a \o t)[i]) /\ (a \o t)[i].call # "pop"
        <3>1. CASE i <= Len(a)
            <4>1. i \in DOMAIN a /\ (a \o t)[i] = a[i]
                BY <2>1, <2>2, <3>1
            <4> QED BY <1>3, <4>1
        <3>2. CASE ~(i <= Len(a))
            <4>1. i - Len(a) \in DOMAIN t /\ (a \o t)[i] = t[i - Len(a)]
                BY <2>1, <2>2, <3>2
            <4> QED BY <1>4, <4>1
        <3> QED BY <3>1, <3>2
    <2> QED BY <1>2, <2>1, <2>2, <2>3
<1>6. ~active'[Compute] /\ slice' # Compute /\ recording' # Compute
    BY <1>1, <1>2 DEF GraphicsOnly, OneQueue, Device!TypeOK
<1> QED BY <1>2, <1>5, <1>6, StartTimes

\* While the guest uses the graphics queue only, every step keeps the times, and
\* runs nothing before the device is done.
LEMMA GraphicsStep ==
    ASSUME SchedulerInv, GraphicsOnly, Device!CommandSchedulerAssumption, ~asyncCompute,
           Device!Next \/ UNCHANGED deviceVars
    PROVE  GraphicsOnly' /\ StepDone
<1>1. ASSUME NEW s \in Device!Schedulers, Device!GpuCall(s) PROVE GraphicsOnly' /\ StepDone
    BY <1>1, SubmitCallTimes, BeginTimes, FinishTimes, PopTimes, OverCalls DEF Device!GpuCall
<1>2. CASE Device!GpuStarts
    BY <1>2, GuestTimes, LeavingTimes
<1>3. CASE Device!WriteBacking
    BY <1>3, OverCalls
<1>4. CASE Device!DeviceCompletes \/ (\E s \in Device!Schedulers : Device!PriorityThread(s))
           \/ UNCHANGED deviceVars
    BY <1>4, BesideTimes
<1>5. CASE Device!Terminated
    <2>1. UNCHANGED deviceVars
        BY <1>5 DEF Device!Terminated, Device!vars, Device!timeline, Device!buffers, Device!queues,
                    Device!thread, deviceVars
    <2> QED BY <2>1, BesideTimes
<1> QED BY <1>1, <1>2, <1>3, <1>4, <1>5 DEF Device!Next

LEMMA AsyncFixed ==
    ASSUME Device!Next \/ UNCHANGED deviceVars
    PROVE  asyncCompute' = asyncCompute
<1>1. ASSUME UNCHANGED deviceVars PROVE asyncCompute' = asyncCompute
    BY <1>1 DEF deviceVars
<1>2. ASSUME NEW s \in Device!Schedulers, Device!GpuCall(s) \/ Device!PriorityThread(s)
      PROVE  asyncCompute' = asyncCompute
    BY <1>2 DEF Device!GpuCall, Device!PriorityThread, Device!SubmitCall, Device!BeginCommand,
                Device!WaitTick, Device!Finish, Device!Refresh, Device!PopPendingOperations,
                Device!WaitPriorityOperations, Device!Shutdown, Device!DrainPriorityOperations,
                Device!Close, Device!TakePriority, Device!RunPriority, Device!thread
<1>3. CASE Device!GpuStarts
    BY <1>3 DEF Device!GpuStarts, Device!BeginSlice, Device!DeleteImage, Device!DeferOperation,
                Device!DeferPriorityOperation, Device!PacketCalls, Device!SuspendSlice,
                Device!CompleteSlice, Device!Readback, Device!UnmapMemory, Device!ShutdownGpu,
                Device!PacketDone, Device!SliceOver, Device!thread
<1> QED BY <1>1, <1>2, <1>3 DEF Device!Next, Device!DeviceCompletes, Device!WriteBacking,
           Device!Terminated, Device!vars, Device!thread, deviceVars

LEMMA TimesStart ==
    ASSUME Device!CommandSchedulerAssumption, Device!Init
    PROVE  GraphicsOnly
<1>1. /\ Graphics \in Device!Schedulers /\ Compute \in Device!Schedulers /\ None \notin Device!Schedulers
    BY DEF Device!CommandSchedulerAssumption, Device!Schedulers
<1>2. DOMAIN <<>> = {}
    OBVIOUS
<1>3. OneQueue
    BY <1>1, <1>2 DEF Device!Init, OneQueue
<1>4. OpsTimed
    BY <1>2 DEF Device!Init, OpsTimed
<1>5. PoolTimed
    BY <1>1, <1>2 DEF Device!Init, PoolTimed
<1>6. CopyOK /\ PopsFree
    BY DEF Device!Init, CopyOK, PopsFree, Device!Doing
<1> QED BY <1>3, <1>4, <1>5, <1>6 DEF GraphicsOnly

\* While the guest uses the graphics queue only, no readback, no deferred
\* operation and no end-of-pipe callback runs before the submission it belongs to
\* is complete, and CommandPool::Commit hands out no buffer that the device may
\* still execute, for any number of operations, buffers and ticks.
THEOREM DeviceFirst ==
    ASSUME Device!CommandSchedulerAssumption
    PROVE  MCSpec => DeviceDoneFirst
<1>1. MCInit => DoneInv
    BY SchedulerStarts, TimesStart DEF MCInit, DoneInv
<1>2. DoneInv /\ [DeviceStep \/ RingStep \/ CacheStep]_allVars =>
          DoneInv' /\ (~asyncCompute => StepDone)
    <2> SUFFICES ASSUME DoneInv, Device!Next \/ UNCHANGED deviceVars
                 PROVE  DoneInv' /\ (~asyncCompute => StepDone)
        BY DEF DeviceStep, RingStep, CacheStep, allVars
    <2>1. SchedulerInv' /\ asyncCompute' = asyncCompute
        BY SchedulerStep, AsyncFixed DEF DoneInv
    <2>2. ~asyncCompute => GraphicsOnly' /\ StepDone
        BY GraphicsStep DEF DoneInv
    <2> QED BY <2>1, <2>2 DEF DoneInv
<1> DEFINE BeforeUse ==
              ~asyncCompute =>
                /\ copy # None /\ copy' = None => Device!Complete(copy)
                /\ \A s \in Device!Schedulers : \A o \in Device!RanPending(s) : Device!Complete(o)
                /\ \A o \in Device!RanPriority : Device!Complete(o)
           Idle ==
              ~asyncCompute =>
                \A s \in Device!Schedulers :
                   open[s] = 0 /\ open'[s] \in 1 .. Len(pool[s]) => pool[s][open'[s]].due <= complete
<1>3. (~asyncCompute => StepDone) => BeforeUse /\ Idle
    BY DEF StepDone
<1>4. [][BeforeUse]_(Device!vars) /\ [][Idle]_(Device!vars) => DeviceDoneFirst
    BY DEF DeviceDoneFirst, Device!DeviceDoneFirst, Device!CompleteBeforeUse, Device!CommittedIdle
<1> HIDE DEF BeforeUse, Idle
<1> QED BY <1>1, <1>2, <1>3, <1>4, PTL DEF MCSpec
=============================================================================
