---------------------------- MODULE AvPlayer_proofs ----------------------------
(***************************************************************************)
(* Proofs about AvPlayer.tla, for every source, number of buffers, length  *)
(* of queue and delay of a codec: a buffer is in one place, the frames     *)
(* between the last one that was handed out and the demuxer are on their   *)
(* way, in order, the player ends with the movie, and who sleeps has to.   *)
(*                                                                         *)
(* The inductive invariant, PlayInv, has a part for each of these and two  *)
(* that they rest on: the types, and what the place of each thread says of *)
(* what it holds (Shape).  Every part is kept by the demuxer's steps, the  *)
(* decoders', the control calls' and the guest's, in a lemma for each.     *)
(***************************************************************************)
EXTENDS AvPlayer, ListLemmas

\* The types of the variables.
FrameType == [buf : Nat, ts : Nat]
ItemType == [ts : Nat, flush : BOOLEAN]
ReadType == [kind : Kinds, item : ItemType]
DecoderPcs == {"off", "pop", "popChecked", "popAsleep", "receive", "bufChecked", "bufAsleep",
               "write"}
DecoderType == [pc : DecoderPcs, codec : Seq(Nat), drain : BOOLEAN, next : Nat \cup {-1},
                buf : Nat]
DemuxType == [pc : {"off", "run", "checked", "asleep"}, pos : Nat, round : Nat,
              todo : Seq(ReadType)]
ControlType == [pc : {"idle", "stopping", "joining", "launching", "unlaunching", "unjoining"},
                call : {"none", "start", "stop", "jump", "change"}, from : Nat]
PlayerType == [stopped : BOOLEAN, paused : BOOLEAN, seekFrame : BOOLEAN, failed : BOOLEAN,
               stop : BOOLEAN, eof : BOOLEAN, done : [Kinds -> BOOLEAN], lastAudio : Nat]
PlayTypeOK ==
    /\ source \in Sources
    /\ ctl \in ControlType /\ player \in PlayerType /\ demux \in DemuxType
    /\ dec \in [Kinds -> DecoderType]
    /\ packets \in [Kinds -> Seq(ItemType)]
    /\ free \in [Kinds -> Seq(Nat)] /\ ready \in [Kinds -> Seq(FrameType)]
    /\ current \in [Kinds -> [buf : Nat, ts : Nat \cup {-1}]] /\ retired \in Seq(Nat)
    /\ given \in [Kinds -> Nat \cup {-1}]
    /\ missed \in BOOLEAN
\* A decoder writes a frame that its codec has.
Writing == \A k \in Kinds : dec[k].pc = "write" => dec[k].codec # <<>>
\* The source: its file, its length and the kinds in it.
LEMMA SourceFacts ==
    ASSUME AvPlayerAssumption, PlayTypeOK
    PROVE  /\ source.file \in Seq(Kinds) /\ Size \in Nat \ {0} /\ source.rounds \in Nat
           /\ \A i \in 1 .. Size : source.file[i] \in Kinds
           /\ On \subseteq Kinds /\ \A k \in Kinds : AllBuffers(k) \in Nat \ {0}
           /\ VideoBuffers \in Nat \ {0, 1}
  <1>1. source.file \in Seq(Kinds) /\ source.file # <<>> /\ source.rounds \in Nat
    BY DEF AvPlayerAssumption, PlayTypeOK
  <1>2. Size \in Nat \ {0} /\ \A i \in 1 .. Size : source.file[i] \in Kinds
    BY <1>1, LenProperties, ElementOfSeq, EmptySeq DEF Size
  <1>3. VideoBuffers \in Nat \ {0, 1} /\ AudioBuffers \in Nat \ {0}
    BY DEF AvPlayerAssumption
  <1> QED
    BY <1>1, <1>2, <1>3 DEF On, AllBuffers

\* The initial state has the types.
LEMMA PlayTypeStarts ==
    ASSUME AvPlayerAssumption, Init
    PROVE  PlayTypeOK
  <1>1. source \in Sources /\ missed \in BOOLEAN
    BY DEF Init
  <1>2. ctl \in ControlType /\ player \in PlayerType
    BY DEF Init, ControlType, PlayerType, OfEach
  <1>3. demux \in DemuxType /\ dec \in [Kinds -> DecoderType]
    BY DEF Init, DemuxType, DecoderType, DecoderPcs, OfEach, OffDemux, OffDecoder
  <1>4. /\ packets \in [Kinds -> Seq(ItemType)] /\ free \in [Kinds -> Seq(Nat)]
        /\ ready \in [Kinds -> Seq(FrameType)] /\ given \in [Kinds -> Nat \cup {-1}]
        /\ current \in [Kinds -> [buf : Nat, ts : Nat \cup {-1}]] /\ retired \in Seq(Nat)
    BY DEF Init, OfEach, NoFrame
  <1> QED
    BY <1>1, <1>2, <1>3, <1>4 DEF PlayTypeOK

\* What wakes threads and ends a decoder leaves them well typed.
LEMMA WakesTyped ==
    ASSUME NEW ds \in [Kinds -> DecoderType]
    PROVE  /\ AllAwake(ds) \in [Kinds -> DecoderType]
           /\ OffDecoder \in DecoderType
           /\ \A d \in DemuxType : Woken(d) \in DemuxType
  <1>1. \A k \in Kinds : ds[k] \in DecoderType
    OBVIOUS
  <1>2. \A d \in DecoderType : /\ [d EXCEPT !.pc = "pop"] \in DecoderType
                               /\ [d EXCEPT !.pc = "receive"] \in DecoderType
    BY DEF DecoderType, DecoderPcs
  <1>3. AllAwake(ds) \in [Kinds -> DecoderType]
    BY <1>1, <1>2 DEF AllAwake
  <1>4. OffDecoder \in DecoderType
    BY DEF OffDecoder, DecoderType, DecoderPcs
  <1>5. \A d \in DemuxType : Woken(d) \in DemuxType
    BY DEF Woken, DemuxType
  <1> QED
    BY <1>3, <1>4, <1>5

\* What one decoder may be after a step: those of the others stay.
LEMMA OneDecoder ==
    ASSUME PlayTypeOK, NEW k \in Kinds, NEW d \in DecoderType
    PROVE  [dec EXCEPT ![k] = d] \in [Kinds -> DecoderType]
  BY DEF PlayTypeOK

\* The fields of the records keep their types when they are replaced.
LEMMA DecoderFields ==
    ASSUME NEW d \in DecoderType
    PROVE  /\ \A pc \in DecoderPcs : [d EXCEPT !.pc = pc] \in DecoderType
           /\ \A pc \in DecoderPcs, b \in BOOLEAN, n \in Nat \cup {-1} :
                 [d EXCEPT !.pc = pc, !.drain = b, !.next = n] \in DecoderType
           /\ \A pc \in DecoderPcs, c \in Seq(Nat) : [d EXCEPT !.pc = pc, !.codec = c] \in DecoderType
           /\ \A pc \in DecoderPcs, c \in Seq(Nat), b \in Nat :
                 [d EXCEPT !.pc = pc, !.buf = b, !.codec = c] \in DecoderType
           /\ \A pc \in DecoderPcs, b \in Nat : [d EXCEPT !.pc = pc, !.buf = b] \in DecoderType
  BY Zenon DEF DecoderType

LEMMA ListFields ==
    ASSUME NEW S, NEW q \in Seq(S)
    PROVE  /\ \A x \in S : Append(q, x) \in Seq(S)
           /\ q # <<>> => Head(q) \in S /\ Tail(q) \in Seq(S)
  OBVIOUS

LEMMA DemuxFields ==
    ASSUME NEW d \in DemuxType
    PROVE  /\ \A pc \in {"off", "run", "checked", "asleep"} : [d EXCEPT !.pc = pc] \in DemuxType
           /\ \A q \in Seq(ReadType) : [d EXCEPT !.todo = q] \in DemuxType
           /\ \A q \in Seq(ReadType) : [d EXCEPT !.pc = "off", !.todo = q] \in DemuxType
           /\ \A n \in Nat, q \in Seq(ReadType) : [d EXCEPT !.pos = n, !.todo = q] \in DemuxType
           /\ \A n, m \in Nat, q \in Seq(ReadType) :
                 [d EXCEPT !.pos = n, !.round = m, !.todo = q] \in DemuxType
  BY Zenon DEF DemuxType

LEMMA PlayerFields ==
    ASSUME NEW p \in PlayerType
    PROVE  /\ [p EXCEPT !.eof = TRUE] \in PlayerType
           /\ [p EXCEPT !.failed = TRUE, !.stop = TRUE, !.eof = TRUE] \in PlayerType
           /\ \A k \in Kinds : [p EXCEPT !.done[k] = TRUE] \in PlayerType
           /\ \A k \in Kinds, b \in BOOLEAN :
                 [p EXCEPT !.done[k] = TRUE, !.failed = b, !.stop = TRUE] \in PlayerType
  BY Zenon DEF PlayerType

\* The demuxer's steps.
LEMMA DemuxTyped ==
    ASSUME AvPlayerAssumption, PlayTypeOK, Demux \/ ReadFails
    PROVE  PlayTypeOK'
  <1> DEFINE Rest == /\ source' = source /\ ctl' = ctl /\ free' = free /\ ready' = ready
                     /\ current' = current /\ retired' = retired /\ given' = given
  <1>0. /\ demux.pos \in Nat /\ demux.round \in Nat /\ demux.todo \in Seq(ReadType)
    BY DEF PlayTypeOK, DemuxType
  <1>n. demux.pos + demux.round * Size \in Nat /\ (demux.round + 1) * Size \in Nat
    <2>1. demux.pos \in Nat /\ demux.round \in Nat /\ demux.todo \in Seq(ReadType)
      BY DEF PlayTypeOK, DemuxType
    <2>2. Size \in Nat
      BY SourceFacts
    <2> HIDE DEF Size
    <2> QED
      BY <2>1, <2>2
  <1>w. \A k \in Kinds : WakesPopper(k) \in [Kinds -> DecoderType]
    <2> SUFFICES ASSUME NEW k \in Kinds PROVE WakesPopper(k) \in [Kinds -> DecoderType]
      OBVIOUS
    <2>1. dec[k] \in DecoderType /\ [dec[k] EXCEPT !.pc = "pop"] \in DecoderType
      BY DecoderFields DEF PlayTypeOK, DecoderPcs
    <2> QED
      BY <2>1, OneDecoder DEF WakesPopper
  <1>1. CASE Reads
    <2>1. <<[kind |-> source.file[demux.pos + 1],
             item |-> Packet(demux.pos + demux.round * Size)]>> \in Seq(ReadType)
      <3>1. demux.pos + 1 \in 1 .. Size
        BY <1>0, <1>1, SourceFacts DEF Reads
      <3>2. source.file[demux.pos + 1] \in Kinds
        BY <3>1, SourceFacts
      <3> QED
        BY <1>n, <3>2 DEF ReadType, ItemType, Packet
    <2> DEFINE todo == <<[kind |-> source.file[demux.pos + 1],
                          item |-> Packet(demux.pos + demux.round * Size)]>>
    <2>t. demux' = [demux EXCEPT !.pos = demux.pos + 1, !.todo = todo] /\ demux \in DemuxType
      BY <1>1 DEF Reads, PlayTypeOK
    <2>q. todo \in Seq(ReadType)
      BY <2>1
    <2> HIDE DEF todo
    <2>n. demux.pos + 1 \in Nat
      BY <1>0
    <2>2. demux' \in DemuxType
      BY <2>n, <2>q, <2>t, DemuxFields, Zenon
    <2> QED
      BY <1>1, <2>2 DEF Reads, PlayTypeOK, queues, held
  <1>2. CASE GoesRound
    <2> DEFINE flush == Flush((demux.round + 1) * Size)
               Tell(k) == IF k \in On THEN <<[kind |-> k, item |-> flush]>> ELSE <<>>
    <2>1. flush \in ItemType
      BY <1>n DEF ItemType, Flush
    <2>t. demux' = [demux EXCEPT !.pos = 0, !.round = demux.round + 1,
                                 !.todo = Tell("video") \o Tell("audio")]
      BY <1>2 DEF GoesRound
    <2> HIDE DEF flush
    <2>2. \A k \in Kinds : Tell(k) \in Seq(ReadType)
      <3>1. \A k \in Kinds : [kind |-> k, item |-> flush] \in ReadType
        BY <2>1 DEF ReadType
      <3> HIDE DEF ReadType
      <3> QED
        BY <3>1
    <2> HIDE DEF Tell
    <2>3. Tell("video") \o Tell("audio") \in Seq(ReadType)
      BY <2>2, JoinIsList DEF Kinds
    <2>d. demux \in DemuxType
      BY DEF PlayTypeOK
    <2> DEFINE both == Tell("video") \o Tell("audio")
    <2>q. /\ both \in Seq(ReadType)
          /\ demux' = [demux EXCEPT !.pos = 0, !.round = demux.round + 1, !.todo = both]
      BY <2>3, <2>t
    <2> HIDE DEF both
    <2>4. demux' \in DemuxType
      <3>1. demux.round + 1 \in Nat /\ 0 \in Nat
        BY <1>0
      <3> QED
        BY <2>d, <2>q, <3>1, DemuxFields, Zenon
    <2> QED
      BY <1>2, <2>4 DEF GoesRound, PlayTypeOK, queues, held
  <1>3. CASE DemuxReturns
    <2>1. demux' \in DemuxType /\ player' \in PlayerType
      <3>1. /\ demux' = [demux EXCEPT !.pc = "off", !.todo = <<>>] /\ demux \in DemuxType
            /\ player' = [player EXCEPT !.eof = TRUE] /\ player \in PlayerType
        BY <1>3 DEF DemuxReturns, EndOfFile, DemuxEnds, PlayTypeOK
      <3>2. <<>> \in Seq(ReadType)
        OBVIOUS
      <3> QED
        BY <3>1, <3>2, DemuxFields, PlayerFields, Zenon
    <2>2. dec' \in [Kinds -> DecoderType]
      BY <1>3, <1>w DEF DemuxReturns, EndOfFile
    <2> QED
      BY <1>3, <2>1, <2>2 DEF DemuxReturns, EndOfFile, PlayTypeOK, queues, held
  <1>4. CASE Push
    <2> DEFINE k == Head(demux.todo).kind
               item == Head(demux.todo).item
    <2>1. /\ k \in Kinds /\ item \in ItemType /\ Tail(demux.todo) \in Seq(ReadType)
      <3>1. demux.todo # <<>>
        BY <1>4 DEF Push
      <3>2. Head(demux.todo) \in ReadType /\ Tail(demux.todo) \in Seq(ReadType)
        BY <1>0, <3>1, ListFields
      <3> QED
        BY <3>2 DEF ReadType
    <2>2. packets' \in [Kinds -> Seq(ItemType)] /\ demux' \in DemuxType
      <3>1. demux \in DemuxType /\ packets \in [Kinds -> Seq(ItemType)]
        BY DEF PlayTypeOK
      <3>2. \/ packets' = packets /\ demux' = [demux EXCEPT !.pc = "checked"]
            \/ /\ packets' = [packets EXCEPT ![k] = Append(packets[k], item)]
               /\ demux' = [demux EXCEPT !.todo = Tail(demux.todo)]
        BY <1>4 DEF Push
      <3>3. packets[k] \in Seq(ItemType)
        BY <2>1, <3>1
      <3> HIDE DEF k, item
      <3>a. Append(packets[k], item) \in Seq(ItemType)
        BY <2>1, <3>3
      <3>4. packets' \in [Kinds -> Seq(ItemType)]
        BY <2>1, <3>1, <3>2, <3>a
      <3>5. demux' \in DemuxType
        BY <2>1, <3>1, <3>2, DemuxFields, Zenon
      <3> QED
        BY <3>4, <3>5
    <2>3. dec' \in [Kinds -> DecoderType]
      <3>1. dec' = dec \/ dec' = WakesPopper(k)
        BY <1>4 DEF Push
      <3> HIDE DEF k
      <3> QED
        BY <1>w, <2>1, <3>1 DEF PlayTypeOK
    <2> QED
      BY <1>4, <2>2, <2>3 DEF Push, PlayTypeOK, queues, held
  <1>5. CASE DemuxSleeps
    BY <1>5 DEF DemuxSleeps, PlayTypeOK, DemuxType, queues, held
  <1>6. CASE ReadFails
    <2>1. DemuxEnds \in DemuxType /\ player' \in PlayerType
      <3>1. /\ demux \in DemuxType /\ player \in PlayerType
            /\ player' = [player EXCEPT !.failed = TRUE, !.stop = TRUE, !.eof = TRUE]
        BY <1>6 DEF ReadFails, PlayTypeOK
      <3>2. <<>> \in Seq(ReadType)
        OBVIOUS
      <3> QED
        BY <3>1, <3>2, DemuxFields, PlayerFields, Zenon DEF DemuxEnds
    <2>2. demux' \in DemuxType /\ dec' \in [Kinds -> DecoderType] /\ missed' \in BOOLEAN
      BY <1>6, <2>1, WakesTyped DEF ReadFails, NotifyWorkers, PlayTypeOK
    <2> QED
      BY <1>6, <2>1, <2>2 DEF ReadFails, PlayTypeOK, queues, held
  <1> QED
    BY <1>1, <1>2, <1>3, <1>4, <1>5, <1>6 DEF Demux

\* A decoder's steps.
LEMMA DecoderTyped ==
    ASSUME AvPlayerAssumption, PlayTypeOK, Writing, NEW k \in Kinds,
           Decoder(k) \/ WriteFails(k)
    PROVE  PlayTypeOK'
  <1>0. /\ dec[k] \in DecoderType /\ dec[k].codec \in Seq(Nat) /\ dec[k].buf \in Nat
        /\ packets[k] \in Seq(ItemType) /\ free[k] \in Seq(Nat) /\ ready[k] \in Seq(FrameType)
    BY DEF PlayTypeOK, DecoderType
  <1>e. Exit(k) \in [Kinds -> DecoderType]
    BY WakesTyped, OneDecoder DEF Exit, PlayTypeOK
  <1>d. player.done \in [Kinds -> BOOLEAN] /\ [player EXCEPT !.done[k] = TRUE] \in PlayerType
    <2>1. player \in PlayerType
      BY DEF PlayTypeOK
    <2> QED
      BY <2>1, PlayerFields, Zenon DEF PlayerType
  <1>1. CASE Pop(k)
    <2>1. CASE packets[k] # <<>>
      <3> DEFINE item == Head(packets[k])
      <3>1. item \in ItemType /\ Tail(packets[k]) \in Seq(ItemType)
        BY <1>0, <2>1, ListFields
      <3>2. item.ts \in Nat /\ Append(dec[k].codec, item.ts) \in Seq(Nat)
        BY <1>0, <3>1 DEF ItemType
      <3>3. dec' \in [Kinds -> DecoderType]
        <4> DEFINE d == IF item.flush
                        THEN [dec[k] EXCEPT !.pc = "receive", !.drain = TRUE, !.next = item.ts]
                        ELSE [dec[k] EXCEPT !.pc = "receive", !.codec = Append(dec[k].codec, item.ts)]
        <4>1. d \in DecoderType
          BY <1>0, <3>2, DecoderFields DEF DecoderPcs
        <4>2. dec' = [dec EXCEPT ![k] = d]
          BY <1>1, <2>1 DEF Pop
        <4> HIDE DEF d
        <4> QED
          BY <4>1, <4>2, OneDecoder
      <3>4. packets' \in [Kinds -> Seq(ItemType)] /\ demux' \in DemuxType
        BY <1>1, <2>1, <3>1, WakesTyped DEF Pop, WakesDemux, PlayTypeOK
      <3> QED
        BY <1>1, <3>3, <3>4 DEF Pop, PlayTypeOK, held
    <2>2. CASE packets[k] = <<>>
      <3> DEFINE d == IF player.eof THEN [dec[k] EXCEPT !.pc = "receive", !.drain = TRUE, !.next = -1]
                      ELSE [dec[k] EXCEPT !.pc = "popChecked"]
      <3>1. d \in DecoderType
        BY <1>0, DecoderFields DEF DecoderPcs
      <3>2. dec' = [dec EXCEPT ![k] = d]
        BY <1>1, <2>2 DEF Pop
      <3> HIDE DEF d
      <3> QED
        BY <1>1, <2>2, <3>1, <3>2, OneDecoder DEF Pop, PlayTypeOK, held
    <2> QED
      BY <2>1, <2>2
  <1>2. CASE Receive(k)
    <2>1. dec' \in [Kinds -> DecoderType]
      <3>1. ASSUME dec' = [dec EXCEPT ![k].pc = "write", ![k].buf = Head(free[k])], free[k] # <<>>
            PROVE  dec' \in [Kinds -> DecoderType]
        <4>1. dec' = [dec EXCEPT ![k] = [dec[k] EXCEPT !.pc = "write", !.buf = Head(free[k])]]
          BY <3>1 DEF PlayTypeOK
        <4>2. [dec[k] EXCEPT !.pc = "write", !.buf = Head(free[k])] \in DecoderType
          BY <1>0, <3>1, ListFields, DecoderFields DEF DecoderPcs
        <4> QED
          BY <4>1, <4>2, OneDecoder
      <3>2. ASSUME dec' = [dec EXCEPT ![k].pc = "bufChecked"]
            PROVE  dec' \in [Kinds -> DecoderType]
        BY <1>0, <3>2, OneDecoder, DecoderFields DEF DecoderPcs
      <3>3. ASSUME dec' = [dec EXCEPT ![k] = [@ EXCEPT !.pc = "pop", !.drain = FALSE, !.next = -1]]
            PROVE  dec' \in [Kinds -> DecoderType]
        BY <1>0, <3>3, OneDecoder, DecoderFields DEF DecoderPcs
      <3> QED
        BY <1>2, <1>e, <3>1, <3>2, <3>3 DEF Receive
    <2>2. free' \in [Kinds -> Seq(Nat)] /\ player' \in PlayerType
      <3>1. /\ player' = player \/ player' = [player EXCEPT !.done[k] = TRUE]
            /\ free' = free \/ (free[k] # <<>> /\ free' = [free EXCEPT ![k] = Tail(free[k])])
        BY <1>2 DEF Receive
      <3>2. free[k] # <<>> => Tail(free[k]) \in Seq(Nat)
        BY <1>0, ListFields
      <3> QED
        BY <1>d, <3>1, <3>2 DEF PlayTypeOK
    <2> QED
      BY <1>2, <2>1, <2>2 DEF Receive, PlayTypeOK, held
  <1>3. CASE DecoderStops(k)
    BY <1>3, <1>e, <1>d DEF DecoderStops, PlayTypeOK, queues, held
  <1>4. CASE DecoderSleeps(k)
    <2> DEFINE d == [dec[k] EXCEPT !.pc = IF dec[k].pc = "popChecked" THEN "popAsleep" ELSE "bufAsleep"]
    <2>1. dec' = [dec EXCEPT ![k] = d]
      BY <1>4 DEF DecoderSleeps, PlayTypeOK
    <2>2. d \in DecoderType
      BY <1>0, DecoderFields DEF DecoderPcs
    <2> HIDE DEF d
    <2>3. dec' \in [Kinds -> DecoderType]
      BY <2>1, <2>2, OneDecoder
    <2> QED
      BY <1>4, <2>3 DEF DecoderSleeps, PlayTypeOK, queues, held
  <1>5. CASE Write(k)
    <2> DEFINE d == [dec[k] EXCEPT !.pc = "receive", !.buf = 0, !.codec = Tail(dec[k].codec)]
    <2>0. dec[k].codec # <<>>
      BY <1>5 DEF Write, Writing
    <2>1. /\ Head(dec[k].codec) \in Nat /\ Tail(dec[k].codec) \in Seq(Nat)
      BY <1>0, <2>0, ListFields
    <2>2. d \in DecoderType
      BY <1>0, <2>1, DecoderFields DEF DecoderPcs
    <2>3. dec' = [dec EXCEPT ![k] = d]
      BY <1>5 DEF Write
    <2> HIDE DEF d
    <2>4. dec' \in [Kinds -> DecoderType]
      BY <2>2, <2>3, OneDecoder
    <2>5. [buf |-> dec[k].buf, ts |-> Head(dec[k].codec)] \in FrameType
      BY <1>0, <2>1 DEF FrameType
    <2>6. ready' \in [Kinds -> Seq(FrameType)]
      BY <1>0, <1>5, <2>5, ListFields DEF Write, PlayTypeOK
    <2> QED
      BY <1>5, <2>4, <2>6 DEF Write, PlayTypeOK, held
  <1>6. CASE WriteFails(k)
    <2>1. free' \in [Kinds -> Seq(Nat)] /\ player' \in PlayerType
      <3>1. player \in PlayerType /\ player.stop \in BOOLEAN /\ player.failed \in BOOLEAN
        BY DEF PlayTypeOK, PlayerType
      <3> QED
        <4>1. Append(free[k], dec[k].buf) \in Seq(Nat) /\ (player.failed \/ ~player.stop) \in BOOLEAN
          BY <1>0, <3>1
        <4>2. /\ player' = [player EXCEPT !.done[k] = TRUE, !.failed = player.failed \/ ~player.stop,
                                         !.stop = TRUE]
              /\ free' = [free EXCEPT ![k] = Append(free[k], dec[k].buf)]
          BY <1>6 DEF WriteFails
        <4>3. player' \in PlayerType
          BY <3>1, <4>1, <4>2, PlayerFields, Zenon
        <4> QED
          BY <4>1, <4>2, <4>3 DEF PlayTypeOK
    <2>2. dec' \in [Kinds -> DecoderType] /\ demux' \in DemuxType /\ missed' \in BOOLEAN
      BY <1>6, <1>e, WakesTyped DEF WriteFails, NotifyWorkers, PlayTypeOK
    <2> QED
      BY <1>6, <2>1, <2>2 DEF WriteFails, PlayTypeOK, held
  <1> QED
    BY <1>1, <1>2, <1>3, <1>4, <1>5, <1>6 DEF Decoder

\* What Resets allocates: a list of the buffers that are not held, each once.
LEMMA NewBuffersListed ==
    ASSUME AvPlayerAssumption, PlayTypeOK, NEW k \in Kinds
    PROVE  /\ NewBuffers(k) \in Seq(Nat) /\ IsInjective(NewBuffers(k))
           /\ ToSet(NewBuffers(k)) = 1 .. AllBuffers(k) \ HeldBuffers(k)
  <1> DEFINE T == 1 .. AllBuffers(k) \ HeldBuffers(k)
  <1>1. IsFiniteSet(1 .. AllBuffers(k)) /\ T \subseteq 1 .. AllBuffers(k)
    BY SourceFacts, FS_Interval
  <1>2. IsFiniteSet(T) /\ T \subseteq Nat
    BY <1>1, FS_Subset, SourceFacts
  <1> HIDE DEF T
  <1>3. /\ SetToSeq(T) \in Seq(T) /\ IsInjective(SetToSeq(T)) /\ ToSet(SetToSeq(T)) = T
    BY <1>2, SetAsList
  <1>4. SetToSeq(T) \in Seq(Nat)
    BY <1>2, <1>3, SeqMonotonic
  <1> QED
    BY <1>3, <1>4 DEF NewBuffers, T

\* The calls under lifecycle_mutex.
LEMMA ControlTyped ==
    ASSUME AvPlayerAssumption, PlayTypeOK,
           Control \/ (\E call \in {"start", "stop", "jump", "change"}, from \in Starts : Begins(call, from))
    PROVE  PlayTypeOK'
  <1>0. /\ ctl \in ControlType /\ player \in PlayerType /\ demux \in DemuxType
        /\ dec \in [Kinds -> DecoderType]
        /\ player.paused \in BOOLEAN /\ ctl.from \in Nat
    BY DEF PlayTypeOK, PlayerType, ControlType
  <1>e. Ended(player) \in PlayerType
    <2>1. /\ OfEach(TRUE) \in [Kinds -> BOOLEAN] /\ 0 \in Nat
      BY DEF OfEach
    <2> QED
      BY <1>0, <2>1, Zenon DEF Ended, PlayerType
  <1>l. /\ OfEach(<<>>) \in [Kinds -> Seq(ItemType)] /\ OfEach(<<>>) \in [Kinds -> Seq(FrameType)]
        /\ OfEach(<<>>) \in [Kinds -> Seq(Nat)]
    BY DEF OfEach
  <1>s. \A ks : Started(ks) \in [Kinds -> DecoderType]
    <2>1. OffDecoder \in DecoderType /\ [OffDecoder EXCEPT !.pc = "pop"] \in DecoderType
      <3>1. OffDecoder \in DecoderType /\ "pop" \in DecoderPcs
        BY DEF OffDecoder, DecoderType, DecoderPcs
      <3> QED
        BY <3>1, DecoderFields, Zenon
    <2> QED
      BY <2>1 DEF Started
  <1>c. \A pc \in {"idle", "stopping", "joining", "launching", "unlaunching", "unjoining"} :
           [ctl EXCEPT !.pc = pc] \in ControlType
    BY <1>0, Zenon DEF ControlType
  <1>1. CASE \E call \in {"start", "stop", "jump", "change"}, from \in Starts : Begins(call, from)
    <2>1. PICK call \in {"start", "stop", "jump", "change"}, from \in Starts : Begins(call, from)
      BY <1>1
    <2>2. ctl' \in ControlType /\ player' \in PlayerType
      <3>1. from \in Nat
        BY DEF AvPlayerAssumption
      <3>2. [player EXCEPT !.stopped = TRUE] \in PlayerType
        BY <1>0, Zenon DEF PlayerType
      <3> QED
        BY <2>1, <3>1, <3>2 DEF Begins, ControlType
    <2> QED
      BY <2>1, <2>2 DEF Begins, PlayTypeOK, queues, held
  <1>2. CASE Stops
    <2>1. [player EXCEPT !.stop = TRUE] \in PlayerType
      BY <1>0, Zenon DEF PlayerType
    <2>2. ctl' = [ctl EXCEPT !.pc = "joining"] \/ ctl' = [ctl EXCEPT !.pc = "unjoining"]
      BY <1>2 DEF Stops
    <2>3. ctl' \in ControlType
      BY <1>c, <2>2, Zenon
    <2>4. demux' \in DemuxType /\ dec' \in [Kinds -> DecoderType] /\ missed' \in BOOLEAN
      BY <1>0, <1>2, WakesTyped DEF Stops, NotifyWorkers, PlayTypeOK
    <2> QED
      BY <1>2, <2>1, <2>3, <2>4 DEF Stops, PlayTypeOK, queues, held
  <1>3. CASE StopEnds
    <2>1. ctl' \in ControlType
      BY <1>c, <1>3, Zenon DEF StopEnds
    <2>2. OfEach(NoFrame) \in [Kinds -> [buf : Nat, ts : Nat \cup {-1}]]
      BY DEF OfEach, NoFrame
    <2> QED
      BY <1>3, <1>e, <1>l, <2>1, <2>2 DEF StopEnds, Cleared, PlayTypeOK
  <1>4. CASE Resets
    <2>1. ctl' \in ControlType
      BY <1>c, <1>4 DEF Resets
    <2>2. player' \in PlayerType
      <3> DEFINE p == Ended(player)
                 pause == p.paused /\ ctl.call # "start"
                 seek == player.paused /\ ctl.call = "jump" /\ "video" \in On
      <3>1. player' = p \/ player' = [p EXCEPT !.stopped = FALSE, !.paused = pause, !.seekFrame = seek]
        BY <1>4 DEF Resets
      <3>2. pause \in BOOLEAN /\ seek \in BOOLEAN
        OBVIOUS
      <3>3. p \in PlayerType
        BY <1>e
      <3> HIDE DEF p, pause, seek
      <3>4. [p EXCEPT !.stopped = FALSE, !.paused = pause, !.seekFrame = seek] \in PlayerType
        BY <3>2, <3>3, Zenon DEF PlayerType
      <3> QED
        BY <3>1, <3>3, <3>4
    <2>3. free' \in [Kinds -> Seq(Nat)]
      <3>1. [k \in Kinds |-> IF k \in On THEN NewBuffers(k) ELSE <<>>] \in [Kinds -> Seq(Nat)]
        BY NewBuffersListed
      <3> QED
        BY <1>4, <1>l, <3>1 DEF Resets
    <2>4. given' \in [Kinds -> Nat \cup {-1}]
      <3>1. ctl.from - 1 \in Nat \cup {-1}
        BY <1>0
      <3> QED
        BY <1>4, <3>1 DEF Resets, OfEach, PlayTypeOK
    <2> QED
      BY <1>4, <1>l, <2>1, <2>2, <2>3, <2>4 DEF Resets, Cleared, PlayTypeOK, held
  <1>5. CASE Launches
    <2>1. ctl' \in ControlType
      BY <1>c, <1>5 DEF Launches
    <2>2. player' \in PlayerType
      <3> DEFINE done == [k \in Kinds |-> k \notin On]
      <3>1. player' = [player EXCEPT !.stop = FALSE, !.failed = FALSE, !.eof = FALSE, !.done = done]
        BY <1>5 DEF Launches
      <3>2. done \in [Kinds -> BOOLEAN]
        OBVIOUS
      <3> HIDE DEF done
      <3> QED
        BY <1>0, <3>1, <3>2, Zenon DEF PlayerType
    <2>3. dec' \in [Kinds -> DecoderType]
      BY <1>5, <1>s DEF Launches
    <2>4. demux' \in DemuxType
      <3>1. OffDemux \in DemuxType
        BY DEF OffDemux, DemuxType
      <3>2. [OffDemux EXCEPT !.pc = "run", !.pos = ctl.from] \in DemuxType
        BY <1>0, <3>1, Zenon DEF DemuxType
      <3> QED
        BY <1>0, <1>5, <3>2 DEF Launches
    <2> QED
      BY <1>5, <2>1, <2>2, <2>3, <2>4 DEF Launches, PlayTypeOK, queues, held
  <1>6. CASE GivesUp
    <2>1. ctl' \in ControlType
      BY <1>c, <1>6, Zenon DEF GivesUp
    <2>2. player' \in PlayerType
      BY <1>6, <1>e, Zenon DEF GivesUp, PlayerType
    <2> QED
      BY <1>6, <1>l, <2>1, <2>2 DEF GivesUp, Cleared, PlayTypeOK, held
  <1> QED
    BY <1>1, <1>2, <1>3, <1>4, <1>5, <1>6 DEF Control

\* The guest's calls that take frames, pause and resume.
LEMMA GuestTyped ==
    ASSUME AvPlayerAssumption, PlayTypeOK,
           Video \/ Audio \/ \E pause \in BOOLEAN : PauseOrResume(pause)
    PROVE  PlayTypeOK'
  <1>0. /\ player \in PlayerType /\ dec \in [Kinds -> DecoderType]
        /\ retired \in Seq(Nat) /\ \A k \in Kinds : ready[k] \in Seq(FrameType) /\ free[k] \in Seq(Nat)
        /\ \A k \in Kinds : current[k].buf \in Nat
    BY DEF PlayTypeOK
  <1>w. \A k \in Kinds : [dec EXCEPT ![k].pc = "receive"] \in [Kinds -> DecoderType]
    <2> SUFFICES ASSUME NEW k \in Kinds PROVE [dec EXCEPT ![k].pc = "receive"] \in [Kinds -> DecoderType]
      OBVIOUS
    <2>1. [dec[k] EXCEPT !.pc = "receive"] \in DecoderType
      BY <1>0, DecoderFields DEF DecoderPcs
    <2> QED
      BY <2>1, OneDecoder
  <1>f. \A x \in FrameType : x.ts \in Nat /\ x \in [buf : Nat, ts : Nat \cup {-1}]
    BY DEF FrameType
  <1>1. CASE Video
    <2> DEFINE k == "video"
               frame == Head(ready[k])
               old == IF current[k] = NoFrame THEN retired ELSE Append(retired, current[k].buf)
               recycles == current[k] # NoFrame /\ Len(old) >= VideoBuffers - 1
    <2>k. k \in Kinds
      BY DEF Kinds
    <2>1. frame \in FrameType /\ Tail(ready[k]) \in Seq(FrameType)
      BY <1>0, <1>1, <2>k, ListFields DEF Video
    <2>2. old \in Seq(Nat)
      BY <1>0, <2>k
    <2>3. recycles => Head(old) \in Nat /\ Tail(old) \in Seq(Nat)
      <3>1. recycles => old # <<>>
        <4>1. Append(retired, current[k].buf) # <<>>
          BY <1>0
        <4> QED
          BY <4>1
      <3> QED
        BY <2>2, <3>1, ListFields
    <2>4. /\ retired' = IF recycles THEN Tail(old) ELSE old
          /\ free' = IF recycles THEN [free EXCEPT ![k] = Append(free[k], Head(old))] ELSE free
          /\ dec' = dec \/ dec' = [dec EXCEPT ![k].pc = "receive"]
          /\ current' = [current EXCEPT ![k] = frame]
          /\ given' = [given EXCEPT ![k] = frame.ts]
          /\ ready' = [ready EXCEPT ![k] = Tail(ready[k])]
          /\ player' = [player EXCEPT !.seekFrame = FALSE]
          /\ UNCHANGED <<source, ctl, demux, packets, missed>>
      BY <1>1 DEF Video
    <2>r. recycles \in BOOLEAN /\ free[k] \in Seq(Nat)
      BY <1>0, <2>k
    <2> HIDE DEF k, frame, old, recycles
    <2>5. retired' \in Seq(Nat) /\ free' \in [Kinds -> Seq(Nat)]
      <3>1. recycles => Append(free[k], Head(old)) \in Seq(Nat)
        BY <2>3, <2>r
      <3>2. free \in [Kinds -> Seq(Nat)]
        BY DEF PlayTypeOK
      <3> QED
        BY <2>2, <2>3, <2>4, <2>k, <3>1, <3>2
    <2>6. player' \in PlayerType
      BY <1>0, <2>4, Zenon DEF PlayerType
    <2>7. dec' \in [Kinds -> DecoderType]
      BY <1>0, <1>w, <2>k, <2>4
    <2> QED
      BY <1>f, <2>1, <2>4, <2>5, <2>6, <2>7, <2>k DEF PlayTypeOK
  <1>2. CASE Audio
    <2> DEFINE k == "audio"
               frame == Head(ready[k])
               recycles == current[k] # NoFrame
    <2>k. k \in Kinds
      BY DEF Kinds
    <2>1. frame \in FrameType /\ Tail(ready[k]) \in Seq(FrameType)
      BY <1>0, <1>2, <2>k, ListFields DEF Audio
    <2>4. /\ free' = IF recycles THEN [free EXCEPT ![k] = Append(free[k], current[k].buf)] ELSE free
          /\ dec' = dec \/ dec' = [dec EXCEPT ![k].pc = "receive"]
          /\ current' = [current EXCEPT ![k] = frame]
          /\ given' = [given EXCEPT ![k] = frame.ts]
          /\ ready' = [ready EXCEPT ![k] = Tail(ready[k])]
          /\ player' = [player EXCEPT !.lastAudio = frame.ts]
          /\ UNCHANGED <<source, ctl, demux, packets, retired, missed>>
      BY <1>2 DEF Audio
    <2>r. free[k] \in Seq(Nat) /\ current[k].buf \in Nat
      BY <1>0, <2>k
    <2> HIDE DEF k, frame, recycles
    <2>5. free' \in [Kinds -> Seq(Nat)]
      <3>1. Append(free[k], current[k].buf) \in Seq(Nat)
        BY <2>r
      <3>2. free \in [Kinds -> Seq(Nat)]
        BY DEF PlayTypeOK
      <3> QED
        BY <2>4, <2>k, <3>1, <3>2
    <2>6. player' \in PlayerType
      <3>1. frame.ts \in Nat
        BY <1>f, <2>1
      <3> QED
        BY <1>0, <2>4, <3>1, Zenon DEF PlayerType
    <2>7. dec' \in [Kinds -> DecoderType]
      BY <1>0, <1>w, <2>k, <2>4
    <2> QED
      BY <1>f, <2>1, <2>4, <2>5, <2>6, <2>7, <2>k DEF PlayTypeOK
  <1>3. CASE \E pause \in BOOLEAN : PauseOrResume(pause)
    <2>1. PICK pause \in BOOLEAN : PauseOrResume(pause)
      BY <1>3
    <2> DEFINE seek == player.seekFrame /\ pause
    <2>2. player' = [player EXCEPT !.paused = pause, !.seekFrame = seek] /\ seek \in BOOLEAN
      BY <2>1 DEF PauseOrResume
    <2> HIDE DEF seek
    <2>3. player' \in PlayerType
      BY <1>0, <2>2, Zenon DEF PlayerType
    <2> QED
      BY <2>1, <2>3 DEF PauseOrResume, PlayTypeOK, queues, held
  <1> QED
    BY <1>1, <1>2, <1>3
-----------------------------------------------------------------------------
(* What each step changes, field by field.                                 *)
\* A decoder that is woken, and no more.
Stirred(d, e) ==
    /\ e.codec = d.codec /\ e.drain = d.drain /\ e.next = d.next /\ e.buf = d.buf
    /\ \/ e.pc = d.pc \/ (d.pc = "popAsleep" /\ e.pc = "pop") \/ (d.pc = "bufAsleep" /\ e.pc = "receive")
\* The other stream's decoder does not move; nor does the place the demuxer reads at,
\* which is a time when the rounds are counted.
OthersStay(k) == \A j \in Kinds \ {k} : dec'[j] = dec[j]
DemuxPlace == demux'.pos = demux.pos /\ demux'.round = demux.round
UpTo == demux.pos + demux.round * Size

\* What the types say of the fields.
LEMMA Fields ==
    ASSUME PlayTypeOK
    PROVE  /\ demux.pc \in {"off", "run", "checked", "asleep"}
           /\ demux.pos \in Nat /\ demux.round \in Nat /\ demux.todo \in Seq(ReadType)
           /\ \A k \in Kinds : /\ dec[k] \in DecoderType /\ dec[k].pc \in DecoderPcs
                               /\ dec[k].codec \in Seq(Nat)
                               /\ dec[k].drain \in BOOLEAN /\ dec[k].next \in Nat \cup {-1}
                               /\ dec[k].buf \in Nat
                               /\ packets[k] \in Seq(ItemType) /\ free[k] \in Seq(Nat)
                               /\ ready[k] \in Seq(FrameType) /\ given[k] \in Nat \cup {-1}
                               /\ current[k].buf \in Nat /\ current[k].ts \in Nat \cup {-1}
                               /\ player.done[k] \in BOOLEAN
           /\ ctl.from \in Nat
           /\ player.stopped \in BOOLEAN /\ player.paused \in BOOLEAN /\ player.failed \in BOOLEAN
           /\ player.stop \in BOOLEAN /\ player.eof \in BOOLEAN
  <1>1. /\ demux \in DemuxType /\ ctl \in ControlType /\ player \in PlayerType
        /\ \A k \in Kinds : dec[k] \in DecoderType
        /\ \A k \in Kinds : packets[k] \in Seq(ItemType) /\ free[k] \in Seq(Nat)
                               /\ ready[k] \in Seq(FrameType) /\ given[k] \in Nat \cup {-1}
        /\ \A k \in Kinds : current[k] \in [buf : Nat, ts : Nat \cup {-1}]
    BY DEF PlayTypeOK
  <1>2. /\ demux.pc \in {"off", "run", "checked", "asleep"}
        /\ demux.pos \in Nat /\ demux.round \in Nat /\ demux.todo \in Seq(ReadType)
    BY <1>1 DEF DemuxType
  <1>3. \A k \in Kinds : /\ dec[k] \in DecoderType /\ dec[k].pc \in DecoderPcs /\ dec[k].codec \in Seq(Nat)
                         /\ dec[k].drain \in BOOLEAN /\ dec[k].next \in Nat \cup {-1}
                         /\ dec[k].buf \in Nat
    BY <1>1 DEF DecoderType
  <1>4. /\ ctl.from \in Nat
        /\ player.stopped \in BOOLEAN /\ player.paused \in BOOLEAN /\ player.failed \in BOOLEAN
        /\ player.stop \in BOOLEAN /\ player.eof \in BOOLEAN
        /\ \A k \in Kinds : player.done[k] \in BOOLEAN
    BY <1>1 DEF ControlType, PlayerType
  <1> QED
    BY <1>1, <1>2, <1>3, <1>4

\* What wakes decoders stirs them and leaves none of the woken asleep.
LEMMA WakesStir ==
    ASSUME NEW ds \in [Kinds -> DecoderType], NEW k \in Kinds
    PROVE  /\ Stirred(ds[k], AllAwake(ds)[k])
           /\ AllAwake(ds)[k].pc \notin {"popAsleep", "bufAsleep"}
  <1>1. ds[k] \in DecoderType
    OBVIOUS
  <1>2. AllAwake(ds)[k] = CASE ds[k].pc = "popAsleep" -> [ds[k] EXCEPT !.pc = "pop"]
                            [] ds[k].pc = "bufAsleep" -> [ds[k] EXCEPT !.pc = "receive"]
                            [] OTHER -> ds[k]
    BY DEF AllAwake
  <1> DEFINE d == ds[k]
             e == AllAwake(ds)[k]
  <1> HIDE DEF d, e
  <1>3. d \in DecoderType /\ e = CASE d.pc = "popAsleep" -> [d EXCEPT !.pc = "pop"]
                                   [] d.pc = "bufAsleep" -> [d EXCEPT !.pc = "receive"]
                                   [] OTHER -> d
    BY <1>1, <1>2 DEF d, e
  <1>4. Stirred(d, e) /\ e.pc \notin {"popAsleep", "bufAsleep"}
    <2>1. CASE d.pc = "popAsleep"
      BY <1>3, <2>1 DEF Stirred, DecoderType
    <2>2. CASE d.pc = "bufAsleep"
      BY <1>3, <2>2 DEF Stirred, DecoderType
    <2>3. CASE d.pc \notin {"popAsleep", "bufAsleep"}
      BY <1>3, <2>3 DEF Stirred
    <2> QED
      BY <2>1, <2>2, <2>3
  <1> QED
    BY <1>4 DEF d, e

LEMMA PopperStirs ==
    ASSUME PlayTypeOK, NEW k \in Kinds
    PROVE  /\ \A j \in Kinds : Stirred(dec[j], WakesPopper(k)[j])
           /\ WakesPopper(k)[k].pc # "popAsleep"
           /\ \A j \in Kinds \ {k} : WakesPopper(k)[j] = dec[j]
  <1>1. \A j \in Kinds : dec[j] \in DecoderType
    BY DEF PlayTypeOK
  <1>2. WakesPopper(k)[k] = IF dec[k].pc = "popAsleep" THEN [dec[k] EXCEPT !.pc = "pop"] ELSE dec[k]
    BY DEF WakesPopper, PlayTypeOK
  <1>3. \A j \in Kinds \ {k} : WakesPopper(k)[j] = dec[j]
    BY DEF WakesPopper, PlayTypeOK
  <1>4. Stirred(dec[k], WakesPopper(k)[k]) /\ WakesPopper(k)[k].pc # "popAsleep"
    BY <1>1, <1>2 DEF Stirred, DecoderType
  <1> QED
    BY <1>3, <1>4 DEF Stirred

\* The steps of the demuxer: it reads a packet or a loop's flush, ends, fails, pushes
\* and sleeps.
LEMMA ReadsEffect ==
    ASSUME PlayTypeOK, Reads
    PROVE  /\ demux.pc = "run" /\ demux.todo = <<>> /\ ~player.stop /\ demux.pos < Size
           /\ demux'.pc = "run" /\ demux'.pos = demux.pos + 1 /\ demux'.round = demux.round
           /\ demux'.todo = <<[kind |-> source.file[demux.pos + 1], item |-> Packet(UpTo)]>>
           /\ UNCHANGED <<source, ctl, player, dec, packets, free, ready, current, retired, given, missed>>
  BY DEF PlayTypeOK, DemuxType, Reads, queues, held, UpTo

LEMMA GoesRoundEffect ==
    ASSUME AvPlayerAssumption, PlayTypeOK, GoesRound
    PROVE  /\ demux.pc = "run" /\ demux.todo = <<>> /\ ~player.stop /\ demux.pos = Size
           /\ demux.round < source.rounds
           /\ demux'.pc = "run" /\ demux'.pos = 0 /\ demux'.round = demux.round + 1
           /\ \A i \in DOMAIN demux'.todo : demux'.todo[i].item.flush
           /\ UNCHANGED <<source, ctl, player, dec, packets, free, ready, current, retired, given, missed>>
  <1> DEFINE flush == Flush((demux.round + 1) * Size)
             Tell(k) == IF k \in On THEN <<[kind |-> k, item |-> flush]>> ELSE <<>>
             both == Tell("video") \o Tell("audio")
  <1>1. demux' = [demux EXCEPT !.pos = 0, !.round = @ + 1, !.todo = both]
    BY DEF GoesRound
  <1>2. flush.flush
    BY DEF Flush
  <1> HIDE DEF flush
  <1>4. \A i \in DOMAIN both : both[i].item.flush
    <2> DEFINE S == {[kind |-> k, item |-> flush] : k \in Kinds}
    <2>1. \A k \in Kinds : Tell(k) \in Seq(S)
      <3>1. \A k \in Kinds : [kind |-> k, item |-> flush] \in S
        OBVIOUS
      <3> HIDE DEF S
      <3> QED
        BY <3>1
    <2> HIDE DEF Tell
    <2>2. both \in Seq(S)
      BY <2>1, JoinIsList DEF Kinds
    <2> HIDE DEF both
    <2>3. \A s \in S : s.item.flush
      BY <1>2
    <2> QED
      BY <2>2, <2>3, ItemOf
  <1> HIDE DEF both
  <1> QED
    BY <1>1, <1>4 DEF PlayTypeOK, DemuxType, GoesRound, queues, held

LEMMA DemuxReturnsEffect ==
    ASSUME PlayTypeOK, DemuxReturns
    PROVE  /\ demux.pc = "run"
           /\ player.stop \/ (demux.todo = <<>> /\ demux.pos = Size /\ demux.round = source.rounds)
           /\ demux'.pc = "off" /\ demux'.todo = <<>> /\ DemuxPlace
           /\ player'.eof /\ player'.stopped = player.stopped /\ player'.failed = player.failed
           /\ player'.stop = player.stop /\ player'.done = player.done
           /\ \A k \in Kinds : Stirred(dec[k], dec'[k]) /\ dec'[k].pc # "popAsleep"
           /\ missed' = (missed \/ \E k \in Kinds : dec[k].pc = "popChecked")
           /\ UNCHANGED <<source, ctl, packets, free, ready, current, retired, given>>
  <1>1. /\ demux' = [demux EXCEPT !.pc = "off", !.todo = <<>>]
        /\ player' = [player EXCEPT !.eof = TRUE]
        /\ dec' = [k \in Kinds |-> WakesPopper(k)[k]]
    BY DEF DemuxReturns, EndOfFile, DemuxEnds
  <1>2. \A k \in Kinds : Stirred(dec[k], dec'[k]) /\ dec'[k].pc # "popAsleep"
    BY <1>1, PopperStirs
  <1>3. demux'.pc = "off" /\ demux'.todo = <<>> /\ DemuxPlace
    BY <1>1 DEF PlayTypeOK, DemuxType, DemuxPlace
  <1>4. /\ player'.eof /\ player'.stopped = player.stopped /\ player'.failed = player.failed
        /\ player'.stop = player.stop /\ player'.done = player.done
    BY <1>1 DEF PlayTypeOK, PlayerType
  <1> QED
    BY <1>2, <1>3, <1>4 DEF DemuxReturns, EndOfFile, queues, held

LEMMA ReadFailsEffect ==
    ASSUME PlayTypeOK, ReadFails
    PROVE  /\ demux.pc = "run" /\ demux.todo = <<>>
           /\ demux'.pc = "off" /\ demux'.todo = <<>> /\ DemuxPlace
           /\ player'.eof /\ player'.stopped = player.stopped /\ player'.failed
           /\ player'.stop /\ player'.done = player.done
           /\ \A k \in Kinds : Stirred(dec[k], dec'[k]) /\ dec'[k].pc \notin {"popAsleep", "bufAsleep"}
           /\ missed' = (missed \/ \E k \in Kinds : dec[k].pc \in {"popChecked", "bufChecked"})
           /\ UNCHANGED <<source, ctl, packets, free, ready, current, retired, given>>
  <1> DEFINE d == [demux EXCEPT !.pc = "off", !.todo = <<>>]
  <1>0. demux \in DemuxType /\ dec \in [Kinds -> DecoderType] /\ player \in PlayerType
    BY DEF PlayTypeOK
  <1>1. /\ demux' = Woken(d) /\ dec' = AllAwake(dec) /\ missed' = (missed \/ Checked(d, dec))
        /\ player' = [player EXCEPT !.failed = TRUE, !.stop = TRUE, !.eof = TRUE]
    BY DEF ReadFails, NotifyWorkers, DemuxEnds
  <1>2. d.pc = "off" /\ d.todo = <<>> /\ d.pos = demux.pos /\ d.round = demux.round
    BY <1>0 DEF DemuxType
  <1> HIDE DEF d
  <1>3. demux' = d
    BY <1>1, <1>2 DEF Woken
  <1>4. \A k \in Kinds : Stirred(dec[k], dec'[k]) /\ dec'[k].pc \notin {"popAsleep", "bufAsleep"}
    BY <1>0, <1>1, WakesStir
  <1>5. /\ player'.eof /\ player'.stopped = player.stopped /\ player'.failed
        /\ player'.stop /\ player'.done = player.done
    BY <1>0, <1>1 DEF PlayerType
  <1>6. missed' = (missed \/ \E k \in Kinds : dec[k].pc \in {"popChecked", "bufChecked"})
    BY <1>1, <1>2 DEF Checked
  <1> QED
    BY <1>2, <1>3, <1>4, <1>5, <1>6 DEF ReadFails, DemuxPlace, queues, held

LEMMA PushEffect ==
    ASSUME PlayTypeOK, Push
    PROVE  LET k == Head(demux.todo).kind
               item == Head(demux.todo).item
           IN  /\ demux.pc = "run" /\ demux.todo # <<>> /\ ~player.stop /\ DemuxPlace
               /\ k \in Kinds /\ dec[k].pc # "popChecked"
               /\ \/ /\ Room(k, item)
                     /\ packets' = [packets EXCEPT ![k] = Append(packets[k], item)]
                     /\ demux'.pc = "run" /\ demux'.todo = Tail(demux.todo)
                     /\ \A j \in Kinds : Stirred(dec[j], dec'[j])
                     /\ dec'[k].pc # "popAsleep" /\ OthersStay(k)
                  \/ /\ ~Room(k, item) /\ packets' = packets /\ dec' = dec
                     /\ demux'.pc = "checked" /\ demux'.todo = demux.todo
               /\ UNCHANGED <<source, ctl, player, free, ready, current, retired, given, missed>>
  <1> DEFINE k == Head(demux.todo).kind
             item == Head(demux.todo).item
  <1>1. k \in Kinds
    <2>1. demux.todo # <<>> /\ demux.todo \in Seq(ReadType)
      BY Fields DEF Push
    <2>2. Head(demux.todo) \in ReadType
      BY <2>1, ListFields
    <2> QED
      BY <2>2 DEF ReadType
  <1>2. \/ /\ Room(k, item)
           /\ packets' = [packets EXCEPT ![k] = Append(packets[k], item)]
           /\ demux' = [demux EXCEPT !.todo = Tail(demux.todo)]
           /\ dec' = WakesPopper(k)
        \/ /\ ~Room(k, item) /\ packets' = packets /\ dec' = dec
           /\ demux' = [demux EXCEPT !.pc = "checked"]
    BY DEF Push
  <1>3. demux.pc = "run" /\ demux.todo # <<>> /\ ~player.stop /\ dec[k].pc # "popChecked"
    BY DEF Push
  <1>4. UNCHANGED <<source, ctl, player, free, ready, current, retired, given, missed>>
    BY DEF Push, held
  <1> HIDE DEF k, item
  <1>5. \/ /\ Room(k, item)
           /\ packets' = [packets EXCEPT ![k] = Append(packets[k], item)]
           /\ demux'.pc = "run" /\ demux'.todo = Tail(demux.todo)
           /\ \A j \in Kinds : Stirred(dec[j], dec'[j])
           /\ dec'[k].pc # "popAsleep" /\ OthersStay(k)
        \/ /\ ~Room(k, item) /\ packets' = packets /\ dec' = dec
           /\ demux'.pc = "checked" /\ demux'.todo = demux.todo
    <2>1. demux \in DemuxType
      BY DEF PlayTypeOK
    <2> QED
      BY <1>1, <1>2, <1>3, <2>1, PopperStirs DEF DemuxType, OthersStay
  <1>6. DemuxPlace
    BY <1>2 DEF PlayTypeOK, DemuxType, DemuxPlace
  <1> QED
    BY <1>1, <1>3, <1>4, <1>5, <1>6 DEF k, item

LEMMA DemuxSleepsEffect ==
    ASSUME PlayTypeOK, DemuxSleeps
    PROVE  /\ demux.pc = "checked" /\ demux'.pc = "asleep" /\ demux'.todo = demux.todo /\ DemuxPlace
           /\ UNCHANGED <<source, ctl, player, dec, packets, free, ready, current, retired, given, missed>>
  BY DEF PlayTypeOK, DemuxType, DemuxSleeps, DemuxPlace, queues, held

\* A step of one decoder leaves the other.
LEMMA OneDecoderChanges ==
    ASSUME PlayTypeOK, NEW k \in Kinds, NEW d, dec' = [dec EXCEPT ![k] = d]
    PROVE  dec'[k] = d /\ OthersStay(k)
  BY DEF PlayTypeOK, OthersStay

IsOff(d) == d.pc = "off" /\ d.codec = <<>> /\ ~d.drain /\ d.next = -1 /\ d.buf = 0
LEMMA OffIsOff == IsOff(OffDecoder)
  BY DEF IsOff, OffDecoder

\* The steps of a decoder: it pops, takes a buffer for a frame, stops, sleeps and
\* writes, or fails to.
LEMMA PopEffect ==
    ASSUME PlayTypeOK, NEW k \in Kinds, Pop(k)
    PROVE  /\ dec[k].pc = "pop" /\ ~player.stop /\ ~DemuxChecks(k) /\ dec'[k].buf = dec[k].buf
           /\ OthersStay(k) /\ DemuxPlace /\ demux'.todo = demux.todo
           /\ \/ /\ packets[k] # <<>> /\ packets' = [packets EXCEPT ![k] = Tail(packets[k])]
                 /\ dec'[k].pc = "receive"
                 /\ \/ /\ Head(packets[k]).flush /\ dec'[k].codec = dec[k].codec
                       /\ dec'[k].drain /\ dec'[k].next = Head(packets[k]).ts
                    \/ /\ ~Head(packets[k]).flush
                       /\ dec'[k].codec = Append(dec[k].codec, Head(packets[k]).ts)
                       /\ dec'[k].drain = dec[k].drain /\ dec'[k].next = dec[k].next
                 /\ IF demux.pc = "asleep" /\ Head(demux.todo).kind = k
                    THEN demux'.pc = "run" ELSE demux'.pc = demux.pc
              \/ /\ packets[k] = <<>> /\ player.eof /\ packets' = packets /\ demux' = demux
                 /\ dec'[k].pc = "receive" /\ dec'[k].drain /\ dec'[k].next = -1
                 /\ dec'[k].codec = dec[k].codec
              \/ /\ packets[k] = <<>> /\ ~player.eof /\ packets' = packets /\ demux' = demux
                 /\ dec'[k].pc = "popChecked" /\ dec'[k].drain = dec[k].drain
                 /\ dec'[k].next = dec[k].next /\ dec'[k].codec = dec[k].codec
           /\ UNCHANGED <<source, ctl, player, free, ready, current, retired, given, missed>>
  <1>0. dec[k] \in DecoderType /\ demux \in DemuxType
    BY DEF PlayTypeOK
  <1> DEFINE c == dec[k]
             e == dec'[k]
  <1>1. CASE packets[k] # <<>>
    <2> DEFINE item == Head(packets[k])
               d == IF item.flush
                    THEN [c EXCEPT !.pc = "receive", !.drain = TRUE, !.next = item.ts]
                    ELSE [c EXCEPT !.pc = "receive", !.codec = Append(c.codec, item.ts)]
    <2>1. /\ packets' = [packets EXCEPT ![k] = Tail(packets[k])]
          /\ dec' = [dec EXCEPT ![k] = d]
          /\ demux' = WakesDemux(k)
      BY <1>1 DEF Pop
    <2>2. e = d /\ OthersStay(k)
      BY <2>1, OneDecoderChanges
    <2> HIDE DEF item, c, e
    <2>3. /\ e.pc = "receive" /\ e.buf = c.buf
          /\ \/ /\ item.flush /\ e.codec = c.codec /\ e.drain /\ e.next = item.ts
             \/ /\ ~item.flush /\ e.codec = Append(c.codec, item.ts)
                /\ e.drain = c.drain /\ e.next = c.next
      <3>1. c \in DecoderType
        BY <1>0 DEF c
      <3> QED
        BY <2>2, <3>1 DEF DecoderType
    <2>4. /\ DemuxPlace /\ demux'.todo = demux.todo
          /\ IF demux.pc = "asleep" /\ Head(demux.todo).kind = k
             THEN demux'.pc = "run" ELSE demux'.pc = demux.pc
      BY <1>0, <2>1 DEF WakesDemux, Woken, DemuxPlace, DemuxType
    <2> QED
      BY <1>1, <2>1, <2>2, <2>3, <2>4 DEF Pop, c, e, item, held
  <1>2. CASE packets[k] = <<>>
    <2> DEFINE d == IF player.eof THEN [c EXCEPT !.pc = "receive", !.drain = TRUE, !.next = -1]
                    ELSE [c EXCEPT !.pc = "popChecked"]
    <2>1. dec' = [dec EXCEPT ![k] = d] /\ packets' = packets /\ demux' = demux
      BY <1>2 DEF Pop
    <2>2. e = d /\ OthersStay(k)
      BY <2>1, OneDecoderChanges
    <2> HIDE DEF c, e
    <2>3. /\ e.codec = c.codec /\ e.buf = c.buf
          /\ \/ player.eof /\ e.pc = "receive" /\ e.drain /\ e.next = -1
             \/ ~player.eof /\ e.pc = "popChecked" /\ e.drain = c.drain /\ e.next = c.next
      <3>1. c \in DecoderType
        BY <1>0 DEF c
      <3> QED
        BY <2>2, <3>1 DEF DecoderType
    <2> QED
      BY <1>2, <2>1, <2>2, <2>3 DEF Pop, c, e, held, DemuxPlace
  <1> QED
    BY <1>1, <1>2

LEMMA ReceiveEffect ==
    ASSUME AvPlayerAssumption, PlayTypeOK, NEW k \in Kinds, Receive(k)
    PROVE  /\ dec[k].pc = "receive" /\ ~player.stop /\ OthersStay(k)
           /\ dec'[k].codec = dec[k].codec
           /\ \/ /\ dec[k].codec # <<>> /\ free[k] # <<>> /\ dec'[k].pc = "write"
                 /\ dec'[k].buf = Head(free[k]) /\ free' = [free EXCEPT ![k] = Tail(free[k])]
                 /\ dec'[k].drain = dec[k].drain /\ dec'[k].next = dec[k].next /\ player' = player
              \/ /\ free[k] = <<>> /\ dec'[k].pc = "bufChecked" /\ dec'[k].buf = dec[k].buf
                 /\ free' = free /\ player' = player
                 /\ dec'[k].drain = dec[k].drain /\ dec'[k].next = dec[k].next
              \/ /\ dec'[k].pc = "pop" /\ ~dec'[k].drain /\ dec'[k].next = -1
                 /\ dec'[k].buf = dec[k].buf /\ free' = free /\ player' = player
              \/ /\ dec[k].drain /\ dec[k].next = -1 /\ IsOff(dec'[k]) /\ free' = free
                 /\ player' = [player EXCEPT !.done[k] = TRUE]
           /\ UNCHANGED <<source, ctl, demux, packets, ready, current, retired, given, missed>>
  <1>0. dec[k] \in DecoderType /\ dec \in [Kinds -> DecoderType]
    BY DEF PlayTypeOK
  <1> DEFINE c == dec[k]
             e == dec'[k]
  <1>c. c.codec \in Seq(Nat)
    BY <1>0 DEF DecoderType
  <1>d. Delay[k] \in Nat
    BY DEF AvPlayerAssumption
  <1>e. /\ Receivable(k) => c.codec # <<>>
        /\ ~Receivable(k) /\ c.drain => c.codec = <<>>
    <2>1. Len(c.codec) \in Nat /\ (Len(c.codec) = 0 <=> c.codec = <<>>)
      BY <1>c, EmptySeq
    <2> QED
      BY <1>d, <2>1 DEF Receivable
  <1>u. UNCHANGED <<source, ctl, demux, packets, ready, current, retired, given, missed>>
    BY DEF Receive, held
  <1>1. CASE Receivable(k) /\ free[k] # <<>>
    <2>1. /\ dec' = [dec EXCEPT ![k] = [c EXCEPT !.pc = "write", !.buf = Head(free[k])]]
          /\ free' = [free EXCEPT ![k] = Tail(free[k])] /\ player' = player
      <3>1. /\ dec' = [dec EXCEPT ![k].pc = "write", ![k].buf = Head(free[k])]
            /\ free' = [free EXCEPT ![k] = Tail(free[k])] /\ player' = player
        BY <1>1 DEF Receive
      <3>2. dec' = [[dec EXCEPT ![k] = [c EXCEPT !.pc = "write"]] EXCEPT
                       ![k] = [[c EXCEPT !.pc = "write"] EXCEPT !.buf = Head(free[k])]]
        BY <1>0, <3>1
      <3> QED
        BY <1>0, <3>1, <3>2
    <2>2. e = [c EXCEPT !.pc = "write", !.buf = Head(free[k])] /\ OthersStay(k)
      BY <2>1, OneDecoderChanges
    <2> HIDE DEF c, e
    <2>3. /\ e.codec = c.codec /\ e.pc = "write" /\ e.buf = Head(free[k])
          /\ e.drain = c.drain /\ e.next = c.next
      <3>1. c \in DecoderType
        BY <1>0 DEF c
      <3> QED
        BY <2>2, <3>1 DEF DecoderType
    <2> QED
      BY <1>1, <1>e, <1>u, <2>1, <2>2, <2>3 DEF Receive, c, e
  <1>2. CASE Receivable(k) /\ free[k] = <<>>
    <2>1. dec' = [dec EXCEPT ![k] = [c EXCEPT !.pc = "bufChecked"]] /\ free' = free /\ player' = player
      BY <1>2, <1>0 DEF Receive
    <2>2. e = [c EXCEPT !.pc = "bufChecked"] /\ OthersStay(k)
      BY <2>1, OneDecoderChanges
    <2> HIDE DEF c, e
    <2>3. /\ e.codec = c.codec /\ e.pc = "bufChecked" /\ e.buf = c.buf
          /\ e.drain = c.drain /\ e.next = c.next
      <3>1. c \in DecoderType
        BY <1>0 DEF c
      <3> QED
        BY <2>2, <3>1 DEF DecoderType
    <2> QED
      BY <1>2, <1>u, <2>1, <2>2, <2>3 DEF Receive, c, e
  <1>3. CASE ~Receivable(k) /\ ~(c.drain /\ c.next = -1)
    <2>1. /\ dec' = [dec EXCEPT ![k] = [c EXCEPT !.pc = "pop", !.drain = FALSE, !.next = -1]]
          /\ free' = free /\ player' = player
      BY <1>3 DEF Receive
    <2>2. e = [c EXCEPT !.pc = "pop", !.drain = FALSE, !.next = -1] /\ OthersStay(k)
      BY <2>1, OneDecoderChanges
    <2> HIDE DEF c, e
    <2>3. e.codec = c.codec /\ e.pc = "pop" /\ e.buf = c.buf /\ ~e.drain /\ e.next = -1
      <3>1. c \in DecoderType
        BY <1>0 DEF c
      <3> QED
        BY <2>2, <3>1 DEF DecoderType
    <2> QED
      BY <1>3, <1>u, <2>1, <2>2, <2>3 DEF Receive, c, e
  <1>4. CASE ~Receivable(k) /\ c.drain /\ c.next = -1
    <2>1. /\ dec' = [dec EXCEPT ![k] = OffDecoder] /\ free' = free
          /\ player' = [player EXCEPT !.done[k] = TRUE]
      BY <1>4 DEF Receive, Exit
    <2>2. e = OffDecoder /\ OthersStay(k)
      BY <2>1, OneDecoderChanges
    <2>3. IsOff(e) /\ e.codec = c.codec
      BY <1>4, <1>e, <2>2, OffIsOff DEF IsOff
    <2> QED
      BY <1>4, <1>u, <2>1, <2>2, <2>3 DEF Receive
  <1> QED
    BY <1>1, <1>2, <1>3, <1>4

LEMMA DecoderStopsEffect ==
    ASSUME PlayTypeOK, NEW k \in Kinds, DecoderStops(k)
    PROVE  /\ dec[k].pc \in {"pop", "receive"} /\ player.stop /\ OthersStay(k) /\ IsOff(dec'[k])
           /\ player' = [player EXCEPT !.done[k] = TRUE]
           /\ UNCHANGED <<source, ctl, demux, packets, free, ready, current, retired, given, missed>>
  <1>1. dec' = [dec EXCEPT ![k] = OffDecoder]
    BY DEF DecoderStops, Exit
  <1> QED
    BY <1>1, OneDecoderChanges, OffIsOff DEF DecoderStops, queues, held

LEMMA DecoderSleepsEffect ==
    ASSUME PlayTypeOK, NEW k \in Kinds, DecoderSleeps(k)
    PROVE  /\ OthersStay(k)
           /\ \/ dec[k].pc = "popChecked" /\ dec'[k].pc = "popAsleep"
              \/ dec[k].pc = "bufChecked" /\ dec'[k].pc = "bufAsleep"
           /\ dec'[k].codec = dec[k].codec /\ dec'[k].drain = dec[k].drain
           /\ dec'[k].next = dec[k].next /\ dec'[k].buf = dec[k].buf
           /\ UNCHANGED <<source, ctl, player, demux, packets, free, ready, current, retired, given, missed>>
  <1>0. dec[k] \in DecoderType /\ dec \in [Kinds -> DecoderType]
    BY DEF PlayTypeOK
  <1> DEFINE c == dec[k]
             e == dec'[k]
             pc == IF c.pc = "popChecked" THEN "popAsleep" ELSE "bufAsleep"
  <1>1. dec' = [dec EXCEPT ![k] = [c EXCEPT !.pc = pc]]
    BY <1>0 DEF DecoderSleeps
  <1>2. e = [c EXCEPT !.pc = pc] /\ OthersStay(k)
    BY <1>1, OneDecoderChanges
  <1> HIDE DEF c, e, pc
  <1>3. e.pc = pc /\ e.codec = c.codec /\ e.drain = c.drain /\ e.next = c.next /\ e.buf = c.buf
    <2>1. c \in DecoderType
      BY <1>0 DEF c
    <2> QED
      BY <1>2, <2>1 DEF DecoderType
  <1> QED
    BY <1>2, <1>3 DEF DecoderSleeps, c, e, pc, queues, held

LEMMA WriteEffect ==
    ASSUME PlayTypeOK, NEW k \in Kinds, Write(k)
    PROVE  /\ dec[k].pc = "write" /\ OthersStay(k)
           /\ ready' = [ready EXCEPT ![k] = Append(ready[k], [buf |-> dec[k].buf, ts |-> Head(dec[k].codec)])]
           /\ dec'[k].pc = "receive" /\ dec'[k].buf = 0 /\ dec'[k].codec = Tail(dec[k].codec)
           /\ dec'[k].drain = dec[k].drain /\ dec'[k].next = dec[k].next
           /\ UNCHANGED <<source, ctl, player, demux, packets, free, current, retired, given, missed>>
  <1>0. dec[k] \in DecoderType /\ dec \in [Kinds -> DecoderType]
    BY DEF PlayTypeOK
  <1> DEFINE c == dec[k]
             e == dec'[k]
             codec == Tail(c.codec)
  <1>1. dec' = [dec EXCEPT ![k] = [c EXCEPT !.pc = "receive", !.buf = 0, !.codec = codec]]
    BY DEF Write
  <1>2. e = [c EXCEPT !.pc = "receive", !.buf = 0, !.codec = codec] /\ OthersStay(k)
    BY <1>1, OneDecoderChanges
  <1>u. /\ ready' = [ready EXCEPT ![k] = Append(ready[k], [buf |-> c.buf, ts |-> Head(c.codec)])]
        /\ c.pc = "write"
        /\ UNCHANGED <<source, ctl, player, demux, packets, free, current, retired, given, missed>>
    BY DEF Write, held
  <1> HIDE DEF c, e, codec
  <1>3. e.pc = "receive" /\ e.codec = codec /\ e.drain = c.drain /\ e.next = c.next /\ e.buf = 0
    <2>1. c \in DecoderType
      BY <1>0 DEF c
    <2> QED
      BY <1>2, <2>1 DEF DecoderType
  <1> QED
    BY <1>2, <1>3, <1>u DEF c, e, codec

LEMMA WriteFailsEffect ==
    ASSUME PlayTypeOK, NEW k \in Kinds, WriteFails(k)
    PROVE  /\ dec[k].pc = "write" /\ free' = [free EXCEPT ![k] = Append(free[k], dec[k].buf)]
           /\ player' = [player EXCEPT !.done[k] = TRUE, !.failed = player.failed \/ ~player.stop,
                                       !.stop = TRUE]
           /\ IsOff(dec'[k]) /\ \A j \in Kinds \ {k} : Stirred(dec[j], dec'[j])
           /\ DemuxPlace /\ demux'.todo = demux.todo
           /\ \/ player.stop /\ dec'[k] = OffDecoder /\ OthersStay(k) /\ demux' = demux /\ missed' = missed
              \/ /\ ~player.stop
                 /\ \A j \in Kinds : dec'[j].pc \notin {"popAsleep", "bufAsleep"}
                 /\ IF demux.pc = "asleep" THEN demux'.pc = "run" ELSE demux'.pc = demux.pc
                 /\ missed' = (missed \/ demux.pc = "checked"
                                 \/ \E j \in Kinds \ {k} : dec[j].pc \in {"popChecked", "bufChecked"})
           /\ UNCHANGED <<source, ctl, packets, ready, current, retired, given>>
  <1>0. dec[k] \in DecoderType /\ dec \in [Kinds -> DecoderType] /\ demux \in DemuxType
    BY DEF PlayTypeOK
  <1> DEFINE ds == [dec EXCEPT ![k] = OffDecoder]
  <1>1. ds \in [Kinds -> DecoderType] /\ ds[k] = OffDecoder /\ \A j \in Kinds \ {k} : ds[j] = dec[j]
    <2>1. OffDecoder \in DecoderType
      BY <1>0, WakesTyped
    <2> QED
      BY <1>0, <2>1
  <1>u. /\ dec[k].pc = "write" /\ free' = [free EXCEPT ![k] = Append(free[k], dec[k].buf)]
        /\ player' = [player EXCEPT !.done[k] = TRUE, !.failed = player.failed \/ ~player.stop,
                                    !.stop = TRUE]
        /\ UNCHANGED <<source, ctl, packets, ready, current, retired, given>>
        /\ \/ player.stop /\ dec' = ds /\ demux' = demux /\ missed' = missed
           \/ /\ ~player.stop
              /\ demux' = Woken(demux) /\ dec' = AllAwake(ds)
              /\ missed' = (missed \/ Checked(demux, ds))
    BY DEF WriteFails, Exit, NotifyWorkers, held
  <1> HIDE DEF ds
  <1>2. CASE player.stop
    BY <1>1, <1>2, <1>u, OffIsOff DEF OthersStay, DemuxPlace, Stirred
  <1>3. CASE ~player.stop
    <2>1. \A j \in Kinds : /\ Stirred(ds[j], dec'[j]) /\ dec'[j].pc \notin {"popAsleep", "bufAsleep"}
      BY <1>1, <1>3, <1>u, WakesStir
    <2>2. IsOff(dec'[k])
      <3>1. IsOff(ds[k]) /\ Stirred(ds[k], dec'[k])
        BY <1>1, <2>1, OffIsOff
      <3> QED
        BY <3>1 DEF IsOff, Stirred
    <2>3. /\ DemuxPlace /\ demux'.todo = demux.todo
          /\ IF demux.pc = "asleep" THEN demux'.pc = "run" ELSE demux'.pc = demux.pc
      BY <1>0, <1>3, <1>u DEF Woken, DemuxPlace, DemuxType
    <2>4. Checked(demux, ds) <=> \/ demux.pc = "checked"
                                 \/ \E j \in Kinds \ {k} : dec[j].pc \in {"popChecked", "bufChecked"}
      <3>1. ds[k].pc = "off"
        BY <1>1 DEF OffDecoder
      <3> QED
        BY <1>1, <3>1 DEF Checked
    <2>5. missed' = (missed \/ demux.pc = "checked"
                       \/ \E j \in Kinds \ {k} : dec[j].pc \in {"popChecked", "bufChecked"})
      BY <1>3, <1>u, <2>4
    <2> QED
      BY <1>1, <1>3, <1>u, <2>1, <2>2, <2>3, <2>5
  <1> QED
    BY <1>2, <1>3

\* What the flags of Source are after a decoder's return, and after a failure.
LEMMA DoneFields ==
    ASSUME PlayTypeOK, NEW k \in Kinds, player' = [player EXCEPT !.done[k] = TRUE]
    PROVE  /\ player'.stopped = player.stopped /\ player'.failed = player.failed
           /\ player'.stop = player.stop /\ player'.eof = player.eof
           /\ player'.done[k] /\ \A j \in Kinds \ {k} : player'.done[j] = player.done[j]
  <1>1. player \in PlayerType
    BY DEF PlayTypeOK
  <1>2. player.done \in [Kinds -> BOOLEAN]
    BY <1>1 DEF PlayerType
  <1>3. player'.done = [player.done EXCEPT ![k] = TRUE]
    BY <1>1 DEF PlayerType
  <1> QED
    BY <1>1, <1>2, <1>3 DEF PlayerType

LEMMA FailedFields ==
    ASSUME PlayTypeOK, NEW k \in Kinds,
           player' = [player EXCEPT !.done[k] = TRUE, !.failed = player.failed \/ ~player.stop, !.stop = TRUE]
    PROVE  /\ player'.stopped = player.stopped /\ player'.failed = (player.failed \/ ~player.stop)
           /\ player'.stop /\ player'.eof = player.eof
           /\ player'.done[k] /\ \A j \in Kinds \ {k} : player'.done[j] = player.done[j]
  <1>1. player \in PlayerType
    BY DEF PlayTypeOK
  <1>2. player.done \in [Kinds -> BOOLEAN]
    BY <1>1 DEF PlayerType
  <1>3. player'.done = [player.done EXCEPT ![k] = TRUE]
    BY <1>1 DEF PlayerType
  <1>4. /\ player'.stopped = player.stopped /\ player'.failed = (player.failed \/ ~player.stop)
        /\ player'.stop /\ player'.eof = player.eof
    BY <1>1 DEF PlayerType
  <1> QED
    BY <1>2, <1>3, <1>4

LEMMA EndedFields ==
    ASSUME PlayTypeOK
    PROVE  /\ Ended(player).stopped = player.stopped /\ Ended(player).failed = player.failed
           /\ Ended(player).stop = player.stop /\ Ended(player).eof
           /\ Ended(player).paused = player.paused
           /\ \A k \in Kinds : Ended(player).done[k]
  <1>1. player \in PlayerType
    BY DEF PlayTypeOK
  <1> DEFINE done == OfEach(TRUE)
  <1>2. \A k \in Kinds : done[k]
    BY DEF OfEach
  <1> HIDE DEF done
  <1>3. /\ Ended(player).stopped = player.stopped /\ Ended(player).failed = player.failed
        /\ Ended(player).stop = player.stop /\ Ended(player).eof
        /\ Ended(player).paused = player.paused
        /\ Ended(player).done = done
    BY <1>1 DEF PlayerType, Ended, done
  <1> QED
    BY <1>2, <1>3

\* The steps of the calls under lifecycle_mutex.
LEMMA BeginsEffect ==
    ASSUME PlayTypeOK, NEW call, NEW from, Begins(call, from)
    PROVE  /\ ctl.pc = "idle" /\ ctl'.pc = "stopping"
           /\ player'.stopped /\ player'.failed = player.failed
           /\ player'.stop = player.stop /\ player'.eof = player.eof /\ player'.done = player.done
           /\ UNCHANGED <<source, demux, dec, packets, free, ready, current, retired, given, missed>>
  BY DEF Begins, PlayTypeOK, PlayerType, queues, held

LEMMA StopsEffect ==
    ASSUME PlayTypeOK, Stops
    PROVE  /\ \/ ctl.pc = "stopping" /\ ctl'.pc = "joining"
              \/ ctl.pc = "unlaunching" /\ ctl'.pc = "unjoining"
           /\ ctl'.from = ctl.from
           /\ player'.stopped = player.stopped /\ player'.failed = player.failed
           /\ player'.stop /\ player'.eof = player.eof /\ player'.done = player.done
           /\ \A k \in Kinds : Stirred(dec[k], dec'[k]) /\ dec'[k].pc \notin {"popAsleep", "bufAsleep"}
           /\ DemuxPlace /\ demux'.todo = demux.todo
           /\ IF demux.pc = "asleep" THEN demux'.pc = "run" ELSE demux'.pc = demux.pc
           /\ missed' = (missed \/ demux.pc = "checked"
                            \/ \E k \in Kinds : dec[k].pc \in {"popChecked", "bufChecked"})
           /\ UNCHANGED <<source, packets, free, ready, current, retired, given>>
  <1>0. dec \in [Kinds -> DecoderType] /\ demux \in DemuxType /\ ctl \in ControlType /\ player \in PlayerType
    BY DEF PlayTypeOK
  <1>u. /\ ctl.pc \in {"stopping", "unlaunching"}
        /\ ctl' = [ctl EXCEPT !.pc = IF ctl.pc = "stopping" THEN "joining" ELSE "unjoining"]
        /\ player' = [player EXCEPT !.stop = TRUE]
        /\ demux' = Woken(demux) /\ dec' = AllAwake(dec) /\ missed' = (missed \/ Checked(demux, dec))
        /\ UNCHANGED <<source, packets, free, ready, current, retired, given>>
    BY DEF Stops, NotifyWorkers, queues, held
  <1>1. /\ \/ ctl.pc = "stopping" /\ ctl'.pc = "joining"
           \/ ctl.pc = "unlaunching" /\ ctl'.pc = "unjoining"
        /\ ctl'.from = ctl.from
    BY <1>0, <1>u DEF ControlType
  <1>2. /\ player'.stopped = player.stopped /\ player'.failed = player.failed
        /\ player'.stop /\ player'.eof = player.eof /\ player'.done = player.done
    BY <1>0, <1>u DEF PlayerType
  <1>3. \A k \in Kinds : Stirred(dec[k], dec'[k]) /\ dec'[k].pc \notin {"popAsleep", "bufAsleep"}
    BY <1>0, <1>u, WakesStir
  <1>4. /\ DemuxPlace /\ demux'.todo = demux.todo
        /\ IF demux.pc = "asleep" THEN demux'.pc = "run" ELSE demux'.pc = demux.pc
    BY <1>0, <1>u DEF Woken, DemuxPlace, DemuxType
  <1>5. missed' = (missed \/ demux.pc = "checked"
                      \/ \E k \in Kinds : dec[k].pc \in {"popChecked", "bufChecked"})
    BY <1>u DEF Checked
  <1> QED
    BY <1>u, <1>1, <1>2, <1>3, <1>4, <1>5

Emptied(f) == \A k \in Kinds : f[k] = <<>>
LEMMA StopEndsEffect ==
    ASSUME PlayTypeOK, StopEnds
    PROVE  /\ ctl.pc = "joining" /\ Joined /\ ctl'.pc = "idle"
           /\ player'.stopped = player.stopped /\ player'.failed = player.failed
           /\ player'.stop = player.stop /\ player'.eof
           /\ Emptied(packets') /\ Emptied(ready') /\ Emptied(free')
           /\ (\A k \in Kinds : current'[k] = NoFrame) /\ retired' = <<>>
           /\ UNCHANGED <<source, demux, dec, given, missed>>
  BY EndedFields DEF StopEnds, Cleared, OfEach, Emptied, PlayTypeOK, ControlType

LEMMA ResetsEffect ==
    ASSUME AvPlayerAssumption, PlayTypeOK, Resets
    PROVE  /\ ctl.pc = "joining" /\ Joined
           /\ player'.eof /\ player'.stop = player.stop /\ player'.failed = player.failed
           /\ Emptied(packets') /\ Emptied(ready')
           /\ \/ /\ ctl'.pc = "launching" /\ ctl'.from = ctl.from
                 /\ \A k \in Kinds : k \in On => free'[k] = NewBuffers(k)
                 /\ \A k \in Kinds : k \notin On => free'[k] = <<>>
                 /\ \A k \in Kinds : given'[k] = ctl.from - 1
              \/ /\ ctl'.pc = "idle" /\ player'.stopped = player.stopped
                 /\ Emptied(free') /\ given' = given
           /\ UNCHANGED <<source, demux, dec, current, retired, missed>>
  <1>0. ctl \in ControlType /\ Ended(player) \in PlayerType
    <2>1. OfEach(TRUE) \in [Kinds -> BOOLEAN] /\ 0 \in Nat /\ player \in PlayerType
      BY DEF OfEach, PlayTypeOK
    <2>2. Ended(player) \in PlayerType
      BY <2>1, Zenon DEF Ended, PlayerType
    <2> QED
      BY <2>2 DEF PlayTypeOK
  <1>1. CASE ctl' = [ctl EXCEPT !.pc = "launching"]
    <2> DEFINE p == Ended(player)
               pause == p.paused /\ ctl.call # "start"
               seek == player.paused /\ ctl.call = "jump" /\ "video" \in On
    <2>1. ctl'.pc = "launching" /\ ctl'.from = ctl.from
      BY <1>0, <1>1 DEF ControlType
    <2>2. player' = [p EXCEPT !.stopped = FALSE, !.paused = pause, !.seekFrame = seek]
      <3>1. ctl' # [ctl EXCEPT !.pc = "idle"]
        BY <1>0, <1>1, <2>1 DEF ControlType
      <3> QED
        BY <3>1 DEF Resets
    <2> HIDE DEF p, pause, seek
    <2>3. player'.eof = p.eof /\ player'.stop = p.stop /\ player'.failed = p.failed
      BY <1>0, <2>2 DEF PlayerType, p
    <2>4. player'.eof /\ player'.stop = player.stop /\ player'.failed = player.failed
      BY <2>3, EndedFields DEF p
    <2>5. /\ free' = [k \in Kinds |-> IF k \in On THEN NewBuffers(k) ELSE <<>>]
          /\ given' = OfEach(ctl.from - 1)
      <3>1. ctl' # [ctl EXCEPT !.pc = "idle"]
        BY <1>0, <1>1, <2>1 DEF ControlType
      <3> QED
        BY <3>1 DEF Resets
    <2> QED
      BY <2>1, <2>4, <2>5 DEF Resets, Cleared, OfEach, Emptied, held
  <1>2. CASE ctl' # [ctl EXCEPT !.pc = "launching"]
    <2>1. ctl' = [ctl EXCEPT !.pc = "idle"] /\ free' = OfEach(<<>>) /\ player' = Ended(player) /\ given' = given
      BY <1>2 DEF Resets
    <2>2. ctl'.pc = "idle"
      BY <1>0, <2>1 DEF ControlType
    <2> QED
      BY <2>1, <2>2, EndedFields DEF Resets, Cleared, OfEach, Emptied, held
  <1> QED
    BY <1>1, <1>2

LEMMA LaunchesEffect ==
    ASSUME PlayTypeOK, Launches
    PROVE  /\ ctl.pc = "launching"
           /\ player'.stopped = player.stopped /\ ~player'.failed /\ ~player'.stop /\ ~player'.eof
           /\ \A k \in Kinds : player'.done[k] = (k \notin On)
           /\ \A k \in Kinds : \/ IsOff(dec'[k])
                               \/ /\ k \in On /\ dec'[k].pc = "pop" /\ dec'[k].codec = <<>> /\ dec'[k].buf = 0
                                  /\ ~dec'[k].drain /\ dec'[k].next = -1
           /\ \/ /\ ctl'.pc = "idle" /\ demux'.pc = "run" /\ demux'.todo = <<>>
                 /\ demux'.pos = ctl.from /\ demux'.round = 0
              \/ ctl'.pc = "unlaunching" /\ demux' = demux
           /\ UNCHANGED <<source, packets, free, ready, current, retired, given, missed>>
  <1>0. ctl \in ControlType /\ player \in PlayerType
    BY DEF PlayTypeOK
  <1>1. /\ player'.stopped = player.stopped /\ ~player'.failed /\ ~player'.stop /\ ~player'.eof
        /\ \A k \in Kinds : player'.done[k] = (k \notin On)
    <2> DEFINE done == [k \in Kinds |-> k \notin On]
    <2>1. player' = [player EXCEPT !.stop = FALSE, !.failed = FALSE, !.eof = FALSE, !.done = done]
      BY DEF Launches
    <2>2. \A k \in Kinds : done[k] = (k \notin On)
      OBVIOUS
    <2> HIDE DEF done
    <2>3. /\ player'.stopped = player.stopped /\ ~player'.failed /\ ~player'.stop /\ ~player'.eof
          /\ player'.done = done
      BY <1>0, <2>1 DEF PlayerType
    <2> QED
      BY <2>2, <2>3
  <1>2. \A k \in Kinds : \/ IsOff(dec'[k])
                         \/ /\ k \in On /\ dec'[k].pc = "pop" /\ dec'[k].codec = <<>> /\ dec'[k].buf = 0
                            /\ ~dec'[k].drain /\ dec'[k].next = -1
    <2> DEFINE d == [OffDecoder EXCEPT !.pc = "pop"]
    <2>1. d.pc = "pop" /\ d.codec = <<>> /\ d.buf = 0 /\ ~d.drain /\ d.next = -1
      BY DEF OffDecoder
    <2>2. PICK ks \in SUBSET On : dec' = Started(ks)
      BY DEF Launches
    <2>3. \A k \in Kinds : dec'[k] = IF k \in ks THEN d ELSE OffDecoder
      BY <2>2 DEF Started
    <2> HIDE DEF d
    <2> QED
      BY <2>1, <2>3, OffIsOff
  <1>3. \/ /\ ctl'.pc = "idle" /\ demux'.pc = "run" /\ demux'.todo = <<>>
           /\ demux'.pos = ctl.from /\ demux'.round = 0
        \/ ctl'.pc = "unlaunching" /\ demux' = demux
    <2>1. \/ /\ ctl' = [ctl EXCEPT !.pc = "idle"]
             /\ demux' = [OffDemux EXCEPT !.pc = "run", !.pos = ctl.from]
          \/ ctl' = [ctl EXCEPT !.pc = "unlaunching"] /\ demux' = demux
      BY DEF Launches
    <2> QED
      BY <1>0, <2>1 DEF ControlType, OffDemux
  <1> QED
    BY <1>1, <1>2, <1>3 DEF Launches, queues, held

LEMMA GivesUpEffect ==
    ASSUME PlayTypeOK, GivesUp
    PROVE  /\ ctl.pc = "unjoining" /\ Joined /\ ctl'.pc = "idle"
           /\ player'.stopped /\ player'.failed = player.failed /\ player'.stop = player.stop /\ player'.eof
           /\ Emptied(packets') /\ Emptied(ready') /\ Emptied(free')
           /\ UNCHANGED <<source, demux, dec, current, retired, given, missed>>
  <1> DEFINE p == Ended(player)
  <1>0. ctl \in ControlType /\ p \in PlayerType
    <2>1. OfEach(TRUE) \in [Kinds -> BOOLEAN] /\ 0 \in Nat /\ player \in PlayerType
      BY DEF OfEach, PlayTypeOK
    <2>2. Ended(player) \in PlayerType
      BY <2>1, Zenon DEF Ended, PlayerType
    <2> QED
      BY <2>2 DEF PlayTypeOK
  <1>1. player' = [p EXCEPT !.stopped = TRUE] /\ ctl' = [ctl EXCEPT !.pc = "idle"]
    BY DEF GivesUp
  <1>2. p.stop = player.stop /\ p.failed = player.failed /\ p.eof
    BY EndedFields
  <1> HIDE DEF p
  <1>3. player'.stopped /\ player'.failed = p.failed /\ player'.stop = p.stop /\ player'.eof = p.eof
    BY <1>0, <1>1 DEF PlayerType
  <1>4. ctl'.pc = "idle"
    BY <1>0, <1>1 DEF ControlType
  <1> QED
    BY <1>2, <1>3, <1>4 DEF GivesUp, Cleared, OfEach, Emptied, held

LEMMA PauseEffect ==
    ASSUME PlayTypeOK, NEW pause, PauseOrResume(pause)
    PROVE  /\ ctl.pc = "idle"
           /\ player'.stopped = player.stopped /\ player'.failed = player.failed
           /\ player'.stop = player.stop /\ player'.eof = player.eof /\ player'.done = player.done
           /\ UNCHANGED <<source, ctl, demux, dec, packets, free, ready, current, retired, given, missed>>
  <1> DEFINE seek == player.seekFrame /\ pause
  <1>1. player' = [player EXCEPT !.paused = pause, !.seekFrame = seek] /\ player \in PlayerType
    BY DEF PauseOrResume, PlayTypeOK
  <1> HIDE DEF seek
  <1>2. /\ player'.stopped = player.stopped /\ player'.failed = player.failed
        /\ player'.stop = player.stop /\ player'.eof = player.eof /\ player'.done = player.done
    BY <1>1 DEF PlayerType
  <1> QED
    BY <1>2 DEF PauseOrResume, queues, held

\* The guest takes a frame: the one that it had goes, or an older one, to the decoder.
Awoken(k, recycles) ==
    IF recycles /\ dec[k].pc = "bufAsleep" THEN [dec EXCEPT ![k].pc = "receive"] ELSE dec
LEMMA AwokenStirs ==
    ASSUME PlayTypeOK, NEW k \in Kinds, NEW recycles, dec' = Awoken(k, recycles)
    PROVE  /\ \A j \in Kinds : Stirred(dec[j], dec'[j])
           /\ recycles => dec'[k].pc # "bufAsleep"
           /\ OthersStay(k)
  <1>1. dec[k] \in DecoderType /\ dec \in [Kinds -> DecoderType]
    BY DEF PlayTypeOK
  <1>2. CASE recycles /\ dec[k].pc = "bufAsleep"
    <2> DEFINE d == [dec[k] EXCEPT !.pc = "receive"]
    <2>1. dec' = [dec EXCEPT ![k] = d]
      BY <1>1, <1>2 DEF Awoken
    <2>2. dec'[k] = d /\ OthersStay(k)
      BY <2>1, OneDecoderChanges
    <2>3. Stirred(dec[k], d) /\ d.pc = "receive"
      BY <1>1, <1>2 DEF Stirred, DecoderType
    <2> HIDE DEF d
    <2> QED
      BY <2>2, <2>3 DEF OthersStay, Stirred
  <1>3. CASE ~(recycles /\ dec[k].pc = "bufAsleep")
    <2>1. dec' = dec
      BY <1>3 DEF Awoken
    <2> QED
      BY <1>3, <2>1 DEF OthersStay, Stirred
  <1> QED
    BY <1>2, <1>3

\* GetVideoData and GetAudioData.
LEMMA VideoEffect ==
    ASSUME PlayTypeOK, Video
    PROVE  LET k == "video"
               frame == Head(ready[k])
               old == IF current[k] = NoFrame THEN retired ELSE Append(retired, current[k].buf)
               recycles == current[k] # NoFrame /\ Len(old) >= VideoBuffers - 1
           IN  /\ ~player.stopped /\ ready[k] # <<>>
               /\ (recycles => dec[k].pc # "bufChecked")
               /\ retired' = IF recycles THEN Tail(old) ELSE old
               /\ free' = IF recycles THEN [free EXCEPT ![k] = Append(free[k], Head(old))] ELSE free
               /\ dec' = Awoken(k, recycles)
               /\ current' = [current EXCEPT ![k] = frame]
               /\ given' = [given EXCEPT ![k] = frame.ts]
               /\ ready' = [ready EXCEPT ![k] = Tail(ready[k])]
               /\ player'.stopped = player.stopped /\ player'.failed = player.failed
               /\ player'.stop = player.stop /\ player'.eof = player.eof /\ player'.done = player.done
               /\ UNCHANGED <<source, ctl, demux, packets, missed>>
  <1>1. /\ player'.stopped = player.stopped /\ player'.failed = player.failed
        /\ player'.stop = player.stop /\ player'.eof = player.eof /\ player'.done = player.done
    BY DEF Video, PlayTypeOK, PlayerType
  <1> QED
    BY <1>1 DEF Video, Awoken

LEMMA AudioEffect ==
    ASSUME PlayTypeOK, Audio
    PROVE  LET k == "audio"
               frame == Head(ready[k])
               recycles == current[k] # NoFrame
           IN  /\ ~player.stopped /\ ready[k] # <<>>
               /\ (recycles => dec[k].pc # "bufChecked")
               /\ free' = IF recycles THEN [free EXCEPT ![k] = Append(free[k], current[k].buf)] ELSE free
               /\ dec' = Awoken(k, recycles)
               /\ current' = [current EXCEPT ![k] = frame]
               /\ given' = [given EXCEPT ![k] = frame.ts]
               /\ ready' = [ready EXCEPT ![k] = Tail(ready[k])]
               /\ player'.stopped = player.stopped /\ player'.failed = player.failed
               /\ player'.stop = player.stop /\ player'.eof = player.eof /\ player'.done = player.done
               /\ UNCHANGED <<source, ctl, demux, packets, retired, missed>>
  <1>1. /\ player'.stopped = player.stopped /\ player'.failed = player.failed
        /\ player'.stop = player.stop /\ player'.eof = player.eof /\ player'.done = player.done
    BY DEF Audio, PlayTypeOK, PlayerType
  <1> QED
    BY <1>1 DEF Audio, Awoken
-----------------------------------------------------------------------------
(* What the places of the threads say of what they hold.                   *)
\* The demuxer waits with something to push, and ends with nothing; two items are
\* flushes, of a loop.
DemuxShape ==
    /\ demux.pc \in {"checked", "asleep"} => demux.todo # <<>>
    /\ demux.pc = "off" => demux.todo = <<>>
    /\ demux.round <= source.rounds
    /\ player.eof => demux.pc = "off"
    /\ \A i \in DOMAIN demux.todo : ~demux.todo[i].item.flush => Len(demux.todo) = 1
\* A decoder that is off has nothing, one that pops does not drain, one that drains to
\* its end has seen the end of the file, and one that writes has a frame.
DecoderShape(k) ==
    /\ dec[k].pc = "off" => IsOff(dec[k])
    /\ player.done[k] => dec[k].pc = "off"
    /\ dec[k].pc \in {"pop", "popChecked", "popAsleep"} => ~dec[k].drain
    /\ dec[k].drain /\ dec[k].next = -1 => player.eof /\ packets[k] = <<>>
    /\ dec[k].pc = "write" => dec[k].codec # <<>>
\* A call that stops the player has said so, one that launches it has emptied it.
ControlShape ==
    /\ ctl.pc \in {"stopping", "joining"} => player.stopped
    /\ ctl.pc = "launching" =>
          /\ Joined /\ Emptied(packets) /\ Emptied(ready)
          /\ \A k \in Kinds : given[k] = ctl.from - 1
Shape == DemuxShape /\ (\A k \in Kinds : DecoderShape(k)) /\ ControlShape

LEMMA ShapeWrites == Shape => Writing
  BY DEF Shape, DecoderShape, Writing

\* The shape is kept by every step.
LEMMA ShapeStarts ==
    ASSUME AvPlayerAssumption, Init
    PROVE  Shape
  <1>1. DemuxShape
    <2>1. source.rounds \in Nat
      BY SourceFacts, PlayTypeStarts
    <2> QED
      BY <2>1 DEF Init, DemuxShape, OffDemux
  <1>2. \A k \in Kinds : DecoderShape(k)
    <2>1. \A k \in Kinds : dec[k] = OffDecoder /\ IsOff(dec[k])
      BY OffIsOff DEF Init, OfEach
    <2> QED
      BY <2>1 DEF DecoderShape, IsOff
  <1> QED
    BY <1>1, <1>2 DEF Shape, ControlShape, Init

\* A decoder that is stirred keeps its shape.
LEMMA StirredShape ==
    ASSUME NEW k \in Kinds, DecoderShape(k), Stirred(dec[k], dec'[k]),
           player'.done[k] = player.done[k], packets'[k] = packets[k], player.eof => player'.eof
    PROVE  DecoderShape(k)'
  BY DEF DecoderShape, Stirred, IsOff
LEMMA SameShape ==
    ASSUME NEW k \in Kinds, DecoderShape(k), dec'[k] = dec[k],
           player'.done[k] = player.done[k], packets'[k] = packets[k], player.eof => player'.eof
    PROVE  DecoderShape(k)'
  BY DEF DecoderShape

\* While the workers run nothing of a call that is under way changes.
LEMMA ControlStays ==
    ASSUME ControlShape, ctl' = ctl, player'.stopped = player.stopped, ~(ctl.pc = "launching")
    PROVE  ControlShape'
  BY DEF ControlShape
LEMMA WorkersRun ==
    ASSUME Shape, demux.pc # "off" \/ \E k \in Kinds : dec[k].pc # "off"
    PROVE  ctl.pc # "launching"
  BY DEF Shape, ControlShape, Joined

LEMMA DemuxShaped ==
    ASSUME AvPlayerAssumption, PlayTypeOK, Shape, Demux \/ ReadFails
    PROVE  Shape'
  <1>s. DemuxShape /\ (\A k \in Kinds : DecoderShape(k)) /\ ControlShape
    BY DEF Shape
  <1>f. demux.round \in Nat /\ demux.todo \in Seq(ReadType) /\ source.rounds \in Nat
    BY Fields, SourceFacts
  <1>1. CASE Reads
    <2>1. DemuxShape'
      BY <1>s, <1>1, ReadsEffect DEF DemuxShape
    <2>2. \A k \in Kinds : DecoderShape(k)'
      BY <1>s, <1>1, ReadsEffect, SameShape
    <2>3. ControlShape'
      BY <1>s, <1>1, ReadsEffect, WorkersRun, ControlStays
    <2> QED
      BY <2>1, <2>2, <2>3 DEF Shape
  <1>2. CASE GoesRound
    <2>1. DemuxShape'
      BY <1>f, <1>s, <1>2, GoesRoundEffect DEF DemuxShape
    <2>2. \A k \in Kinds : DecoderShape(k)'
      BY <1>s, <1>2, GoesRoundEffect, SameShape
    <2>3. ControlShape'
      BY <1>s, <1>2, GoesRoundEffect, WorkersRun, ControlStays
    <2> QED
      BY <2>1, <2>2, <2>3 DEF Shape
  <1>3. CASE DemuxReturns
    <2>1. DemuxShape'
      BY <1>s, <1>3, DemuxReturnsEffect DEF DemuxShape, DemuxPlace
    <2>2. \A k \in Kinds : DecoderShape(k)'
      BY <1>s, <1>3, DemuxReturnsEffect, StirredShape
    <2>3. ControlShape'
      BY <1>s, <1>3, DemuxReturnsEffect, WorkersRun, ControlStays
    <2> QED
      BY <2>1, <2>2, <2>3 DEF Shape
  <1>4. CASE ReadFails
    <2>1. DemuxShape'
      BY <1>s, <1>4, ReadFailsEffect DEF DemuxShape, DemuxPlace
    <2>2. \A k \in Kinds : DecoderShape(k)'
      BY <1>s, <1>4, ReadFailsEffect, StirredShape
    <2>3. ControlShape'
      BY <1>s, <1>4, ReadFailsEffect, WorkersRun, ControlStays
    <2> QED
      BY <2>1, <2>2, <2>3 DEF Shape
  <1>5. CASE Push
    <2> DEFINE k == Head(demux.todo).kind
               item == Head(demux.todo).item
    <2>p. /\ demux.pc = "run" /\ demux.todo # <<>> /\ ~player.stop /\ DemuxPlace
          /\ k \in Kinds /\ dec[k].pc # "popChecked"
          /\ \/ /\ Room(k, item)
                /\ packets' = [packets EXCEPT ![k] = Append(packets[k], item)]
                /\ demux'.pc = "run" /\ demux'.todo = Tail(demux.todo)
                /\ \A j \in Kinds : Stirred(dec[j], dec'[j])
                /\ dec'[k].pc # "popAsleep" /\ OthersStay(k)
             \/ /\ ~Room(k, item) /\ packets' = packets /\ dec' = dec
                /\ demux'.pc = "checked" /\ demux'.todo = demux.todo
          /\ UNCHANGED <<source, ctl, player, free, ready, current, retired, given, missed>>
      BY <1>5, PushEffect
    <2> HIDE DEF k, item
    <2>1. DemuxShape'
      <3>1. CASE demux'.todo = demux.todo
        BY <1>s, <2>p, <3>1 DEF DemuxShape, DemuxPlace
      <3>2. CASE demux'.todo = Tail(demux.todo)
        <4>1. /\ Tail(demux.todo) \in Seq(ReadType) /\ Len(Tail(demux.todo)) = Len(demux.todo) - 1
              /\ \A i \in 1 .. Len(demux.todo) - 1 : Tail(demux.todo)[i] = demux.todo[i + 1]
          BY <1>f, <2>p, HeadTailProperties
        <4>2. DOMAIN demux.todo = 1 .. Len(demux.todo) /\ Len(demux.todo) \in Nat
              /\ DOMAIN Tail(demux.todo) = 1 .. Len(demux.todo) - 1
          BY <1>f, <4>1, LenProperties
        <4>3. ASSUME NEW i \in 1 .. Len(demux.todo) - 1, ~Tail(demux.todo)[i].item.flush PROVE FALSE
          <5>1. i + 1 \in 1 .. Len(demux.todo) /\ ~demux.todo[i + 1].item.flush
            BY <4>1, <4>2, <4>3
          <5>2. Len(demux.todo) = 1
            BY <1>s, <4>2, <5>1 DEF DemuxShape
          <5> QED
            BY <4>3, <5>2
        <4> QED
          BY <1>s, <2>p, <3>2, <4>2, <4>3 DEF DemuxShape, DemuxPlace
      <3> QED
        BY <2>p, <3>1, <3>2
    <2>2. ASSUME NEW j \in Kinds PROVE DecoderShape(j)'
      <3>1. ~player.eof /\ packets \in [Kinds -> Seq(ItemType)]
        BY <1>s, <2>p DEF DemuxShape, PlayTypeOK
      <3>2. CASE dec' = dec /\ packets' = packets
        BY <1>s, <2>p, <3>2, SameShape
      <3>3. CASE j # k /\ OthersStay(k) /\ packets' = [packets EXCEPT ![k] = Append(packets[k], item)]
        <4>1. dec'[j] = dec[j] /\ packets'[j] = packets[j]
          BY <3>1, <3>3 DEF OthersStay
        <4> QED
          BY <1>s, <2>p, <4>1, SameShape
      <3>4. CASE j = k /\ Stirred(dec[k], dec'[k])
        BY <1>s, <2>p, <3>1, <3>4 DEF DecoderShape, Stirred, IsOff
      <3> QED
        BY <2>p, <3>2, <3>3, <3>4
    <2>3. ControlShape'
      BY <1>s, <2>p, WorkersRun, ControlStays
    <2> QED
      BY <2>1, <2>2, <2>3 DEF Shape
  <1>6. CASE DemuxSleeps
    <2>1. DemuxShape'
      BY <1>s, <1>6, DemuxSleepsEffect DEF DemuxShape, DemuxPlace
    <2>2. \A k \in Kinds : DecoderShape(k)'
      BY <1>s, <1>6, DemuxSleepsEffect, SameShape
    <2>3. ControlShape'
      BY <1>s, <1>6, DemuxSleepsEffect, WorkersRun, ControlStays
    <2> QED
      BY <2>1, <2>2, <2>3 DEF Shape
  <1> QED
    BY <1>1, <1>2, <1>3, <1>4, <1>5, <1>6 DEF Demux

LEMMA DecodersShaped ==
    ASSUME AvPlayerAssumption, PlayTypeOK, Shape, NEW k \in Kinds, Decoder(k) \/ WriteFails(k)
    PROVE  Shape'
  <1>s. DemuxShape /\ (\A j \in Kinds : DecoderShape(j)) /\ ControlShape
    BY DEF Shape
  <1>f. /\ packets \in [Kinds -> Seq(ItemType)] /\ \A j \in Kinds : player.done[j] \in BOOLEAN
        /\ packets[k] \in Seq(ItemType) /\ dec[k].codec \in Seq(Nat)
    BY Fields DEF PlayTypeOK
  <1>1. CASE Pop(k)
    <2>1. DemuxShape'
      BY <1>s, <1>1, PopEffect DEF DemuxShape, DemuxPlace
    <2>2. \A j \in Kinds \ {k} : DecoderShape(j)'
      <3>1. \A j \in Kinds \ {k} : dec'[j] = dec[j] /\ packets'[j] = packets[j]
        BY <1>f, <1>1, PopEffect DEF OthersStay
      <3> QED
        BY <1>s, <1>1, <3>1, PopEffect, SameShape
    <2>3. DecoderShape(k)'
      <3>1. ~dec[k].drain /\ ~player.done[k]
        BY <1>s, <1>1, PopEffect DEF DecoderShape
      <3>2. packets[k] # <<>> => Head(packets[k]).ts # -1
        <4>1. packets[k] # <<>> => Head(packets[k]) \in ItemType
          BY <1>f, ListFields
        <4> QED
          BY <4>1 DEF ItemType
      <3> QED
        BY <1>1, <3>1, <3>2, PopEffect DEF DecoderShape
    <2>4. ControlShape'
      BY <1>s, <1>1, PopEffect, WorkersRun, ControlStays
    <2> QED
      BY <2>1, <2>2, <2>3, <2>4 DEF Shape
  <1>2. CASE Receive(k)
    <2>p. \/ player' = player \/ (IsOff(dec'[k]) /\ player' = [player EXCEPT !.done[k] = TRUE])
      BY <1>2, ReceiveEffect
    <2>f. /\ player'.stopped = player.stopped /\ player'.eof = player.eof
          /\ \A j \in Kinds \ {k} : player'.done[j] = player.done[j]
          /\ player'.done[k] => IsOff(dec'[k]) \/ player.done[k]
      BY <2>p, DoneFields
    <2>1. DemuxShape'
      BY <1>s, <1>2, <2>f, ReceiveEffect DEF DemuxShape
    <2>2. \A j \in Kinds \ {k} : DecoderShape(j)'
      <3>1. \A j \in Kinds \ {k} : dec'[j] = dec[j] /\ packets'[j] = packets[j]
        BY <1>2, ReceiveEffect DEF OthersStay
      <3> QED
        BY <1>s, <2>f, <3>1, SameShape
    <2>3. DecoderShape(k)'
      <3>1. ~player.done[k]
        BY <1>s, <1>2, ReceiveEffect DEF DecoderShape
      <3> QED
        BY <1>s, <1>2, <2>f, <3>1, ReceiveEffect DEF DecoderShape, IsOff
    <2>4. ControlShape'
      BY <1>s, <1>2, <2>f, ReceiveEffect, WorkersRun, ControlStays
    <2> QED
      BY <2>1, <2>2, <2>3, <2>4 DEF Shape
  <1>3. CASE DecoderStops(k)
    <2>f. /\ player'.stopped = player.stopped /\ player'.eof = player.eof
          /\ \A j \in Kinds \ {k} : player'.done[j] = player.done[j]
      BY <1>3, DecoderStopsEffect, DoneFields
    <2>1. DemuxShape'
      BY <1>s, <1>3, <2>f, DecoderStopsEffect DEF DemuxShape
    <2>2. \A j \in Kinds \ {k} : DecoderShape(j)'
      <3>1. \A j \in Kinds \ {k} : dec'[j] = dec[j] /\ packets'[j] = packets[j]
        BY <1>3, DecoderStopsEffect DEF OthersStay
      <3> QED
        BY <1>s, <2>f, <3>1, SameShape
    <2>3. DecoderShape(k)'
      BY <1>3, DecoderStopsEffect DEF DecoderShape, IsOff
    <2>4. ControlShape'
      BY <1>s, <1>3, <2>f, DecoderStopsEffect, WorkersRun, ControlStays
    <2> QED
      BY <2>1, <2>2, <2>3, <2>4 DEF Shape
  <1>4. CASE DecoderSleeps(k)
    <2>1. DemuxShape'
      BY <1>s, <1>4, DecoderSleepsEffect DEF DemuxShape
    <2>2. \A j \in Kinds \ {k} : DecoderShape(j)'
      <3>1. \A j \in Kinds \ {k} : dec'[j] = dec[j] /\ packets'[j] = packets[j]
        BY <1>4, DecoderSleepsEffect DEF OthersStay
      <3> QED
        BY <1>s, <1>4, <3>1, DecoderSleepsEffect, SameShape
    <2>3. DecoderShape(k)'
      BY <1>s, <1>4, DecoderSleepsEffect DEF DecoderShape
    <2>4. ControlShape'
      BY <1>s, <1>4, DecoderSleepsEffect, WorkersRun, ControlStays
    <2> QED
      BY <2>1, <2>2, <2>3, <2>4 DEF Shape
  <1>5. CASE Write(k)
    <2>1. DemuxShape'
      BY <1>s, <1>5, WriteEffect DEF DemuxShape
    <2>2. \A j \in Kinds \ {k} : DecoderShape(j)'
      <3>1. \A j \in Kinds \ {k} : dec'[j] = dec[j] /\ packets'[j] = packets[j]
        BY <1>5, WriteEffect DEF OthersStay
      <3> QED
        BY <1>s, <1>5, <3>1, WriteEffect, SameShape
    <2>3. DecoderShape(k)'
      BY <1>s, <1>5, WriteEffect DEF DecoderShape
    <2>4. ControlShape'
      BY <1>s, <1>5, WriteEffect, WorkersRun, ControlStays
    <2> QED
      BY <2>1, <2>2, <2>3, <2>4 DEF Shape
  <1>6. CASE WriteFails(k)
    <2>f. /\ player'.stopped = player.stopped /\ player'.eof = player.eof
          /\ \A j \in Kinds \ {k} : player'.done[j] = player.done[j]
      BY <1>6, WriteFailsEffect, FailedFields
    <2>1. DemuxShape'
      BY <1>s, <1>6, <2>f, WriteFailsEffect DEF DemuxShape, DemuxPlace
    <2>2. \A j \in Kinds \ {k} : DecoderShape(j)'
      <3>1. \A j \in Kinds \ {k} : Stirred(dec[j], dec'[j]) /\ packets'[j] = packets[j]
        BY <1>6, WriteFailsEffect
      <3> QED
        BY <1>s, <2>f, <3>1, StirredShape
    <2>3. DecoderShape(k)'
      BY <1>6, WriteFailsEffect DEF DecoderShape, IsOff
    <2>4. ControlShape'
      BY <1>s, <1>6, <2>f, WriteFailsEffect, WorkersRun, ControlStays
    <2> QED
      BY <2>1, <2>2, <2>3, <2>4 DEF Shape
  <1> QED
    BY <1>1, <1>2, <1>3, <1>4, <1>5, <1>6 DEF Decoder

\* When all threads are joined and the queues are emptied.
LEMMA JoinedShape ==
    ASSUME Shape, Joined, demux' = demux, dec' = dec, source' = source
    PROVE  DemuxShape' /\ \A k \in Kinds : DecoderShape(k)'
  BY DEF Shape, DemuxShape, DecoderShape, Joined, IsOff

LEMMA ControlShaped ==
    ASSUME AvPlayerAssumption, PlayTypeOK, Shape,
           Control \/ (\E call \in {"start", "stop", "jump", "change"}, from \in Starts : Begins(call, from))
    PROVE  Shape'
  <1>s. DemuxShape /\ (\A k \in Kinds : DecoderShape(k)) /\ ControlShape
    BY DEF Shape
  <1>1. CASE \E call \in {"start", "stop", "jump", "change"}, from \in Starts : Begins(call, from)
    <2>1. PICK call \in {"start", "stop", "jump", "change"}, from \in Starts : Begins(call, from)
      BY <1>1
    <2>2. DemuxShape'
      BY <1>s, <2>1, BeginsEffect DEF DemuxShape
    <2>3. \A k \in Kinds : DecoderShape(k)'
      BY <1>s, <2>1, BeginsEffect, SameShape
    <2>4. ControlShape'
      BY <2>1, BeginsEffect DEF ControlShape
    <2> QED
      BY <2>2, <2>3, <2>4 DEF Shape
  <1>2. CASE Stops
    <2>1. DemuxShape'
      BY <1>s, <1>2, StopsEffect DEF DemuxShape, DemuxPlace
    <2>2. \A k \in Kinds : DecoderShape(k)'
      BY <1>s, <1>2, StopsEffect, StirredShape
    <2>3. ControlShape'
      BY <1>s, <1>2, StopsEffect DEF ControlShape
    <2> QED
      BY <2>1, <2>2, <2>3 DEF Shape
  <1>3. CASE StopEnds
    BY <1>3, StopEndsEffect, JoinedShape DEF Shape, ControlShape
  <1>4. CASE Resets
    <2>1. DemuxShape' /\ \A k \in Kinds : DecoderShape(k)'
      BY <1>4, ResetsEffect, JoinedShape
    <2>2. Joined'
      BY <1>4, ResetsEffect DEF Joined
    <2>3. ControlShape'
      BY <1>4, <2>2, ResetsEffect DEF ControlShape, Emptied
    <2> QED
      BY <2>1, <2>3 DEF Shape
  <1>5. CASE Launches
    <2>1. Joined
      BY <1>s, <1>5, LaunchesEffect DEF ControlShape
    <2>2. DemuxShape'
      <3>1. source.rounds \in Nat
        BY SourceFacts
      <3> QED
        BY <1>s, <1>5, <2>1, <3>1, LaunchesEffect DEF DemuxShape
    <2>3. \A k \in Kinds : DecoderShape(k)'
      <3> SUFFICES ASSUME NEW k \in Kinds PROVE DecoderShape(k)'
        OBVIOUS
      <3>1. player'.done[k] = (k \notin On)
        BY <1>5, LaunchesEffect
      <3>2. \/ IsOff(dec'[k])
            \/ /\ k \in On /\ dec'[k].pc = "pop" /\ dec'[k].codec = <<>> /\ dec'[k].buf = 0
               /\ ~dec'[k].drain /\ dec'[k].next = -1
        BY <1>5, LaunchesEffect
      <3> QED
        BY <3>1, <3>2 DEF DecoderShape, IsOff
    <2>4. ControlShape'
      BY <1>5, LaunchesEffect DEF ControlShape
    <2> QED
      BY <2>2, <2>3, <2>4 DEF Shape
  <1>6. CASE GivesUp
    BY <1>6, GivesUpEffect, JoinedShape DEF Shape, ControlShape
  <1> QED
    BY <1>1, <1>2, <1>3, <1>4, <1>5, <1>6 DEF Control

LEMMA GuestShaped ==
    ASSUME AvPlayerAssumption, PlayTypeOK, Shape,
           Video \/ Audio \/ \E pause \in BOOLEAN : PauseOrResume(pause)
    PROVE  Shape'
  <1>s. DemuxShape /\ (\A k \in Kinds : DecoderShape(k)) /\ ControlShape
    BY DEF Shape
  <1>1. CASE Video
    <2> DEFINE k == "video"
               old == IF current[k] = NoFrame THEN retired ELSE Append(retired, current[k].buf)
               recycles == current[k] # NoFrame /\ Len(old) >= VideoBuffers - 1
    <2>k. k \in Kinds /\ ready["video"] # <<>>
      BY <1>1, VideoEffect DEF Kinds
    <2>1. dec' = Awoken(k, recycles)
      BY <1>1, VideoEffect
    <2>2. /\ player'.stopped = player.stopped /\ player'.eof = player.eof /\ player'.done = player.done
          /\ UNCHANGED <<source, ctl, demux, packets>>
      BY <1>1, VideoEffect
    <2> HIDE DEF recycles
    <2>3. \A j \in Kinds : Stirred(dec[j], dec'[j])
      BY <2>1, <2>k, AwokenStirs
    <2>4. DemuxShape'
      BY <1>s, <2>2 DEF DemuxShape
    <2>5. \A j \in Kinds : DecoderShape(j)'
      BY <1>s, <2>2, <2>3, StirredShape
    <2>6. ctl.pc # "launching"
      BY <1>s, <2>k DEF ControlShape, Emptied
    <2> QED
      BY <1>s, <2>2, <2>4, <2>5, <2>6, ControlStays DEF Shape
  <1>2. CASE Audio
    <2> DEFINE k == "audio"
               recycles == current[k] # NoFrame
    <2>k. k \in Kinds /\ ready["audio"] # <<>>
      BY <1>2, AudioEffect DEF Kinds
    <2>1. dec' = Awoken(k, recycles)
      BY <1>2, AudioEffect
    <2>2. /\ player'.stopped = player.stopped /\ player'.eof = player.eof /\ player'.done = player.done
          /\ UNCHANGED <<source, ctl, demux, packets>>
      BY <1>2, AudioEffect
    <2> HIDE DEF recycles
    <2>3. \A j \in Kinds : Stirred(dec[j], dec'[j])
      BY <2>1, <2>k, AwokenStirs
    <2>4. DemuxShape'
      BY <1>s, <2>2 DEF DemuxShape
    <2>5. \A j \in Kinds : DecoderShape(j)'
      BY <1>s, <2>2, <2>3, StirredShape
    <2>6. ctl.pc # "launching"
      BY <1>s, <2>k DEF ControlShape, Emptied
    <2> QED
      BY <1>s, <2>2, <2>4, <2>5, <2>6, ControlStays DEF Shape
  <1>3. CASE \E pause \in BOOLEAN : PauseOrResume(pause)
    <2>1. PICK pause \in BOOLEAN : PauseOrResume(pause)
      BY <1>3
    <2>2. DemuxShape'
      BY <1>s, <2>1, PauseEffect DEF DemuxShape
    <2>3. \A k \in Kinds : DecoderShape(k)'
      BY <1>s, <2>1, PauseEffect, SameShape
    <2>4. ControlShape'
      BY <2>1, PauseEffect DEF ControlShape
    <2> QED
      BY <2>2, <2>3, <2>4 DEF Shape
  <1> QED
    BY <1>1, <1>2, <1>3
-----------------------------------------------------------------------------
(* A buffer is in one place.                                               *)

\* f, r and t list the buffers that are free, ready and retired, w is written and
\* c is shown (0 is none), N are all of them.
Bufs(q) == [i \in DOMAIN q |-> q[i].buf]
Retired(k) == IF k = "video" THEN retired ELSE <<>>
Disjoint(A, B) == A \cap B = {}
OncePlaced(f, r, t, w, c, N) ==
    /\ f \in Seq(Nat) /\ r \in Seq(Nat) /\ t \in Seq(Nat)
    /\ IsInjective(f) /\ IsInjective(r) /\ IsInjective(t)
    /\ ToSet(f) \subseteq N /\ ToSet(r) \subseteq N /\ ToSet(t) \subseteq N
    /\ w \in N \cup {0} /\ c \in N \cup {0}
    /\ Disjoint(ToSet(f), ToSet(r)) /\ Disjoint(ToSet(f), ToSet(t)) /\ Disjoint(ToSet(r), ToSet(t))
    /\ w \notin ToSet(f) \cup ToSet(r) \cup ToSet(t)
    /\ c \notin ToSet(f) \cup ToSet(r) \cup ToSet(t)
    /\ w = c => w = 0
AllPlaced(f, r, t, w, c, N) == N \subseteq ToSet(f) \cup ToSet(r) \cup ToSet(t) \cup {w, c}

\* The moves: ReceiveFrames takes a free buffer, Write makes it ready, its failure
\* frees it; what the guest has is retired or freed, what is retired is freed, and
\* the guest takes what is ready.
LEMMA TakesFree ==
    ASSUME NEW N \in SUBSET (Nat \ {0}), NEW f, NEW r, NEW t, NEW c, OncePlaced(f, r, t, 0, c, N), f # <<>>
    PROVE  /\ OncePlaced(Tail(f), r, t, Head(f), c, N) /\ Head(f) # 0
           /\ AllPlaced(f, r, t, 0, c, N) => AllPlaced(Tail(f), r, t, Head(f), c, N)
  <1>1. f \in Seq(Nat) /\ IsInjective(f) /\ 0 \notin N
    BY DEF OncePlaced
  <1>2. /\ Head(f) \in ToSet(f) /\ Tail(f) \in Seq(Nat) /\ IsInjective(Tail(f))
        /\ ToSet(Tail(f)) = ToSet(f) \ {Head(f)}
    BY <1>1, Popped
  <1> QED
    BY <1>1, <1>2 DEF OncePlaced, AllPlaced, Disjoint

LEMMA MakesReady ==
    ASSUME NEW N \in SUBSET (Nat \ {0}), NEW f, NEW r, NEW t, NEW w, NEW c,
           OncePlaced(f, r, t, w, c, N), w # 0
    PROVE  /\ OncePlaced(f, Append(r, w), t, 0, c, N)
           /\ AllPlaced(f, r, t, w, c, N) => AllPlaced(f, Append(r, w), t, 0, c, N)
  <1>1. r \in Seq(Nat) /\ IsInjective(r) /\ 0 \notin N /\ w \in Nat \ ToSet(r)
    BY DEF OncePlaced
  <1>2. Append(r, w) \in Seq(Nat) /\ IsInjective(Append(r, w)) /\ ToSet(Append(r, w)) = ToSet(r) \cup {w}
    BY <1>1, Appended
  <1> QED
    BY <1>1, <1>2 DEF OncePlaced, AllPlaced, Disjoint

LEMMA FreesWritten ==
    ASSUME NEW N \in SUBSET (Nat \ {0}), NEW f, NEW r, NEW t, NEW w, NEW c,
           OncePlaced(f, r, t, w, c, N), w # 0
    PROVE  /\ OncePlaced(Append(f, w), r, t, 0, c, N)
           /\ AllPlaced(f, r, t, w, c, N) => AllPlaced(Append(f, w), r, t, 0, c, N)
  <1>1. f \in Seq(Nat) /\ IsInjective(f) /\ 0 \notin N /\ w \in Nat \ ToSet(f)
    BY DEF OncePlaced
  <1>2. Append(f, w) \in Seq(Nat) /\ IsInjective(Append(f, w)) /\ ToSet(Append(f, w)) = ToSet(f) \cup {w}
    BY <1>1, Appended
  <1> QED
    BY <1>1, <1>2 DEF OncePlaced, AllPlaced, Disjoint

LEMMA FreesShown ==
    ASSUME NEW N \in SUBSET (Nat \ {0}), NEW f, NEW r, NEW t, NEW w, NEW c,
           OncePlaced(f, r, t, w, c, N), c # 0
    PROVE  /\ OncePlaced(Append(f, c), r, t, w, 0, N)
           /\ AllPlaced(f, r, t, w, c, N) => AllPlaced(Append(f, c), r, t, w, 0, N)
  <1>1. f \in Seq(Nat) /\ IsInjective(f) /\ 0 \notin N /\ c \in Nat \ ToSet(f)
    BY DEF OncePlaced
  <1>2. Append(f, c) \in Seq(Nat) /\ IsInjective(Append(f, c)) /\ ToSet(Append(f, c)) = ToSet(f) \cup {c}
    BY <1>1, Appended
  <1> QED
    BY <1>1, <1>2 DEF OncePlaced, AllPlaced, Disjoint

LEMMA Retires ==
    ASSUME NEW N \in SUBSET (Nat \ {0}), NEW f, NEW r, NEW t, NEW w, NEW c,
           OncePlaced(f, r, t, w, c, N), c # 0
    PROVE  /\ OncePlaced(f, r, Append(t, c), w, 0, N)
           /\ AllPlaced(f, r, t, w, c, N) => AllPlaced(f, r, Append(t, c), w, 0, N)
  <1>1. t \in Seq(Nat) /\ IsInjective(t) /\ 0 \notin N /\ c \in Nat \ ToSet(t)
    BY DEF OncePlaced
  <1>2. Append(t, c) \in Seq(Nat) /\ IsInjective(Append(t, c)) /\ ToSet(Append(t, c)) = ToSet(t) \cup {c}
    BY <1>1, Appended
  <1> QED
    BY <1>1, <1>2 DEF OncePlaced, AllPlaced, Disjoint

LEMMA Recycles ==
    ASSUME NEW N \in SUBSET (Nat \ {0}), NEW f, NEW r, NEW t, NEW w, NEW c,
           OncePlaced(f, r, t, w, c, N), t # <<>>
    PROVE  /\ OncePlaced(Append(f, Head(t)), r, Tail(t), w, c, N)
           /\ AllPlaced(f, r, t, w, c, N) => AllPlaced(Append(f, Head(t)), r, Tail(t), w, c, N)
  <1> DEFINE b == Head(t)
             t2 == Tail(t)
  <1>1. f \in Seq(Nat) /\ IsInjective(f) /\ t \in Seq(Nat) /\ IsInjective(t) /\ 0 \notin N
    BY DEF OncePlaced
  <1>2. b \in ToSet(t) /\ t2 \in Seq(Nat) /\ IsInjective(t2) /\ ToSet(t2) = ToSet(t) \ {b}
    BY <1>1, Popped
  <1> HIDE DEF b, t2
  <1>3. b \in Nat \ ToSet(f) /\ b # 0
    BY <1>1, <1>2 DEF OncePlaced, Disjoint
  <1>4. Append(f, b) \in Seq(Nat) /\ IsInjective(Append(f, b)) /\ ToSet(Append(f, b)) = ToSet(f) \cup {b}
    BY <1>1, <1>3, Appended
  <1>5. /\ OncePlaced(Append(f, b), r, t2, w, c, N)
        /\ AllPlaced(f, r, t, w, c, N) => AllPlaced(Append(f, b), r, t2, w, c, N)
    BY <1>1, <1>2, <1>3, <1>4 DEF OncePlaced, AllPlaced, Disjoint
  <1> QED
    BY <1>5 DEF b, t2

LEMMA TakesReady ==
    ASSUME NEW N \in SUBSET (Nat \ {0}), NEW f, NEW r, NEW t, NEW w, OncePlaced(f, r, t, w, 0, N), r # <<>>
    PROVE  /\ OncePlaced(f, Tail(r), t, w, Head(r), N) /\ Head(r) # 0
           /\ AllPlaced(f, r, t, w, 0, N) => AllPlaced(f, Tail(r), t, w, Head(r), N)
  <1>1. r \in Seq(Nat) /\ IsInjective(r) /\ 0 \notin N
    BY DEF OncePlaced
  <1>2. /\ Head(r) \in ToSet(r) /\ Tail(r) \in Seq(Nat) /\ IsInjective(Tail(r))
        /\ ToSet(Tail(r)) = ToSet(r) \ {Head(r)}
    BY <1>1, Popped
  <1> QED
    BY <1>1, <1>2 DEF OncePlaced, AllPlaced, Disjoint

\* What buffers a list of frames has.
LEMMA BufsOf ==
    ASSUME NEW q \in Seq(FrameType)
    PROVE  /\ Bufs(q) \in Seq(Nat)
           /\ \A x \in FrameType : Bufs(Append(q, x)) = Append(Bufs(q), x.buf)
           /\ q # <<>> => /\ Bufs(q) # <<>> /\ Head(Bufs(q)) = Head(q).buf
                          /\ Bufs(Tail(q)) = Tail(Bufs(q))
           /\ Bufs(<<>>) = <<>>
  <1>1. Len(q) \in Nat /\ DOMAIN q = 1 .. Len(q) /\ \A i \in 1 .. Len(q) : q[i] \in FrameType
    BY LenProperties, ElementOfSeq
  <1>2. Bufs(q) \in Seq(Nat) /\ Len(Bufs(q)) = Len(q) /\ \A i \in 1 .. Len(q) : Bufs(q)[i] = q[i].buf
    BY <1>1 DEF Bufs, FrameType
  <1>3. ASSUME NEW x \in FrameType PROVE Bufs(Append(q, x)) = Append(Bufs(q), x.buf)
    <2>1. x.buf \in Nat
      BY DEF FrameType
    <2> DEFINE a == Append(q, x)
               b == Append(Bufs(q), x.buf)
    <2>2. /\ a \in Seq(FrameType) /\ Len(a) = Len(q) + 1 /\ a[Len(q) + 1] = x
          /\ \A i \in 1 .. Len(q) : a[i] = q[i]
      BY <1>1
    <2>3. /\ b \in Seq(Nat) /\ Len(b) = Len(q) + 1 /\ b[Len(q) + 1] = x.buf
          /\ \A i \in 1 .. Len(q) : b[i] = q[i].buf
      BY <1>1, <1>2, <2>1, AppendProperties
    <2> HIDE DEF a, b
    <2>4. Bufs(a) \in Seq(Nat) /\ Len(Bufs(a)) = Len(q) + 1 /\ \A i \in 1 .. Len(q) + 1 : Bufs(a)[i] = a[i].buf
      <3>1. DOMAIN a = 1 .. Len(q) + 1 /\ \A i \in 1 .. Len(q) + 1 : a[i] \in FrameType
        BY <2>2, LenProperties, ElementOfSeq
      <3> QED
        BY <1>1, <3>1 DEF Bufs, FrameType
    <2>5. ASSUME NEW i \in 1 .. Len(q) + 1 PROVE Bufs(a)[i] = b[i]
      <3>1. Bufs(a)[i] = a[i].buf
        BY <2>4
      <3>2. CASE i = Len(q) + 1
        BY <2>2, <2>3, <3>1, <3>2
      <3>3. CASE i # Len(q) + 1
        <4>1. i \in 1 .. Len(q)
          BY <1>1, <3>3
        <4> QED
          BY <2>2, <2>3, <3>1, <4>1
      <3> QED
        BY <3>2, <3>3
    <2>6. Bufs(a) = b
      BY <2>3, <2>4, <2>5, SeqEqual
    <2> QED
      BY <2>6 DEF a, b
  <1>4. ASSUME q # <<>>
        PROVE  /\ Bufs(q) # <<>> /\ Head(Bufs(q)) = Head(q).buf
               /\ Bufs(Tail(q)) = Tail(Bufs(q))
    <2> DEFINE a == Tail(q)
               b == Tail(Bufs(q))
    <2>1. Len(q) # 0
      BY <1>4, EmptySeq
    <2>2. Bufs(q) # <<>>
      BY <1>2, <2>1, EmptySeq
    <2>3. /\ Head(q) = q[1] /\ a \in Seq(FrameType) /\ Len(a) = Len(q) - 1
          /\ \A i \in 1 .. Len(q) - 1 : a[i] = q[i + 1]
      BY <1>4, HeadTailProperties
    <2>4. /\ Head(Bufs(q)) = Bufs(q)[1] /\ b \in Seq(Nat) /\ Len(b) = Len(q) - 1
          /\ \A i \in 1 .. Len(q) - 1 : b[i] = Bufs(q)[i + 1]
      BY <1>2, <2>2, HeadTailProperties
    <2> HIDE DEF a, b
    <2>5. Bufs(a) \in Seq(Nat) /\ Len(Bufs(a)) = Len(q) - 1 /\ \A i \in 1 .. Len(q) - 1 : Bufs(a)[i] = a[i].buf
      <3>1. DOMAIN a = 1 .. Len(q) - 1 /\ \A i \in 1 .. Len(q) - 1 : a[i] \in FrameType
        BY <2>3, LenProperties, ElementOfSeq
      <3> QED
        BY <1>1, <2>1, <3>1 DEF Bufs, FrameType
    <2>6. \A i \in 1 .. Len(q) - 1 : Bufs(a)[i] = b[i]
      <3>1. \A i \in 1 .. Len(q) - 1 : i + 1 \in 1 .. Len(q)
        BY <1>1
      <3> QED
        BY <1>2, <2>3, <2>4, <2>5, <3>1
    <2>7. Bufs(a) = b
      BY <2>4, <2>5, <2>6, SeqEqual
    <2>8. Bufs(q)[1] = q[1].buf
      BY <1>1, <1>2, <2>1
    <2> QED
      BY <2>2, <2>3, <2>4, <2>7, <2>8 DEF a, b
  <1>5. Bufs(<<>>) = <<>>
    BY DEF Bufs
  <1> QED
    BY <1>2, <1>3, <1>4, <1>5

\* The buffers of a stream are in one place, and while it plays all of them are.
BufferSet(k) == 1 .. AllBuffers(k)
BufferInvOf(k) ==
    /\ OncePlaced(free[k], Bufs(ready[k]), Retired(k), dec[k].buf, current[k].buf, BufferSet(k))
    /\ ~player.stopped /\ k \in On =>
          AllPlaced(free[k], Bufs(ready[k]), Retired(k), dec[k].buf, current[k].buf, BufferSet(k))
    /\ dec[k].buf # 0 <=> dec[k].pc = "write"
    /\ current[k].buf = 0 => current[k] = NoFrame
BufferInv == \A k \in Kinds : BufferInvOf(k)

\* When nothing is held all the buffers are new.
LEMMA NoBuffers ==
    ASSUME NEW N \in SUBSET (Nat \ {0})
    PROVE  /\ OncePlaced(<<>>, <<>>, <<>>, 0, 0, N)
           /\ \A f, r, t, w, c : OncePlaced(f, r, t, w, c, N) => OncePlaced(<<>>, <<>>, t, 0, c, N)
  <1>1. <<>> \in Seq(Nat) /\ IsInjective(<<>>) /\ ToSet(<<>>) = {}
    BY DEF IsInjective, ToSet
  <1> QED
    BY <1>1 DEF OncePlaced, Disjoint

LEMMA BufferSets ==
    ASSUME AvPlayerAssumption, PlayTypeOK, NEW k \in Kinds
    PROVE  BufferSet(k) \in SUBSET (Nat \ {0})
  <1>1. AllBuffers(k) \in Nat
    BY SourceFacts
  <1> QED
    BY <1>1 DEF BufferSet

LEMMA BuffersStart ==
    ASSUME AvPlayerAssumption, Init
    PROVE  BufferInv
  <1> SUFFICES ASSUME NEW k \in Kinds PROVE BufferInvOf(k)
    BY DEF BufferInv
  <1>1. /\ free[k] = <<>> /\ ready[k] = <<>> /\ Retired(k) = <<>> /\ dec[k].buf = 0 /\ dec[k].pc = "off"
        /\ current[k] = NoFrame /\ NoFrame.buf = 0 /\ player.stopped
    BY DEF Init, OfEach, Retired, OffDecoder, NoFrame
  <1>2. Bufs(ready[k]) = <<>>
    BY <1>1 DEF Bufs
  <1>3. BufferSet(k) \in SUBSET (Nat \ {0})
    BY BufferSets, PlayTypeStarts
  <1> QED
    BY <1>1, <1>2, <1>3, NoBuffers DEF BufferInvOf

\* Nothing that the buffers of a stream depend on changes.
LEMMA BuffersStay ==
    ASSUME NEW k \in Kinds, BufferInvOf(k), source' = source, free'[k] = free[k], ready'[k] = ready[k],
           Retired(k)' = Retired(k), dec'[k].buf = dec[k].buf, dec'[k].pc = "write" <=> dec[k].pc = "write",
           current'[k] = current[k], player.stopped => player'.stopped
    PROVE  BufferInvOf(k)'
  BY DEF BufferInvOf, BufferSet, AllBuffers, On, Size

\* They move within one stream while the player is not stopped, or stays stopped.
LEMMA BuffersMove ==
    ASSUME NEW k \in Kinds, BufferInvOf(k), source' = source, player.stopped => player'.stopped,
           OncePlaced(free'[k], Bufs(ready'[k]), Retired(k)', dec'[k].buf, current'[k].buf, BufferSet(k)),
           AllPlaced(free[k], Bufs(ready[k]), Retired(k), dec[k].buf, current[k].buf, BufferSet(k)) =>
              AllPlaced(free'[k], Bufs(ready'[k]), Retired(k)', dec'[k].buf, current'[k].buf, BufferSet(k)),
           dec'[k].buf # 0 <=> dec'[k].pc = "write",
           current'[k].buf = 0 => current'[k] = NoFrame
    PROVE  BufferInvOf(k)'
  BY DEF BufferInvOf, BufferSet, AllBuffers, On, Size

\* BufferInv is kept by every step.
LEMMA DemuxBuffers ==
    ASSUME AvPlayerAssumption, PlayTypeOK, BufferInv, Demux \/ ReadFails
    PROVE  BufferInv'
  <1> SUFFICES ASSUME NEW k \in Kinds PROVE BufferInvOf(k)'
    BY DEF BufferInv
  <1>0. BufferInvOf(k)
    BY DEF BufferInv
  <1>1. /\ UNCHANGED <<source, free, ready, current, retired>> /\ player'.stopped = player.stopped
        /\ dec'[k] = dec[k] \/ Stirred(dec[k], dec'[k])
    <2>1. CASE Reads
      BY <2>1, ReadsEffect
    <2>2. CASE GoesRound
      BY <2>2, GoesRoundEffect
    <2>3. CASE DemuxReturns
      BY <2>3, DemuxReturnsEffect
    <2>4. CASE ReadFails
      BY <2>4, ReadFailsEffect
    <2>5. CASE Push
      BY <2>5, PushEffect
    <2>6. CASE DemuxSleeps
      BY <2>6, DemuxSleepsEffect
    <2> QED
      BY <2>1, <2>2, <2>3, <2>4, <2>5, <2>6 DEF Demux
  <1> QED
    BY <1>0, <1>1, BuffersStay DEF Stirred, Retired

LEMMA DecodersBuffers ==
    ASSUME AvPlayerAssumption, PlayTypeOK, BufferInv, Shape, NEW k \in Kinds, Decoder(k) \/ WriteFails(k)
    PROVE  BufferInv'
  <1> SUFFICES ASSUME NEW j \in Kinds PROVE BufferInvOf(j)'
    BY DEF BufferInv
  <1>0. BufferInvOf(j) /\ BufferInvOf(k)
    BY DEF BufferInv
  <1>t. /\ free \in [Kinds -> Seq(Nat)] /\ ready \in [Kinds -> Seq(FrameType)] /\ ready[k] \in Seq(FrameType)
        /\ free[k] \in Seq(Nat)
    BY DEF PlayTypeOK
  <1>n. BufferSet(k) \in SUBSET (Nat \ {0})
    BY BufferSets
  <1>1. CASE Pop(k)
    <2>1. /\ UNCHANGED <<source, free, ready, current, retired>> /\ player'.stopped = player.stopped
          /\ dec'[j].buf = dec[j].buf /\ (dec'[j].pc = "write" <=> dec[j].pc = "write")
      BY <1>1, PopEffect DEF OthersStay
    <2> QED
      BY <1>0, <2>1, BuffersStay DEF Retired
  <1>2. CASE Receive(k)
    <2>s. player'.stopped = player.stopped /\ UNCHANGED <<source, ready, current, retired>>
      BY <1>2, ReceiveEffect, DoneFields
    <2>1. CASE j # k
      <3>1. dec'[j] = dec[j] /\ free'[j] = free[j]
        BY <1>2, <1>t, <2>1, ReceiveEffect DEF OthersStay
      <3> QED
        BY <1>0, <2>s, <3>1, BuffersStay DEF Retired
    <2>2. CASE j = k /\ dec'[k].pc # "write"
      <3>1. dec[k].buf = 0 /\ free' = free
        BY <1>0, <1>2, <2>2, ReceiveEffect DEF BufferInvOf
      <3>2. dec'[k].buf = 0
        BY <1>2, <2>2, <3>1, ReceiveEffect DEF IsOff
      <3>3. dec[k].pc = "receive"
        BY <1>2, ReceiveEffect
      <3> QED
        BY <1>0, <2>2, <2>s, <3>1, <3>2, <3>3, BuffersStay DEF Retired
    <2>3. CASE j = k /\ dec'[k].pc = "write"
      <3>1. dec[k].buf = 0
        BY <1>0, <1>2, ReceiveEffect DEF BufferInvOf
      <3>2. /\ free[k] # <<>> /\ dec'[k].buf = Head(free[k])
            /\ free' = [free EXCEPT ![k] = Tail(free[k])]
        BY <1>2, <2>3, ReceiveEffect DEF IsOff
      <3>3. free'[k] = Tail(free[k])
        BY <1>t, <3>2
      <3>4. OncePlaced(free[k], Bufs(ready[k]), Retired(k), 0, current[k].buf, BufferSet(k))
        BY <1>0, <3>1 DEF BufferInvOf
      <3> DEFINE f == free[k]
                 r == Bufs(ready[k])
                 t == Retired(k)
                 c == current[k].buf
                 N == BufferSet(k)
      <3>5. /\ OncePlaced(Tail(f), r, t, Head(f), c, N) /\ Head(f) # 0
            /\ AllPlaced(f, r, t, 0, c, N) => AllPlaced(Tail(f), r, t, Head(f), c, N)
        <4> HIDE DEF f, r, t, c, N
        <4>1. OncePlaced(f, r, t, 0, c, N) /\ f # <<>> /\ N \in SUBSET (Nat \ {0})
          BY <1>n, <3>2, <3>4 DEF f, r, t, c, N
        <4> QED
          BY <4>1, TakesFree
      <3>6. Bufs(ready'[k]) = r /\ Retired(k)' = t /\ current'[k] = current[k]
        BY <2>s DEF Retired
      <3>7. current[k].buf = 0 => current[k] = NoFrame
        BY <1>0 DEF BufferInvOf
      <3> HIDE DEF f, r, t, c, N
      <3>8. BufferInvOf(k)'
        BY <1>0, <2>3, <2>s, <3>1, <3>2, <3>3, <3>5, <3>6, <3>7, BuffersMove DEF f, r, t, c, N
      <3> QED
        BY <2>3, <3>8
    <2> QED
      BY <2>1, <2>2, <2>3
  <1>3. CASE DecoderStops(k)
    <2>1. player'.stopped = player.stopped /\ UNCHANGED <<source, free, ready, current, retired>>
      BY <1>3, DecoderStopsEffect, DoneFields
    <2>2. dec'[j].buf = dec[j].buf /\ (dec'[j].pc = "write" <=> dec[j].pc = "write")
      BY <1>0, <1>3, DecoderStopsEffect DEF OthersStay, BufferInvOf, IsOff
    <2> QED
      BY <1>0, <2>1, <2>2, BuffersStay DEF Retired
  <1>4. CASE DecoderSleeps(k)
    <2>1. /\ UNCHANGED <<source, free, ready, current, retired>> /\ player'.stopped = player.stopped
          /\ dec'[j].buf = dec[j].buf /\ (dec'[j].pc = "write" <=> dec[j].pc = "write")
      BY <1>4, DecoderSleepsEffect DEF OthersStay
    <2> QED
      BY <1>0, <2>1, BuffersStay DEF Retired
  <1>5. CASE Write(k)
    <2>s. player'.stopped = player.stopped /\ UNCHANGED <<source, free, current, retired>>
      BY <1>5, WriteEffect
    <2> DEFINE x == [buf |-> dec[k].buf, ts |-> Head(dec[k].codec)]
    <2>r. ready' = [ready EXCEPT ![k] = Append(ready[k], x)]
      BY <1>5, WriteEffect
    <2>x. x \in FrameType /\ x.buf = dec[k].buf
      <3>1. dec[k].codec # <<>> /\ dec[k].codec \in Seq(Nat) /\ dec[k].buf \in Nat
        BY <1>5, WriteEffect, Fields DEF Shape, DecoderShape
      <3>2. Head(dec[k].codec) \in Nat
        BY <3>1, ListFields
      <3> QED
        BY <3>1, <3>2 DEF FrameType
    <2> HIDE DEF x
    <2>1. CASE j # k
      <3>1. dec'[j] = dec[j] /\ ready'[j] = ready[j]
        BY <1>5, <1>t, <2>1, <2>r, WriteEffect DEF OthersStay
      <3> QED
        BY <1>0, <2>s, <3>1, BuffersStay DEF Retired
    <2>2. CASE j = k
      <3>1. dec[k].buf # 0 /\ dec'[k].buf = 0 /\ dec'[k].pc = "receive"
        BY <1>0, <1>5, WriteEffect DEF BufferInvOf
      <3>3. Bufs(ready'[k]) = Append(Bufs(ready[k]), dec[k].buf)
        BY <1>t, <2>r, <2>x, BufsOf
      <3> DEFINE f == free[k]
                 r == Bufs(ready[k])
                 t == Retired(k)
                 c == current[k].buf
                 w == dec[k].buf
                 N == BufferSet(k)
      <3>5. /\ OncePlaced(f, Append(r, w), t, 0, c, N)
            /\ AllPlaced(f, r, t, w, c, N) => AllPlaced(f, Append(r, w), t, 0, c, N)
        <4>1. OncePlaced(f, r, t, w, c, N)
          BY <1>0 DEF BufferInvOf
        <4> HIDE DEF f, r, t, c, w, N
        <4>2. w # 0 /\ N \in SUBSET (Nat \ {0})
          BY <1>n, <3>1 DEF w, N
        <4> QED
          BY <4>1, <4>2, MakesReady
      <3>6. free'[k] = f /\ Retired(k)' = t /\ current'[k] = current[k]
        BY <2>s DEF Retired
      <3>7. current[k].buf = 0 => current[k] = NoFrame
        BY <1>0 DEF BufferInvOf
      <3> HIDE DEF f, r, t, c, w, N
      <3>8. BufferInvOf(k)'
        BY <1>0, <2>s, <3>1, <3>3, <3>5, <3>6, <3>7, BuffersMove DEF f, r, t, c, w, N
      <3> QED
        BY <2>2, <3>8
    <2> QED
      BY <2>1, <2>2
  <1>6. CASE WriteFails(k)
    <2>s. player'.stopped = player.stopped /\ UNCHANGED <<source, ready, current, retired>>
      BY <1>6, WriteFailsEffect, FailedFields
    <2>1. CASE j # k
      <3>1. Stirred(dec[j], dec'[j]) /\ free'[j] = free[j]
        BY <1>6, <1>t, <2>1, WriteFailsEffect
      <3> QED
        BY <1>0, <2>s, <3>1, BuffersStay DEF Retired, Stirred
    <2>2. CASE j = k
      <3>1. dec[k].buf # 0 /\ dec'[k].buf = 0 /\ dec'[k].pc = "off"
        BY <1>0, <1>6, WriteFailsEffect DEF BufferInvOf, IsOff
      <3>3. free'[k] = Append(free[k], dec[k].buf)
        BY <1>6, <1>t, WriteFailsEffect
      <3> DEFINE f == free[k]
                 r == Bufs(ready[k])
                 t == Retired(k)
                 c == current[k].buf
                 w == dec[k].buf
                 N == BufferSet(k)
      <3>5. /\ OncePlaced(Append(f, w), r, t, 0, c, N)
            /\ AllPlaced(f, r, t, w, c, N) => AllPlaced(Append(f, w), r, t, 0, c, N)
        <4>1. OncePlaced(f, r, t, w, c, N)
          BY <1>0 DEF BufferInvOf
        <4> HIDE DEF f, r, t, c, w, N
        <4>2. w # 0 /\ N \in SUBSET (Nat \ {0})
          BY <1>n, <3>1 DEF w, N
        <4> QED
          BY <4>1, <4>2, FreesWritten
      <3>6. Bufs(ready'[k]) = r /\ Retired(k)' = t /\ current'[k] = current[k]
        BY <2>s DEF Retired
      <3>7. current[k].buf = 0 => current[k] = NoFrame
        BY <1>0 DEF BufferInvOf
      <3> HIDE DEF f, r, t, c, w, N
      <3>8. BufferInvOf(k)'
        BY <1>0, <2>s, <3>1, <3>3, <3>5, <3>6, <3>7, BuffersMove DEF f, r, t, c, w, N
      <3> QED
        BY <2>2, <3>8
    <2> QED
      BY <2>1, <2>2
  <1> QED
    BY <1>1, <1>2, <1>3, <1>4, <1>5, <1>6 DEF Decoder

LEMMA ControlBuffers ==
    ASSUME AvPlayerAssumption, PlayTypeOK, Shape, BufferInv,
           Control \/ (\E call \in {"start", "stop", "jump", "change"}, from \in Starts : Begins(call, from))
    PROVE  BufferInv'
  <1> SUFFICES ASSUME NEW k \in Kinds PROVE BufferInvOf(k)'
    BY DEF BufferInv
  <1>0. BufferInvOf(k) /\ \A j \in Kinds : DecoderShape(j)
    BY DEF BufferInv, Shape
  <1>j. Joined => dec[k].pc = "off" /\ dec[k].buf = 0
    BY <1>0 DEF Joined, DecoderShape, IsOff
  <1>c. ctl.pc = "joining" => player.stopped
    BY DEF Shape, ControlShape
  <1>n. BufferSet(k) \in SUBSET (Nat \ {0})
    BY BufferSets
  <1>e. Bufs(<<>>) = <<>>
    BY DEF Bufs
  <1>1. CASE \E call \in {"start", "stop", "jump", "change"}, from \in Starts : Begins(call, from)
    <2>1. PICK call \in {"start", "stop", "jump", "change"}, from \in Starts : Begins(call, from)
      BY <1>1
    <2> QED
      BY <1>0, <2>1, BeginsEffect, BuffersStay DEF Retired
  <1>2. CASE Stops
    <2>1. Stirred(dec[k], dec'[k])
      BY <1>2, StopsEffect
    <2> QED
      BY <1>0, <1>2, <2>1, StopsEffect, BuffersStay DEF Retired, Stirred
  <1>3. CASE StopEnds
    <2>1. /\ free'[k] = <<>> /\ Bufs(ready'[k]) = <<>> /\ Retired(k)' = <<>> /\ current'[k] = NoFrame
          /\ NoFrame.buf = 0
      BY <1>3, <1>e, StopEndsEffect DEF Emptied, Retired, NoFrame
    <2>2. dec'[k] = dec[k] /\ source' = source /\ player'.stopped /\ Joined
      BY <1>3, <1>c, StopEndsEffect
    <2>3. BufferSet(k)' = BufferSet(k)
      BY DEF BufferSet, AllBuffers
    <2>4. OncePlaced(<<>>, <<>>, <<>>, 0, 0, BufferSet(k))
      BY <1>n, NoBuffers
    <2> QED
      BY <1>j, <2>1, <2>2, <2>3, <2>4 DEF BufferInvOf
  <1>4. CASE Resets
    <2>r. /\ source' = source /\ dec' = dec /\ current' = current /\ retired' = retired /\ Joined
          /\ Bufs(ready'[k]) = <<>>
      BY <1>4, <1>e, ResetsEffect DEF Emptied
    <2> DEFINE t == Retired(k)
               c == current[k].buf
               N == BufferSet(k)
    <2>0. BufferSet(k)' = N /\ Retired(k)' = t /\ current'[k] = current[k] /\ dec'[k] = dec[k] /\ (k \in On)' = (k \in On)
      BY <2>r DEF BufferSet, AllBuffers, Retired, On, Size
    <2>1. OncePlaced(<<>>, <<>>, t, 0, c, N)
      BY <1>0, <1>n, NoBuffers DEF BufferInvOf
    <2>2. CASE free'[k] = <<>> /\ (~player'.stopped => k \notin On)
      BY <1>0, <1>j, <2>0, <2>1, <2>2, <2>r DEF BufferInvOf
    <2>3. CASE free'[k] = NewBuffers(k) /\ k \in On
      <3> DEFINE f == NewBuffers(k)
      <3>1. f \in Seq(Nat) /\ IsInjective(f) /\ ToSet(f) = N \ HeldBuffers(k)
        BY NewBuffersListed DEF BufferSet
      <3>2. HeldBuffers(k) = {c} \cup ToSet(t)
        <4>1. ToSet(<<>>) = {}
          BY DEF ToSet
        <4> QED
          BY <4>1 DEF HeldBuffers, Retired
      <3> HIDE DEF f, N, c, t
      <3>3. OncePlaced(f, <<>>, t, 0, c, N)
        <4>1. 0 \notin N
          BY <1>n DEF N
        <4> QED
          BY <2>1, <3>1, <3>2, <4>1 DEF OncePlaced, Disjoint
      <3>4. AllPlaced(f, <<>>, t, 0, c, N)
        BY <3>1, <3>2 DEF AllPlaced
      <3>5. dec'[k].buf = 0 /\ dec'[k].pc = "off" /\ current'[k].buf = c
            /\ (c = 0 => current'[k] = NoFrame)
        BY <1>0, <1>j, <2>0, <2>r DEF BufferInvOf, c
      <3> QED
        BY <2>0, <2>3, <2>r, <3>3, <3>4, <3>5 DEF BufferInvOf, f
    <2> QED
      BY <1>4, <1>c, <2>2, <2>3, ResetsEffect DEF Emptied
  <1>5. CASE Launches
    <2>1. Joined
      BY <1>5, LaunchesEffect DEF Shape, ControlShape
    <2>2. dec'[k].buf = 0 /\ dec'[k].pc \in {"off", "pop"}
      BY <1>5, LaunchesEffect DEF IsOff
    <2>3. (dec'[k].pc = "write" <=> dec[k].pc = "write") /\ dec'[k].buf = dec[k].buf
      BY <1>j, <2>1, <2>2
    <2> QED
      BY <1>0, <1>5, <2>3, LaunchesEffect, BuffersStay DEF Retired
  <1>6. CASE GivesUp
    <2>r. /\ source' = source /\ dec' = dec /\ current' = current /\ retired' = retired /\ Joined
          /\ Bufs(ready'[k]) = <<>> /\ player'.stopped /\ free'[k] = <<>>
      BY <1>6, <1>e, GivesUpEffect DEF Emptied
    <2>0. BufferSet(k)' = BufferSet(k) /\ Retired(k)' = Retired(k) /\ current'[k] = current[k] /\ dec'[k] = dec[k]
      BY <2>r DEF BufferSet, AllBuffers, Retired
    <2>1. OncePlaced(<<>>, <<>>, Retired(k), 0, current[k].buf, BufferSet(k))
      BY <1>0, <1>n, NoBuffers DEF BufferInvOf
    <2> QED
      BY <1>0, <1>j, <2>0, <2>1, <2>r DEF BufferInvOf
  <1> QED
    BY <1>1, <1>2, <1>3, <1>4, <1>5, <1>6 DEF Control

\* The guest takes a ready frame; when it has none, and when the frame it had went
\* among the retired or the free.
LEMMA Shows ==
    ASSUME NEW N \in SUBSET (Nat \ {0}), NEW q \in Seq(FrameType), q # <<>>, NEW f, NEW t, NEW w,
           OncePlaced(f, Bufs(q), t, w, 0, N)
    PROVE  /\ OncePlaced(f, Bufs(Tail(q)), t, w, Head(q).buf, N) /\ Head(q).buf # 0
           /\ AllPlaced(f, Bufs(q), t, w, 0, N) => AllPlaced(f, Bufs(Tail(q)), t, w, Head(q).buf, N)
  <1>1. Bufs(q) # <<>> /\ Head(Bufs(q)) = Head(q).buf /\ Bufs(Tail(q)) = Tail(Bufs(q))
    BY BufsOf
  <1> DEFINE r == Bufs(q)
  <1> HIDE DEF r
  <1>2. /\ OncePlaced(f, Tail(r), t, w, Head(r), N) /\ Head(r) # 0
        /\ AllPlaced(f, r, t, w, 0, N) => AllPlaced(f, Tail(r), t, w, Head(r), N)
    <2>1. OncePlaced(f, r, t, w, 0, N) /\ r # <<>>
      BY <1>1 DEF r
    <2> QED
      BY <2>1, TakesReady
  <1> QED
    BY <1>1, <1>2 DEF r

\* What GetVideoData and GetAudioData do with the buffer of the frame before.
LEMMA VideoBuffersMove ==
    ASSUME AvPlayerAssumption, PlayTypeOK, BufferInv, Video
    PROVE  BufferInvOf("video")'
  <1> DEFINE k == "video"
             q == ready[k]
             b == current[k].buf
             old == IF current[k] = NoFrame THEN retired ELSE Append(retired, b)
             recycles == current[k] # NoFrame /\ Len(old) >= VideoBuffers - 1
  <1>k. k \in Kinds
    BY DEF Kinds
  <1>1. /\ ~player.stopped /\ ready[k] # <<>>
        /\ retired' = IF recycles THEN Tail(old) ELSE old
        /\ free' = IF recycles THEN [free EXCEPT ![k] = Append(free[k], Head(old))] ELSE free
        /\ dec' = Awoken(k, recycles)
        /\ current' = [current EXCEPT ![k] = Head(q)]
        /\ ready' = [ready EXCEPT ![k] = Tail(q)]
        /\ player'.stopped = player.stopped /\ UNCHANGED source
    BY VideoEffect
  <1>t. /\ free[k] \in Seq(Nat) /\ q \in Seq(FrameType) /\ b \in Nat /\ retired \in Seq(Nat)
    BY <1>k DEF PlayTypeOK
  <1>0. BufferInvOf(k)
    BY <1>k DEF BufferInv
  <1> DEFINE N == BufferSet(k)
             w == dec[k].buf
             f == free[k]
  <1>n. N \in SUBSET (Nat \ {0})
    BY <1>k, BufferSets
  <1>2. /\ OncePlaced(f, Bufs(q), retired, w, b, N) /\ (b = 0 => current[k] = NoFrame)
        /\ NoFrame.buf = 0
    BY <1>0 DEF BufferInvOf, Retired, NoFrame
  <1> HIDE DEF N, w, f, b
  <1>3. /\ OncePlaced(f, Bufs(q), old, w, 0, N)
        /\ AllPlaced(f, Bufs(q), retired, w, b, N) => AllPlaced(f, Bufs(q), old, w, 0, N)
    <2>1. CASE current[k] = NoFrame
      <3>1. b = 0 /\ old = retired
        BY <1>2, <2>1 DEF b
      <3> HIDE DEF old
      <3> QED
        BY <1>2, <3>1
    <2>2. CASE current[k] # NoFrame
      <3>1. b # 0 /\ old = Append(retired, b)
        BY <1>2, <2>2
      <3> HIDE DEF old
      <3> QED
        BY <1>2, <1>n, <3>1, Retires
    <2> QED
      BY <2>1, <2>2
  <1>o. recycles => old # <<>>
    <2>1. Append(retired, b) # <<>>
      BY <1>t, AppendProperties
    <2> QED
      BY <2>1
  <1> DEFINE f2 == IF recycles THEN Append(f, Head(old)) ELSE f
             t2 == IF recycles THEN Tail(old) ELSE old
  <1> HIDE DEF old, recycles
  <1>4. /\ OncePlaced(f2, Bufs(q), t2, w, 0, N)
        /\ AllPlaced(f, Bufs(q), old, w, 0, N) => AllPlaced(f2, Bufs(q), t2, w, 0, N)
    BY <1>3, <1>n, <1>o, Recycles
  <1> HIDE DEF f2, t2
  <1>5. /\ OncePlaced(f2, Bufs(Tail(q)), t2, w, Head(q).buf, N) /\ Head(q).buf # 0
        /\ AllPlaced(f2, Bufs(q), t2, w, 0, N) => AllPlaced(f2, Bufs(Tail(q)), t2, w, Head(q).buf, N)
    BY <1>1, <1>4, <1>n, <1>t, Shows
  <1>6. free'[k] = f2 /\ retired' = t2
    <2>1. free \in [Kinds -> Seq(Nat)]
      BY DEF PlayTypeOK
    <2> QED
      BY <1>1, <1>k, <2>1 DEF f2, t2, f
  <1>7. ready'[k] = Tail(q) /\ current'[k] = Head(q)
    BY <1>1, <1>k DEF PlayTypeOK
  <1>8. dec'[k].buf = w /\ (w # 0 <=> dec'[k].pc = "write")
    <2>1. Stirred(dec[k], dec'[k])
      BY <1>1, <1>k, AwokenStirs
    <2> QED
      BY <1>0, <2>1 DEF Stirred, BufferInvOf, w
  <1>9. Retired(k)' = t2 /\ Retired(k) = retired
    BY <1>6 DEF Retired
  <1>10. AllPlaced(f, Bufs(q), retired, w, b, N) => AllPlaced(f2, Bufs(Tail(q)), t2, w, Head(q).buf, N)
    BY <1>3, <1>4, <1>5
  <1>11. /\ source' = source /\ (player.stopped => player'.stopped)
         /\ OncePlaced(free'[k], Bufs(ready'[k]), Retired(k)', dec'[k].buf, current'[k].buf, BufferSet(k))
         /\ AllPlaced(free[k], Bufs(ready[k]), Retired(k), dec[k].buf, current[k].buf, BufferSet(k)) =>
               AllPlaced(free'[k], Bufs(ready'[k]), Retired(k)', dec'[k].buf, current'[k].buf, BufferSet(k))
         /\ (dec'[k].buf # 0 <=> dec'[k].pc = "write")
         /\ (current'[k].buf = 0 => current'[k] = NoFrame)
    BY <1>1, <1>5, <1>6, <1>7, <1>8, <1>9, <1>10 DEF N, w, f, b
  <1> HIDE DEF q
  <1> QED
    BY <1>0, <1>k, <1>11, BuffersMove, Zenon

LEMMA AudioBuffersMove ==
    ASSUME AvPlayerAssumption, PlayTypeOK, BufferInv, Audio
    PROVE  BufferInvOf("audio")'
  <1> DEFINE k == "audio"
             q == ready[k]
             b == current[k].buf
             recycles == current[k] # NoFrame
  <1>k. k \in Kinds
    BY DEF Kinds
  <1>1. /\ ~player.stopped /\ ready[k] # <<>>
        /\ free' = IF recycles THEN [free EXCEPT ![k] = Append(free[k], b)] ELSE free
        /\ dec' = Awoken(k, recycles)
        /\ current' = [current EXCEPT ![k] = Head(q)]
        /\ ready' = [ready EXCEPT ![k] = Tail(q)]
        /\ player'.stopped = player.stopped /\ UNCHANGED source
    BY AudioEffect
  <1>t. /\ free[k] \in Seq(Nat) /\ q \in Seq(FrameType) /\ b \in Nat
    BY <1>k DEF PlayTypeOK
  <1>0. BufferInvOf(k)
    BY <1>k DEF BufferInv
  <1> DEFINE N == BufferSet(k)
             w == dec[k].buf
             f == free[k]
             t == Retired(k)
             f2 == IF recycles THEN Append(f, b) ELSE f
  <1>n. N \in SUBSET (Nat \ {0})
    BY <1>k, BufferSets
  <1>2. /\ OncePlaced(f, Bufs(q), t, w, b, N) /\ (b = 0 => current[k] = NoFrame)
        /\ NoFrame.buf = 0
    BY <1>0 DEF BufferInvOf, NoFrame
  <1>9. Retired(k)' = t
    BY DEF Retired
  <1> HIDE DEF N, w, f, b, t
  <1>4. /\ OncePlaced(f2, Bufs(q), t, w, 0, N)
        /\ AllPlaced(f, Bufs(q), t, w, b, N) => AllPlaced(f2, Bufs(q), t, w, 0, N)
    <2>1. CASE ~recycles
      <3>1. b = 0
        BY <1>2, <2>1 DEF b
      <3> QED
        BY <1>2, <2>1, <3>1
    <2>2. CASE recycles
      <3>1. b # 0
        BY <1>2, <2>2
      <3> QED
        BY <1>2, <1>n, <2>2, <3>1, FreesShown
    <2> QED
      BY <2>1, <2>2
  <1> HIDE DEF f2, recycles
  <1>5. /\ OncePlaced(f2, Bufs(Tail(q)), t, w, Head(q).buf, N) /\ Head(q).buf # 0
        /\ AllPlaced(f2, Bufs(q), t, w, 0, N) => AllPlaced(f2, Bufs(Tail(q)), t, w, Head(q).buf, N)
    BY <1>1, <1>4, <1>n, <1>t, Shows
  <1>6. free'[k] = f2
    <2>1. free \in [Kinds -> Seq(Nat)]
      BY DEF PlayTypeOK
    <2> QED
      BY <1>1, <1>k, <2>1 DEF f2, f
  <1>7. ready'[k] = Tail(q) /\ current'[k] = Head(q)
    BY <1>1, <1>k DEF PlayTypeOK
  <1>8. dec'[k].buf = w /\ (w # 0 <=> dec'[k].pc = "write")
    <2>1. Stirred(dec[k], dec'[k])
      BY <1>1, <1>k, AwokenStirs
    <2> QED
      BY <1>0, <2>1 DEF Stirred, BufferInvOf, w
  <1>11. /\ source' = source /\ (player.stopped => player'.stopped)
         /\ OncePlaced(free'[k], Bufs(ready'[k]), Retired(k)', dec'[k].buf, current'[k].buf, BufferSet(k))
         /\ AllPlaced(free[k], Bufs(ready[k]), Retired(k), dec[k].buf, current[k].buf, BufferSet(k)) =>
               AllPlaced(free'[k], Bufs(ready'[k]), Retired(k)', dec'[k].buf, current'[k].buf, BufferSet(k))
         /\ (dec'[k].buf # 0 <=> dec'[k].pc = "write")
         /\ (current'[k].buf = 0 => current'[k] = NoFrame)
    BY <1>1, <1>4, <1>5, <1>6, <1>7, <1>8, <1>9 DEF N, w, f, b, t
  <1> HIDE DEF q
  <1> QED
    BY <1>0, <1>k, <1>11, BuffersMove, Zenon

LEMMA GuestBuffers ==
    ASSUME AvPlayerAssumption, PlayTypeOK, BufferInv,
           Video \/ Audio \/ \E pause \in BOOLEAN : PauseOrResume(pause)
    PROVE  BufferInv'
  <1> SUFFICES ASSUME NEW j \in Kinds PROVE BufferInvOf(j)'
    BY DEF BufferInv
  <1>0. BufferInvOf(j)
    BY DEF BufferInv
  <1>t. /\ free \in [Kinds -> Seq(Nat)] /\ ready \in [Kinds -> Seq(FrameType)]
        /\ current \in [Kinds -> [buf : Nat, ts : Nat \cup {-1}]]
    BY DEF PlayTypeOK
  <1>1. CASE Video
    <2>1. CASE j = "video"
      BY <1>1, <2>1, VideoBuffersMove
    <2>2. CASE j # "video"
      <3> DEFINE k == "video"
                 old == IF current[k] = NoFrame THEN retired ELSE Append(retired, current[k].buf)
                 recycles == current[k] # NoFrame /\ Len(old) >= VideoBuffers - 1
                 b == Head(old)
      <3>1. /\ free' = IF recycles THEN [free EXCEPT ![k] = Append(free[k], b)] ELSE free
            /\ dec' = Awoken(k, recycles)
            /\ current' = [current EXCEPT ![k] = Head(ready[k])]
            /\ ready' = [ready EXCEPT ![k] = Tail(ready[k])]
            /\ player'.stopped = player.stopped /\ UNCHANGED source
        BY <1>1, VideoEffect
      <3> HIDE DEF recycles, b
      <3>2. free'[j] = free[j] /\ current'[j] = current[j] /\ ready'[j] = ready[j]
        BY <1>t, <2>2, <3>1
      <3>3. k \in Kinds /\ OthersStay(k)
        BY <3>1, AwokenStirs DEF Kinds
      <3>4. dec'[j] = dec[j]
        BY <2>2, <3>3 DEF OthersStay
      <3>5. Retired(j)' = Retired(j)
        BY <2>2 DEF Retired
      <3> QED
        BY <1>0, <3>1, <3>2, <3>4, <3>5, BuffersStay
    <2> QED
      BY <2>1, <2>2
  <1>2. CASE Audio
    <2>1. CASE j = "audio"
      BY <1>2, <2>1, AudioBuffersMove
    <2>2. CASE j # "audio"
      <3> DEFINE k == "audio"
                 recycles == current[k] # NoFrame
                 b == current[k].buf
      <3>1. /\ free' = IF recycles THEN [free EXCEPT ![k] = Append(free[k], b)] ELSE free
            /\ dec' = Awoken(k, recycles)
            /\ current' = [current EXCEPT ![k] = Head(ready[k])]
            /\ ready' = [ready EXCEPT ![k] = Tail(ready[k])]
            /\ player'.stopped = player.stopped /\ source' = source /\ retired' = retired
        BY <1>2, AudioEffect
      <3> HIDE DEF recycles, b
      <3>2. free'[j] = free[j] /\ current'[j] = current[j] /\ ready'[j] = ready[j]
        BY <1>t, <2>2, <3>1
      <3>3. k \in Kinds /\ OthersStay(k)
        BY <3>1, AwokenStirs DEF Kinds
      <3>4. dec'[j] = dec[j]
        BY <2>2, <3>3 DEF OthersStay
      <3>5. Retired(j)' = Retired(j)
        BY <3>1 DEF Retired
      <3> QED
        BY <1>0, <3>1, <3>2, <3>4, <3>5, BuffersStay
    <2> QED
      BY <2>1, <2>2
  <1>3. CASE \E pause \in BOOLEAN : PauseOrResume(pause)
    <2>1. PICK pause \in BOOLEAN : PauseOrResume(pause)
      BY <1>3
    <2> QED
      BY <1>0, <2>1, PauseEffect, BuffersStay DEF Retired
  <1> QED
    BY <1>1, <1>2, <1>3
-----------------------------------------------------------------------------
(* The frames on their way.                                                *)

\* The times of the items of q that are of S, with v the time of each; in order;
\* those of A before those of B.
TimesIn(q, S, v) == {v[q[i]] : i \in {j \in DOMAIN q : q[j] \in S}}
AscendIn(q, S, v) == \A i, j \in DOMAIN q : q[i] \in S /\ q[j] \in S /\ i < j => v[q[i]] < v[q[j]]
Under(A, B) == \A x \in A, y \in B : x < y

\* The times of a list that grows, shrinks or is empty.
LEMMA TimesAppend ==
    ASSUME NEW T, NEW q \in Seq(T), NEW x \in T, NEW S, NEW v
    PROVE  /\ TimesIn(Append(q, x), S, v) = TimesIn(q, S, v) \cup (IF x \in S THEN {v[x]} ELSE {})
           /\ AscendIn(q, S, v) /\ (x \in S => Under(TimesIn(q, S, v), {v[x]}))
                 => AscendIn(Append(q, x), S, v)
  <1> DEFINE a == Append(q, x)
             n == Len(q)
  <1>1. /\ a \in Seq(T) /\ Len(a) = n + 1 /\ a[n + 1] = x /\ \A i \in 1 .. n : a[i] = q[i]
    BY AppendProperties
  <1>2. n \in Nat /\ DOMAIN q = 1 .. n /\ DOMAIN a = 1 .. n + 1
    BY <1>1, LenProperties
  <1> HIDE DEF a, n
  <1>3. ASSUME NEW y \in TimesIn(a, S, v) PROVE y \in TimesIn(q, S, v) \cup (IF x \in S THEN {v[x]} ELSE {})
    <2>1. PICK i \in 1 .. n + 1 : a[i] \in S /\ y = v[a[i]]
      BY <1>2 DEF TimesIn
    <2>2. CASE i = n + 1
      BY <1>1, <2>1, <2>2
    <2>3. CASE i # n + 1
      <3>1. i \in 1 .. n
        BY <1>2, <2>3
      <3> QED
        BY <1>1, <1>2, <2>1, <3>1 DEF TimesIn
    <2> QED
      BY <2>2, <2>3
  <1>4. ASSUME NEW y \in TimesIn(q, S, v) PROVE y \in TimesIn(a, S, v)
    <2>1. PICK i \in 1 .. n : q[i] \in S /\ y = v[q[i]]
      BY <1>2 DEF TimesIn
    <2>2. i \in 1 .. n + 1 /\ a[i] = q[i]
      BY <1>1, <1>2
    <2> QED
      BY <1>2, <2>1, <2>2 DEF TimesIn
  <1>5. x \in S => v[x] \in TimesIn(a, S, v)
    <2>1. n + 1 \in DOMAIN a
      BY <1>2
    <2> QED
      BY <1>1, <2>1 DEF TimesIn
  <1>6. ASSUME AscendIn(q, S, v), x \in S => Under(TimesIn(q, S, v), {v[x]}),
               NEW i \in 1 .. n + 1, NEW j \in 1 .. n + 1, a[i] \in S, a[j] \in S, i < j
        PROVE  v[a[i]] < v[a[j]]
    <2>1. i \in 1 .. n /\ a[i] = q[i]
      BY <1>1, <1>2, <1>6
    <2>2. CASE j = n + 1
      <3>1. v[q[i]] \in TimesIn(q, S, v)
        BY <1>2, <1>6, <2>1 DEF TimesIn
      <3> QED
        BY <1>1, <1>6, <2>1, <2>2, <3>1 DEF Under
    <2>3. CASE j # n + 1
      <3>1. j \in 1 .. n /\ a[j] = q[j]
        BY <1>1, <1>2, <2>3
      <3> QED
        BY <1>2, <1>6, <2>1, <3>1 DEF AscendIn
    <2> QED
      BY <2>2, <2>3
  <1>7. /\ TimesIn(a, S, v) = TimesIn(q, S, v) \cup (IF x \in S THEN {v[x]} ELSE {})
        /\ AscendIn(q, S, v) /\ (x \in S => Under(TimesIn(q, S, v), {v[x]})) => AscendIn(a, S, v)
    <2>1. TimesIn(a, S, v) = TimesIn(q, S, v) \cup (IF x \in S THEN {v[x]} ELSE {})
      BY <1>3, <1>4, <1>5
    <2>2. AscendIn(q, S, v) /\ (x \in S => Under(TimesIn(q, S, v), {v[x]})) => AscendIn(a, S, v)
      BY <1>2, <1>6 DEF AscendIn
    <2> QED
      BY <2>1, <2>2
  <1> QED
    BY <1>7 DEF a

LEMMA TimesTail ==
    ASSUME NEW T, NEW q \in Seq(T), q # <<>>, NEW S, NEW v
    PROVE  /\ TimesIn(q, S, v) = TimesIn(Tail(q), S, v) \cup (IF Head(q) \in S THEN {v[Head(q)]} ELSE {})
           /\ AscendIn(q, S, v) => /\ AscendIn(Tail(q), S, v)
                                   /\ Head(q) \in S => Under({v[Head(q)]}, TimesIn(Tail(q), S, v))
  <1> DEFINE a == Tail(q)
             n == Len(q)
             x == Head(q)
  <1>0. n \in Nat /\ n # 0 /\ DOMAIN q = 1 .. n
    BY LenProperties, EmptySeq
  <1>1. /\ a \in Seq(T) /\ Len(a) = n - 1 /\ x = q[1] /\ \A i \in 1 .. n - 1 : a[i] = q[i + 1]
    BY HeadTailProperties
  <1>2. DOMAIN a = 1 .. n - 1
    BY <1>1, LenProperties
  <1> HIDE DEF a, n, x
  <1>3. ASSUME NEW y \in TimesIn(q, S, v) PROVE y \in TimesIn(a, S, v) \cup (IF x \in S THEN {v[x]} ELSE {})
    <2>1. PICK i \in 1 .. n : q[i] \in S /\ y = v[q[i]]
      BY <1>0 DEF TimesIn
    <2>2. CASE i = 1
      BY <1>1, <2>1, <2>2
    <2>3. CASE i # 1
      <3>1. i - 1 \in 1 .. n - 1 /\ (i - 1) + 1 = i
        BY <1>0, <2>3
      <3>2. a[i - 1] = q[i]
        BY <1>1, <3>1
      <3> QED
        BY <1>2, <2>1, <3>1, <3>2 DEF TimesIn
    <2> QED
      BY <2>2, <2>3
  <1>4. ASSUME NEW y \in TimesIn(a, S, v) PROVE y \in TimesIn(q, S, v)
    <2>1. PICK i \in 1 .. n - 1 : a[i] \in S /\ y = v[a[i]]
      BY <1>2 DEF TimesIn
    <2>2. i + 1 \in 1 .. n /\ a[i] = q[i + 1]
      BY <1>0, <1>1
    <2> QED
      BY <1>0, <2>1, <2>2 DEF TimesIn
  <1>5. x \in S => v[x] \in TimesIn(q, S, v)
    <2>1. 1 \in DOMAIN q
      BY <1>0
    <2> QED
      BY <1>1, <2>1 DEF TimesIn
  <1>6. ASSUME AscendIn(q, S, v), NEW i \in 1 .. n - 1, NEW j \in 1 .. n - 1, a[i] \in S, a[j] \in S, i < j
        PROVE  v[a[i]] < v[a[j]]
    <2>1. i + 1 \in 1 .. n /\ j + 1 \in 1 .. n /\ i + 1 < j + 1 /\ a[i] = q[i + 1] /\ a[j] = q[j + 1]
      BY <1>0, <1>1, <1>6
    <2> QED
      BY <1>0, <1>6, <2>1 DEF AscendIn
  <1>7. ASSUME AscendIn(q, S, v), x \in S, NEW y \in TimesIn(a, S, v) PROVE v[x] < y
    <2>1. PICK i \in 1 .. n - 1 : a[i] \in S /\ y = v[a[i]]
      BY <1>2 DEF TimesIn
    <2>2. i + 1 \in 1 .. n /\ 1 \in 1 .. n /\ 1 < i + 1 /\ a[i] = q[i + 1]
      BY <1>0, <1>1
    <2> QED
      BY <1>0, <1>1, <1>7, <2>1, <2>2 DEF AscendIn
  <1>8. /\ TimesIn(q, S, v) = TimesIn(a, S, v) \cup (IF x \in S THEN {v[x]} ELSE {})
        /\ AscendIn(q, S, v) => /\ AscendIn(a, S, v)
                                /\ x \in S => Under({v[x]}, TimesIn(a, S, v))
    <2>1. TimesIn(q, S, v) = TimesIn(a, S, v) \cup (IF x \in S THEN {v[x]} ELSE {})
      BY <1>3, <1>4, <1>5
    <2>2. AscendIn(q, S, v) => AscendIn(a, S, v)
      BY <1>2, <1>6 DEF AscendIn
    <2>3. AscendIn(q, S, v) /\ x \in S => Under({v[x]}, TimesIn(a, S, v))
      BY <1>7 DEF Under
    <2> QED
      BY <2>1, <2>2, <2>3
  <1> QED
    BY <1>8 DEF a, x

LEMMA NoTimes ==
    ASSUME NEW S, NEW v
    PROVE  TimesIn(<<>>, S, v) = {} /\ AscendIn(<<>>, S, v)
  BY DEF TimesIn, AscendIn

\* The frames on their way: of those ready, in the codec, in the packet queue and at
\* the demuxer each is before those that follow.
FrameTime == [f \in FrameType |-> f.ts]
NumberTime == [n \in Nat |-> n]
Shown == {item \in ItemType : ~item.flush}
ItemTime == [item \in ItemType |-> item.ts]
ReadOf(k) == {r \in ReadType : r.kind = k /\ ~r.item.flush}
ReadTime == [r \in ReadType |-> r.item.ts]
InChain(R, C, P, D) ==
    Under(R, C) /\ Under(R, P) /\ Under(R, D) /\ Under(C, P) /\ Under(C, D) /\ Under(P, D)
WayIs(k, r, c, p, d, all) ==
    LET R == TimesIn(r, FrameType, FrameTime)
        C == TimesIn(c, Nat, NumberTime)
        P == TimesIn(p, Shown, ItemTime)
        D == TimesIn(d, ReadOf(k), ReadTime)
    IN  /\ AscendIn(r, FrameType, FrameTime) /\ AscendIn(c, Nat, NumberTime)
        /\ AscendIn(p, Shown, ItemTime) /\ AscendIn(d, ReadOf(k), ReadTime)
        /\ InChain(R, C, P, D) /\ R \cup C \cup P \cup D = all

\* Nothing is on its way; what is read follows; what is pushed, popped or written goes
\* one stage on; what the guest takes was the first.
LEMMA WayEmpty ==
    ASSUME NEW k
    PROVE  WayIs(k, <<>>, <<>>, <<>>, <<>>, {})
  BY NoTimes DEF WayIs, InChain, Under

LEMMA WayReads ==
    ASSUME NEW k, NEW r, NEW c, NEW p, NEW all, NEW x \in ReadType, ~x.item.flush,
           WayIs(k, r, c, p, <<>>, all), \A t \in all : t < x.item.ts
    PROVE  WayIs(k, r, c, p, <<x>>, all \cup (IF x.kind = k THEN {x.item.ts} ELSE {}))
  <1>1. <<x>> = Append(<<>>, x) /\ <<>> \in Seq(ReadType)
    OBVIOUS
  <1> DEFINE R == TimesIn(r, FrameType, FrameTime)
             C == TimesIn(c, Nat, NumberTime)
             P == TimesIn(p, Shown, ItemTime)
             D == TimesIn(<<x>>, ReadOf(k), ReadTime)
             Z == TimesIn(<<>>, ReadOf(k), ReadTime)
  <1>2. Z = {} /\ AscendIn(<<>>, ReadOf(k), ReadTime)
    BY NoTimes
  <1>3. ReadTime[x] = x.item.ts /\ (x \in ReadOf(k) <=> x.kind = k)
    BY DEF ReadTime, ReadOf
  <1>4. /\ D = Z \cup (IF x \in ReadOf(k) THEN {ReadTime[x]} ELSE {})
        /\ AscendIn(<<>>, ReadOf(k), ReadTime) /\ (x \in ReadOf(k) => Under(Z, {ReadTime[x]}))
              => AscendIn(<<x>>, ReadOf(k), ReadTime)
    <2> DEFINE e == <<>>
    <2>1. e \in Seq(ReadType) /\ <<x>> = Append(e, x)
      BY <1>1
    <2> HIDE DEF e
    <2>2. /\ TimesIn(Append(e, x), ReadOf(k), ReadTime) =
                TimesIn(e, ReadOf(k), ReadTime) \cup (IF x \in ReadOf(k) THEN {ReadTime[x]} ELSE {})
          /\ AscendIn(e, ReadOf(k), ReadTime)
                /\ (x \in ReadOf(k) => Under(TimesIn(e, ReadOf(k), ReadTime), {ReadTime[x]}))
                   => AscendIn(Append(e, x), ReadOf(k), ReadTime)
      BY <2>1, TimesAppend
    <2> QED
      BY <2>1, <2>2, Zenon DEF e
  <1>5. AscendIn(<<x>>, ReadOf(k), ReadTime)
    BY <1>2, <1>4 DEF Under
  <1>6. D = IF x.kind = k THEN {x.item.ts} ELSE {}
    BY <1>2, <1>3, <1>4
  <1>7. /\ AscendIn(r, FrameType, FrameTime) /\ AscendIn(c, Nat, NumberTime)
        /\ AscendIn(p, Shown, ItemTime)
        /\ InChain(R, C, P, Z) /\ R \cup C \cup P \cup Z = all
    BY DEF WayIs
  <1> HIDE DEF R, C, P, D, Z
  <1>8. InChain(R, C, P, D) /\ R \cup C \cup P \cup D = all \cup (IF x.kind = k THEN {x.item.ts} ELSE {})
    BY <1>2, <1>6, <1>7 DEF InChain, Under
  <1> QED
    BY <1>5, <1>7, <1>8 DEF WayIs, R, C, P, D

LEMMA WayPushes ==
    ASSUME NEW k, NEW r, NEW c, NEW p \in Seq(ItemType), NEW d \in Seq(ReadType), d # <<>>, NEW all,
           Head(d).kind = k, WayIs(k, r, c, p, d, all)
    PROVE  WayIs(k, r, c, Append(p, Head(d).item), Tail(d), all)
  <1> DEFINE x == Head(d)
             R == TimesIn(r, FrameType, FrameTime)
             C == TimesIn(c, Nat, NumberTime)
             P == TimesIn(p, Shown, ItemTime)
             P2 == TimesIn(Append(p, x.item), Shown, ItemTime)
             D == TimesIn(d, ReadOf(k), ReadTime)
             D2 == TimesIn(Tail(d), ReadOf(k), ReadTime)
  <1>1. x \in ReadType /\ x.item \in ItemType
    <2>1. x \in ReadType
      BY ListFields
    <2> QED
      BY <2>1 DEF ReadType
  <1>2. ReadTime[x] = x.item.ts /\ ItemTime[x.item] = x.item.ts
        /\ (x \in ReadOf(k) <=> ~x.item.flush) /\ (x.item \in Shown <=> ~x.item.flush)
    BY <1>1 DEF ReadTime, ReadOf, ItemTime, Shown
  <1>3. /\ D = D2 \cup (IF x \in ReadOf(k) THEN {ReadTime[x]} ELSE {})
        /\ AscendIn(d, ReadOf(k), ReadTime) =>
              /\ AscendIn(Tail(d), ReadOf(k), ReadTime)
              /\ x \in ReadOf(k) => Under({ReadTime[x]}, D2)
    BY TimesTail
  <1>4. /\ P2 = P \cup (IF x.item \in Shown THEN {ItemTime[x.item]} ELSE {})
        /\ AscendIn(p, Shown, ItemTime) /\ (x.item \in Shown => Under(P, {ItemTime[x.item]}))
              => AscendIn(Append(p, x.item), Shown, ItemTime)
    BY <1>1, TimesAppend
  <1>5. /\ AscendIn(r, FrameType, FrameTime) /\ AscendIn(c, Nat, NumberTime)
        /\ AscendIn(p, Shown, ItemTime) /\ AscendIn(d, ReadOf(k), ReadTime)
        /\ InChain(R, C, P, D) /\ R \cup C \cup P \cup D = all
    BY DEF WayIs
  <1> DEFINE X == IF ~x.item.flush THEN {x.item.ts} ELSE {}
  <1>6. D = D2 \cup X /\ P2 = P \cup X /\ AscendIn(Tail(d), ReadOf(k), ReadTime) /\ Under(X, D2)
    BY <1>2, <1>3, <1>4, <1>5 DEF Under
  <1>7. AscendIn(Append(p, x.item), Shown, ItemTime)
    <2>1. x.item \in Shown => Under(P, {ItemTime[x.item]})
      <3> HIDE DEF P, D, D2
      <3> QED
        BY <1>2, <1>3, <1>5 DEF InChain, Under
    <2> QED
      BY <1>4, <1>5, <2>1
  <1> HIDE DEF R, C, P, P2, D, D2, X
  <1>8. InChain(R, C, P2, D2) /\ R \cup C \cup P2 \cup D2 = all
    BY <1>5, <1>6 DEF InChain, Under
  <1> QED
    BY <1>5, <1>6, <1>7, <1>8 DEF WayIs, R, C, P2, D2, x

\* What is pushed to the other stream is not of this one.
LEMMA WayPasses ==
    ASSUME NEW k, NEW r, NEW c, NEW p, NEW d \in Seq(ReadType), d # <<>>, NEW all,
           Head(d).kind # k, WayIs(k, r, c, p, d, all)
    PROVE  WayIs(k, r, c, p, Tail(d), all)
  <1>1. Head(d) \notin ReadOf(k)
    BY DEF ReadOf
  <1> DEFINE S == ReadOf(k)
             v == ReadTime
  <1>3. /\ TimesIn(d, S, v) = TimesIn(Tail(d), S, v) \cup (IF Head(d) \in S THEN {v[Head(d)]} ELSE {})
        /\ AscendIn(d, S, v) => AscendIn(Tail(d), S, v)
    <2> HIDE DEF S, v
    <2> QED
      BY TimesTail
  <1>2. /\ TimesIn(d, ReadOf(k), ReadTime) = TimesIn(Tail(d), ReadOf(k), ReadTime)
        /\ AscendIn(d, ReadOf(k), ReadTime) => AscendIn(Tail(d), ReadOf(k), ReadTime)
    BY <1>1, <1>3
  <1> QED
    BY <1>2 DEF WayIs

LEMMA WayPops ==
    ASSUME NEW k, NEW r, NEW c \in Seq(Nat), NEW p \in Seq(ItemType), p # <<>>, NEW d, NEW all,
           WayIs(k, r, c, p, d, all)
    PROVE  WayIs(k, r, IF Head(p).flush THEN c ELSE Append(c, Head(p).ts), Tail(p), d, all)
  <1> DEFINE x == Head(p)
             c2 == IF x.flush THEN c ELSE Append(c, x.ts)
             R == TimesIn(r, FrameType, FrameTime)
             C == TimesIn(c, Nat, NumberTime)
             C2 == TimesIn(c2, Nat, NumberTime)
             P == TimesIn(p, Shown, ItemTime)
             P2 == TimesIn(Tail(p), Shown, ItemTime)
             D == TimesIn(d, ReadOf(k), ReadTime)
             X == IF ~x.flush THEN {x.ts} ELSE {}
  <1>1. x \in ItemType /\ x.ts \in Nat
    <2>1. x \in ItemType
      BY ListFields
    <2> QED
      BY <2>1 DEF ItemType
  <1>2. ItemTime[x] = x.ts /\ NumberTime[x.ts] = x.ts /\ (x \in Shown <=> ~x.flush)
    BY <1>1 DEF ItemTime, NumberTime, Shown
  <1>3. /\ P = P2 \cup (IF x \in Shown THEN {ItemTime[x]} ELSE {})
        /\ AscendIn(p, Shown, ItemTime) =>
              /\ AscendIn(Tail(p), Shown, ItemTime)
              /\ x \in Shown => Under({ItemTime[x]}, P2)
    BY TimesTail
  <1>5. /\ AscendIn(r, FrameType, FrameTime) /\ AscendIn(c, Nat, NumberTime)
        /\ AscendIn(p, Shown, ItemTime) /\ AscendIn(d, ReadOf(k), ReadTime)
        /\ InChain(R, C, P, D) /\ R \cup C \cup P \cup D = all
    BY DEF WayIs
  <1>4. C2 = C \cup X /\ AscendIn(c2, Nat, NumberTime)
    <2>1. CASE x.flush
      BY <1>5, <2>1
    <2>2. CASE ~x.flush
      <3>1. Under(C, {NumberTime[x.ts]})
        <4> HIDE DEF C, P, P2
        <4> QED
          BY <1>2, <1>3, <1>5, <2>2 DEF InChain, Under
      <3>2. /\ TimesIn(Append(c, x.ts), Nat, NumberTime) = C \cup {NumberTime[x.ts]}
            /\ AscendIn(Append(c, x.ts), Nat, NumberTime)
        <4> DEFINE n == x.ts
                   v == NumberTime
        <4>1. n \in Nat /\ AscendIn(c, Nat, v) /\ Under(TimesIn(c, Nat, v), {v[n]})
          BY <1>1, <1>5, <3>1
        <4> HIDE DEF n, v
        <4>2. /\ TimesIn(Append(c, n), Nat, v) = TimesIn(c, Nat, v) \cup {v[n]}
              /\ AscendIn(Append(c, n), Nat, v)
          BY <4>1, TimesAppend
        <4> QED
          BY <4>2 DEF n, v
      <3> QED
        BY <1>2, <2>2, <3>2
    <2> QED
      BY <2>1, <2>2
  <1>6. P = P2 \cup X /\ AscendIn(Tail(p), Shown, ItemTime) /\ Under(X, P2)
    BY <1>2, <1>3, <1>5 DEF Under
  <1> HIDE DEF R, C, C2, P, P2, D, X, c2
  <1>8. InChain(R, C2, P2, D) /\ R \cup C2 \cup P2 \cup D = all
    BY <1>4, <1>5, <1>6 DEF InChain, Under
  <1>9. WayIs(k, r, c2, Tail(p), d, all)
    BY <1>4, <1>5, <1>6, <1>8 DEF WayIs, R, C2, P2, D
  <1> QED
    BY <1>9 DEF c2, x

LEMMA WayWrites ==
    ASSUME NEW k, NEW r \in Seq(FrameType), NEW c \in Seq(Nat), c # <<>>, NEW p, NEW d, NEW all,
           NEW x \in FrameType, x.ts = Head(c), WayIs(k, r, c, p, d, all)
    PROVE  WayIs(k, Append(r, x), Tail(c), p, d, all)
  <1> DEFINE n == Head(c)
             R == TimesIn(r, FrameType, FrameTime)
             R2 == TimesIn(Append(r, x), FrameType, FrameTime)
             C == TimesIn(c, Nat, NumberTime)
             C2 == TimesIn(Tail(c), Nat, NumberTime)
             P == TimesIn(p, Shown, ItemTime)
             D == TimesIn(d, ReadOf(k), ReadTime)
  <1>1. n \in Nat
    BY ListFields
  <1>2. FrameTime[x] = n /\ NumberTime[n] = n
    BY <1>1 DEF FrameTime, NumberTime
  <1>3. /\ C = C2 \cup {NumberTime[n]}
        /\ AscendIn(c, Nat, NumberTime) => AscendIn(Tail(c), Nat, NumberTime) /\ Under({NumberTime[n]}, C2)
    BY <1>1, TimesTail
  <1>5. /\ AscendIn(r, FrameType, FrameTime) /\ AscendIn(c, Nat, NumberTime)
        /\ AscendIn(p, Shown, ItemTime) /\ AscendIn(d, ReadOf(k), ReadTime)
        /\ InChain(R, C, P, D) /\ R \cup C \cup P \cup D = all
    BY DEF WayIs
  <1>4. /\ R2 = R \cup {FrameTime[x]}
        /\ AscendIn(r, FrameType, FrameTime) /\ Under(R, {FrameTime[x]})
              => AscendIn(Append(r, x), FrameType, FrameTime)
    BY TimesAppend
  <1> HIDE DEF R, R2, C, C2, P, D, n
  <1>6. Under(R, {FrameTime[x]})
    BY <1>2, <1>3, <1>5 DEF InChain, Under
  <1>8. InChain(R2, C2, P, D) /\ R2 \cup C2 \cup P \cup D = all
    BY <1>2, <1>3, <1>4, <1>5 DEF InChain, Under
  <1> QED
    BY <1>3, <1>4, <1>5, <1>6, <1>8 DEF WayIs, R2, C2, P, D

LEMMA WayShows ==
    ASSUME NEW k, NEW r \in Seq(FrameType), r # <<>>, NEW c, NEW p, NEW d, NEW all, all \subseteq Int,
           WayIs(k, r, c, p, d, all)
    PROVE  /\ Head(r).ts \in all
           /\ WayIs(k, Tail(r), c, p, d, {t \in all : Head(r).ts < t})
  <1> DEFINE x == Head(r)
             n == x.ts
             R == TimesIn(r, FrameType, FrameTime)
             R2 == TimesIn(Tail(r), FrameType, FrameTime)
             C == TimesIn(c, Nat, NumberTime)
             P == TimesIn(p, Shown, ItemTime)
             D == TimesIn(d, ReadOf(k), ReadTime)
  <1>1. x \in FrameType
    BY ListFields
  <1>2. FrameTime[x] = n
    BY <1>1 DEF FrameTime
  <1>3. /\ R = R2 \cup {FrameTime[x]}
        /\ AscendIn(r, FrameType, FrameTime) =>
              AscendIn(Tail(r), FrameType, FrameTime) /\ Under({FrameTime[x]}, R2)
    BY <1>1, TimesTail
  <1>5. /\ AscendIn(r, FrameType, FrameTime) /\ AscendIn(c, Nat, NumberTime)
        /\ AscendIn(p, Shown, ItemTime) /\ AscendIn(d, ReadOf(k), ReadTime)
        /\ InChain(R, C, P, D) /\ R \cup C \cup P \cup D = all
    BY DEF WayIs
  <1>n. n \in all
    <2> HIDE DEF R, R2, C, P, D, n
    <2> QED
      BY <1>2, <1>3, <1>5
  <1> HIDE DEF R, R2, C, P, D, n
  <1>8. InChain(R2, C, P, D)
    BY <1>3, <1>5 DEF InChain, Under
  <1>9. R2 \cup C \cup P \cup D = {t \in all : n < t}
    <2>1. \A t \in R2 \cup C \cup P \cup D : t \in all /\ n < t
      BY <1>2, <1>3, <1>5 DEF InChain, Under
    <2>2. \A t \in all : n < t => t \in R2 \cup C \cup P \cup D
      <3>1. ~(n < n)
        BY <1>n
      <3> QED
        BY <1>2, <1>3, <1>5, <3>1
    <2> QED
      BY <2>1, <2>2
  <1>10. WayIs(k, Tail(r), c, p, d, {t \in all : n < t})
    BY <1>3, <1>5, <1>8, <1>9 DEF WayIs, R2, C, P, D
  <1> QED
    BY <1>n, <1>10 DEF n, x

LEMMA WayTold ==
    ASSUME NEW k, NEW r, NEW c, NEW p, NEW d, NEW all, WayIs(k, r, c, p, <<>>, all),
           \A i \in DOMAIN d : d[i].item.flush
    PROVE  WayIs(k, r, c, p, d, all)
  <1>1. \A i \in DOMAIN d : d[i] \notin ReadOf(k)
    BY DEF ReadOf
  <1>2. TimesIn(d, ReadOf(k), ReadTime) = {} /\ AscendIn(d, ReadOf(k), ReadTime)
    BY <1>1 DEF TimesIn, AscendIn
  <1> QED
    BY <1>2, NoTimes DEF WayIs

\* A time says at which place of which round its frame is.
LEMMA PlaceUnique ==
    ASSUME NEW n \in Nat, NEW a \in 0 .. n - 1, NEW c \in 0 .. n - 1, NEW b \in Nat, NEW d \in Nat,
           a + b * n = c + d * n
    PROVE  a = c /\ b = d
  <1> DEFINE x == b * n
             y == d * n
  <1>1. x \in Nat /\ y \in Nat /\ a + x = c + y
    OBVIOUS
  <1>2. ASSUME b < d PROVE FALSE
    <2>1. PICK e \in Nat : d = b + 1 + e
      <3>1. d - b - 1 \in Nat /\ d = b + 1 + (d - b - 1)
        BY <1>2
      <3> QED
        BY <3>1
    <2>2. e * n \in Nat /\ y = x + n + e * n
      BY <2>1
    <2> HIDE DEF x, y
    <2> QED
      BY <1>1, <2>2
  <1>3. ASSUME d < b PROVE FALSE
    <2>1. PICK e \in Nat : b = d + 1 + e
      <3>1. b - d - 1 \in Nat /\ b = d + 1 + (b - d - 1)
        BY <1>3
      <3> QED
        BY <3>1
    <2>2. e * n \in Nat /\ x = y + n + e * n
      BY <2>1
    <2> HIDE DEF x, y
    <2> QED
      BY <1>1, <2>2
  <1>4. b = d
    BY <1>2, <1>3
  <1> QED
    BY <1>1, <1>4

\* Where the demuxer reads, as a time; and what comes to the frames before it.
LEMMA UpToNat ==
    ASSUME AvPlayerAssumption, PlayTypeOK
    PROVE  UpTo \in Nat
  <1>1. demux.pos \in Nat /\ demux.round \in Nat /\ Size \in Nat
    BY Fields, SourceFacts
  <1> HIDE DEF Size
  <1> QED
    BY <1>1 DEF UpTo

\* The frames up to a time, and the one that is read next.
LEMMA FrameNat ==
    ASSUME AvPlayerAssumption, PlayTypeOK, NEW k
    PROVE  Frames(k) \subseteq Nat
  <1>1. Size \in Nat /\ source.rounds \in Nat
    BY SourceFacts
  <1> HIDE DEF Size
  <1>2. \A p \in 0 .. Size - 1, r \in 0 .. source.rounds : p + r * Size \in Nat
    BY <1>1
  <1> QED
    BY <1>2 DEF Frames

LEMMA NextFrame ==
    ASSUME AvPlayerAssumption, PlayTypeOK, NEW k, demux.pos < Size, demux.round <= source.rounds
    PROVE  UpTo \in Frames(k) <=> source.file[demux.pos + 1] = k
  <1>1. Size \in Nat /\ source.rounds \in Nat /\ demux.pos \in Nat /\ demux.round \in Nat
    BY Fields, SourceFacts
  <1> HIDE DEF Size
  <1>2. demux.pos \in 0 .. Size - 1 /\ demux.round \in 0 .. source.rounds
    BY <1>1
  <1>3. ASSUME source.file[demux.pos + 1] = k PROVE UpTo \in Frames(k)
    BY <1>2, <1>3 DEF UpTo, Frames
  <1>4. ASSUME UpTo \in Frames(k) PROVE source.file[demux.pos + 1] = k
    <2>1. PICK p \in {q \in 0 .. Size - 1 : source.file[q + 1] = k}, r \in 0 .. source.rounds :
             UpTo = p + r * Size
      BY <1>4 DEF Frames
    <2>2. p \in 0 .. Size - 1 /\ r \in Nat /\ demux.pos + demux.round * Size = p + r * Size
      BY <1>1, <2>1 DEF UpTo
    <2>3. p = demux.pos
      BY <1>1, <1>2, <2>2, PlaceUnique
    <2> QED
      BY <2>1, <2>3
  <1> QED
    BY <1>3, <1>4

LEMMA FramesOfNext ==
    ASSUME AvPlayerAssumption, PlayTypeOK, NEW k, demux.pos < Size, demux.round <= source.rounds,
           NEW g \in Int, g < UpTo
    PROVE  FramesOf(k, g, UpTo + 1) =
              FramesOf(k, g, UpTo) \cup (IF source.file[demux.pos + 1] = k THEN {UpTo} ELSE {})
  <1> DEFINE F == Frames(k)
             u == UpTo
  <1>1. u \in Nat /\ F \subseteq Nat /\ (u \in F <=> source.file[demux.pos + 1] = k)
    BY UpToNat, FrameNat, NextFrame
  <1> HIDE DEF F, u
  <1>2. {t \in F : g < t /\ t < u + 1} = {t \in F : g < t /\ t < u} \cup (IF u \in F THEN {u} ELSE {})
    <2>1. g < u
      BY DEF u
    <2>2. \A t \in F : t < u + 1 <=> t < u \/ t = u
      BY <1>1
    <2> QED
      BY <2>1, <2>2
  <1>3. FramesOf(k, g, u + 1) = FramesOf(k, g, u) \cup (IF u \in F THEN {u} ELSE {})
    BY <1>2 DEF FramesOf, F
  <1> QED
    BY <1>1, <1>3 DEF u
-----------------------------------------------------------------------------
\* While nothing fails, the frames between the last one that was handed out and the
\* place where the demuxer reads are on their way.
Going == Playing /\ ~player.stop
WayOf(k) ==
    /\ WayIs(k, ready[k], dec[k].codec, packets[k], demux.todo, FramesOf(k, given[k], UpTo))
    /\ given[k] < UpTo
WayInv == Going => \A k \in On : WayOf(k)

\* The source stays.
LEMMA SameSource ==
    ASSUME source' = source
    PROVE  /\ On' = On /\ Size' = Size
           /\ \A k, a, b : FramesOf(k, a, b)' = FramesOf(k, a, b)
  BY DEF On, Size, FramesOf, Frames

\* Nothing on the way of a stream moves.
LEMMA WayStays ==
    ASSUME NEW k, WayOf(k), source' = source, ready'[k] = ready[k], dec'[k].codec = dec[k].codec,
           packets'[k] = packets[k], demux'.todo = demux.todo, given'[k] = given[k], UpTo' = UpTo
    PROVE  WayOf(k)'
  BY SameSource DEF WayOf, WayIs

LEMMA PlaceStays ==
    ASSUME source' = source, DemuxPlace
    PROVE  UpTo' = UpTo
  BY SameSource DEF UpTo, DemuxPlace

\* WayInv is kept by every step.
LEMMA DemuxWay ==
    ASSUME AvPlayerAssumption, PlayTypeOK, Shape, WayInv, Demux \/ ReadFails
    PROVE  WayInv'
  <1> SUFFICES ASSUME Going', NEW k \in On' PROVE WayOf(k)'
    BY DEF WayInv
  <1>t. /\ UpTo \in Nat /\ demux.pos \in Nat /\ demux.round \in Nat /\ Size \in Nat
        /\ \A j \in Kinds : given[j] \in Int
    BY UpToNat, Fields, SourceFacts
  <1>r. demux.round <= source.rounds
    BY DEF Shape, DemuxShape
  <1>g. /\ \/ ctl' = ctl /\ player'.stopped = player.stopped /\ player'.stop = player.stop
           \/ player'.stop
        /\ source' = source
    <2>1. CASE Reads
      BY <2>1, ReadsEffect
    <2>2. CASE GoesRound
      BY <2>2, GoesRoundEffect
    <2>3. CASE DemuxReturns
      BY <2>3, DemuxReturnsEffect
    <2>4. CASE ReadFails
      BY <2>4, ReadFailsEffect
    <2>5. CASE Push
      BY <2>5, PushEffect
    <2>6. CASE DemuxSleeps
      BY <2>6, DemuxSleepsEffect
    <2> QED
      BY <2>1, <2>2, <2>3, <2>4, <2>5, <2>6 DEF Demux
  <1>0. ~player.stop /\ k \in On /\ k \in Kinds /\ WayOf(k)
    <2>1. k \in On
      BY <1>g, SameSource
    <2>2. Going
      BY <1>g DEF Going, Playing
    <2> QED
      BY <2>1, <2>2, SourceFacts DEF WayInv, Going
  <1>s. \A a, b : FramesOf(k, a, b)' = FramesOf(k, a, b)
    BY <1>g, SameSource
  <1>1. CASE Reads
    <2> DEFINE x == [kind |-> source.file[demux.pos + 1], item |-> Packet(UpTo)]
               all == FramesOf(k, given[k], UpTo)
    <2>1. /\ demux.todo = <<>> /\ demux.pos < Size /\ demux'.pos = demux.pos + 1
          /\ demux'.round = demux.round /\ demux'.todo = <<x>>
          /\ UNCHANGED <<dec, packets, ready, given>>
      BY <1>1, ReadsEffect
    <2>2. UpTo' = UpTo + 1
      <3>1. Size' = Size
        BY <1>g, SameSource
      <3> HIDE DEF Size
      <3> QED
        BY <1>t, <2>1, <3>1 DEF UpTo
    <2>3. x \in ReadType /\ ~x.item.flush /\ x.item.ts = UpTo /\ x.kind = source.file[demux.pos + 1]
      <3>1. demux.pos + 1 \in 1 .. Size
        BY <1>t, <2>1
      <3>2. source.file[demux.pos + 1] \in Kinds
        BY <3>1, SourceFacts
      <3> QED
        BY <1>t, <3>2 DEF ReadType, ItemType, Packet
    <2>4. WayIs(k, ready[k], dec[k].codec, packets[k], <<>>, all) /\ given[k] < UpTo
      BY <1>0, <2>1 DEF WayOf
    <2>5. \A t \in all : t < UpTo
      BY DEF FramesOf
    <2>6. FramesOf(k, given[k], UpTo + 1) = all \cup (IF x.kind = k THEN {x.item.ts} ELSE {})
      <3>1. FramesOf(k, given[k], UpTo + 1) =
               all \cup (IF source.file[demux.pos + 1] = k THEN {UpTo} ELSE {})
        BY <1>0, <1>r, <1>t, <2>1, <2>4, FramesOfNext
      <3> HIDE DEF x, all
      <3> QED
        BY <2>3, <3>1
    <2> HIDE DEF x, all
    <2>7. WayIs(k, ready[k], dec[k].codec, packets[k], <<x>>, FramesOf(k, given[k], UpTo + 1))
      <3>1. WayIs(k, ready[k], dec[k].codec, packets[k], <<x>>, all \cup (IF x.kind = k THEN {x.item.ts} ELSE {}))
        BY <2>3, <2>4, <2>5, WayReads
      <3> QED
        BY <2>6, <3>1
    <2>8. given[k] < UpTo + 1
      BY <1>0, <1>t, <2>4
    <2>9. FramesOf(k, given'[k], UpTo') = FramesOf(k, given[k], UpTo + 1)
      BY <2>1, <2>2
    <2>10. WayIs(k, ready'[k], dec'[k].codec, packets'[k], demux'.todo, FramesOf(k, given'[k], UpTo'))
      BY <2>1, <2>7, <2>9
    <2> QED
      BY <1>s, <2>1, <2>2, <2>8, <2>10 DEF WayOf, WayIs, FramesOf, Frames
  <1>2. CASE GoesRound
    <2>1. /\ demux.todo = <<>> /\ demux.pos = Size /\ demux'.pos = 0 /\ demux'.round = demux.round + 1
          /\ \A i \in DOMAIN demux'.todo : demux'.todo[i].item.flush
          /\ UNCHANGED <<dec, packets, ready, given>>
      BY <1>2, GoesRoundEffect
    <2>2. UpTo' = UpTo
      <3>1. Size' = Size
        BY <1>g, SameSource
      <3>2. UpTo' = 0 + (demux.round + 1) * Size /\ UpTo = Size + demux.round * Size
        BY <2>1, <3>1 DEF UpTo
      <3> HIDE DEF Size
      <3> QED
        BY <1>t, <3>2
    <2>3. WayIs(k, ready[k], dec[k].codec, packets[k], <<>>, FramesOf(k, given[k], UpTo)) /\ given[k] < UpTo
      BY <1>0, <2>1 DEF WayOf
    <2>4. WayIs(k, ready[k], dec[k].codec, packets[k], demux'.todo, FramesOf(k, given[k], UpTo))
      BY <2>1, <2>3, WayTold
    <2> QED
      BY <1>g, <2>1, <2>2, <2>3, <2>4, SameSource DEF WayOf, WayIs
  <1>3. CASE DemuxReturns
    <2>1. /\ demux'.todo = demux.todo /\ Stirred(dec[k], dec'[k]) /\ UNCHANGED <<ready, packets, given>>
          /\ DemuxPlace
      BY <1>0, <1>3, DemuxReturnsEffect
    <2> QED
      BY <1>0, <1>g, <2>1, PlaceStays, WayStays DEF Stirred
  <1>4. CASE ReadFails
    BY <1>4, ReadFailsEffect DEF Going
  <1>5. CASE Push
    <2> DEFINE h == Head(demux.todo).kind
               item == Head(demux.todo).item
               all == FramesOf(k, given[k], UpTo)
    <2>1. /\ demux.todo # <<>> /\ DemuxPlace /\ h \in Kinds /\ UNCHANGED <<ready, given>>
          /\ \/ /\ packets' = [packets EXCEPT ![h] = Append(packets[h], item)]
                /\ demux'.todo = Tail(demux.todo) /\ \A j \in Kinds : Stirred(dec[j], dec'[j])
             \/ packets' = packets /\ dec' = dec /\ demux'.todo = demux.todo
      BY <1>5, PushEffect
    <2>2. UpTo' = UpTo
      BY <1>g, <2>1, PlaceStays
    <2>3. CASE packets' = packets /\ dec' = dec /\ demux'.todo = demux.todo
      BY <1>0, <1>g, <2>1, <2>2, <2>3, WayStays
    <2>4. CASE /\ packets' = [packets EXCEPT ![h] = Append(packets[h], item)]
               /\ demux'.todo = Tail(demux.todo) /\ \A j \in Kinds : Stirred(dec[j], dec'[j])
      <3>t. demux.todo \in Seq(ReadType) /\ packets \in [Kinds -> Seq(ItemType)] /\ packets[k] \in Seq(ItemType)
        BY <1>0, Fields DEF PlayTypeOK
      <3>w. WayIs(k, ready[k], dec[k].codec, packets[k], demux.todo, all) /\ given[k] < UpTo
        BY <1>0 DEF WayOf
      <3>c. dec'[k].codec = dec[k].codec
        BY <1>0, <2>4 DEF Stirred
      <3> HIDE DEF all
      <3>1. WayIs(k, ready[k], dec[k].codec, packets'[k], Tail(demux.todo), all)
        <4>1. CASE h = k
          <5>1. packets'[k] = Append(packets[k], item)
            BY <1>0, <2>4, <3>t, <4>1
          <5>2. WayIs(k, ready[k], dec[k].codec, Append(packets[k], item), Tail(demux.todo), all)
            BY <2>1, <3>t, <3>w, <4>1, WayPushes
          <5> QED
            BY <5>1, <5>2
        <4>2. CASE h # k
          <5>1. packets'[k] = packets[k]
            BY <1>0, <2>4, <3>t, <4>2
          <5>2. WayIs(k, ready[k], dec[k].codec, packets[k], Tail(demux.todo), all)
            BY <2>1, <3>t, <3>w, <4>2, WayPasses
          <5> QED
            BY <5>1, <5>2
        <4> QED
          BY <4>1, <4>2
      <3> QED
        BY <1>g, <2>1, <2>2, <2>4, <3>1, <3>c, <3>w, SameSource DEF WayOf, WayIs, all
    <2> QED
      BY <2>1, <2>3, <2>4
  <1>6. CASE DemuxSleeps
    <2>1. demux'.todo = demux.todo /\ DemuxPlace /\ UNCHANGED <<dec, packets, ready, given>>
      BY <1>6, DemuxSleepsEffect
    <2> QED
      BY <1>0, <1>g, <2>1, PlaceStays, WayStays
  <1> QED
    BY <1>1, <1>2, <1>3, <1>4, <1>5, <1>6 DEF Demux

LEMMA DecodersWay ==
    ASSUME AvPlayerAssumption, PlayTypeOK, Shape, WayInv, NEW h \in Kinds, Decoder(h) \/ WriteFails(h)
    PROVE  WayInv'
  <1> SUFFICES ASSUME Going', NEW k \in On' PROVE WayOf(k)'
    BY DEF WayInv
  <1>g. /\ \/ ctl' = ctl /\ player'.stopped = player.stopped /\ player'.stop = player.stop
           \/ player'.stop
        /\ source' = source /\ given' = given
    <2>1. CASE Pop(h)
      BY <2>1, PopEffect
    <2>2. CASE Receive(h)
      BY <2>2, ReceiveEffect, DoneFields
    <2>3. CASE DecoderStops(h)
      BY <2>3, DecoderStopsEffect, DoneFields
    <2>4. CASE DecoderSleeps(h)
      BY <2>4, DecoderSleepsEffect
    <2>5. CASE Write(h)
      BY <2>5, WriteEffect
    <2>6. CASE WriteFails(h)
      BY <2>6, WriteFailsEffect, FailedFields
    <2> QED
      BY <2>1, <2>2, <2>3, <2>4, <2>5, <2>6 DEF Decoder
  <1>0. ~player.stop /\ k \in On /\ k \in Kinds /\ WayOf(k)
    <2>1. k \in On
      BY <1>g, SameSource
    <2>2. Going
      BY <1>g DEF Going, Playing
    <2> QED
      BY <2>1, <2>2, SourceFacts DEF WayInv, Going
  <1>t. /\ packets \in [Kinds -> Seq(ItemType)] /\ packets[h] \in Seq(ItemType)
        /\ ready \in [Kinds -> Seq(FrameType)] /\ ready[h] \in Seq(FrameType)
        /\ dec[h].codec \in Seq(Nat) /\ dec[h].buf \in Nat
    BY Fields DEF PlayTypeOK
  <1> DEFINE all == FramesOf(k, given[k], UpTo)
  <1>w. WayIs(k, ready[k], dec[k].codec, packets[k], demux.todo, all) /\ given[k] < UpTo
    BY <1>0 DEF WayOf
  <1> HIDE DEF all
  <1>1. CASE Pop(h)
    <2>1. demux'.todo = demux.todo /\ DemuxPlace /\ UNCHANGED ready
      BY <1>1, PopEffect
    <2>2. UpTo' = UpTo
      BY <1>g, <2>1, PlaceStays
    <2>3. CASE k # h
      <3>1. dec'[k] = dec[k] /\ packets'[k] = packets[k]
        BY <1>0, <1>1, <1>t, <2>3, PopEffect DEF OthersStay
      <3> QED
        BY <1>0, <1>g, <2>1, <2>2, <3>1, WayStays
    <2>4. CASE k = h /\ packets[h] # <<>>
      <3>1. /\ packets'[k] = Tail(packets[k])
            /\ dec'[k].codec = IF Head(packets[k]).flush THEN dec[k].codec
                               ELSE Append(dec[k].codec, Head(packets[k]).ts)
        BY <1>1, <1>t, <2>4, PopEffect
      <3>2. WayIs(k, ready[k], dec'[k].codec, packets'[k], demux.todo, all)
        BY <1>t, <1>w, <2>4, <3>1, WayPops
      <3> QED
        BY <1>g, <1>w, <2>1, <2>2, <3>2, SameSource DEF WayOf, WayIs, all
    <2>5. CASE k = h /\ packets[h] = <<>>
      <3>1. dec'[k].codec = dec[k].codec /\ packets' = packets
        BY <1>1, <2>5, PopEffect
      <3> QED
        BY <1>0, <1>g, <2>1, <2>2, <3>1, WayStays
    <2> QED
      BY <2>3, <2>4, <2>5
  <1>2. CASE Receive(h)
    <2>1. UNCHANGED <<demux, ready, packets>> /\ dec'[k].codec = dec[k].codec
      BY <1>0, <1>2, ReceiveEffect DEF OthersStay
    <2>2. UpTo' = UpTo
      BY <1>g, <2>1, PlaceStays DEF DemuxPlace
    <2> QED
      BY <1>0, <1>g, <2>1, <2>2, WayStays
  <1>3. CASE DecoderStops(h)
    BY <1>0, <1>3, DecoderStopsEffect
  <1>4. CASE DecoderSleeps(h)
    <2>1. UNCHANGED <<demux, ready, packets>> /\ dec'[k].codec = dec[k].codec
      BY <1>0, <1>4, DecoderSleepsEffect DEF OthersStay
    <2>2. UpTo' = UpTo
      BY <1>g, <2>1, PlaceStays DEF DemuxPlace
    <2> QED
      BY <1>0, <1>g, <2>1, <2>2, WayStays
  <1>5. CASE Write(h)
    <2> DEFINE x == [buf |-> dec[h].buf, ts |-> Head(dec[h].codec)]
    <2>1. /\ UNCHANGED <<demux, packets>> /\ OthersStay(h) /\ dec'[h].codec = Tail(dec[h].codec)
          /\ ready' = [ready EXCEPT ![h] = Append(ready[h], x)]
      BY <1>5, WriteEffect
    <2>2. UpTo' = UpTo
      BY <1>g, <2>1, PlaceStays DEF DemuxPlace
    <2>3. dec[h].codec # <<>>
      BY <1>5, WriteEffect DEF Shape, DecoderShape
    <2>4. x \in FrameType /\ x.ts = Head(dec[h].codec)
      <3>1. Head(dec[h].codec) \in Nat
        BY <1>t, <2>3, ListFields
      <3> QED
        BY <1>t, <3>1 DEF FrameType
    <2> HIDE DEF x
    <2>5. CASE k # h
      <3>1. dec'[k] = dec[k] /\ ready'[k] = ready[k]
        BY <1>0, <1>t, <2>1, <2>5 DEF OthersStay
      <3> QED
        BY <1>0, <1>g, <2>1, <2>2, <3>1, WayStays
    <2>6. CASE k = h
      <3>1. ready'[k] = Append(ready[k], x) /\ dec'[k].codec = Tail(dec[k].codec)
        BY <1>0, <1>t, <2>1, <2>6
      <3>2. WayIs(k, ready'[k], dec'[k].codec, packets[k], demux.todo, all)
        BY <1>t, <1>w, <2>3, <2>4, <2>6, <3>1, WayWrites
      <3> QED
        BY <1>g, <1>w, <2>1, <2>2, <3>2, SameSource DEF WayOf, WayIs, all
    <2> QED
      BY <2>5, <2>6
  <1>6. CASE WriteFails(h)
    BY <1>6, WriteFailsEffect, FailedFields DEF Going
  <1> QED
    BY <1>1, <1>2, <1>3, <1>4, <1>5, <1>6 DEF Decoder

LEMMA ControlWay ==
    ASSUME AvPlayerAssumption, PlayTypeOK, Shape, WayInv,
           Control \/ (\E call \in {"start", "stop", "jump", "change"}, from \in Starts : Begins(call, from))
    PROVE  WayInv'
  <1> SUFFICES ASSUME Going', NEW k \in On' PROVE WayOf(k)'
    BY DEF WayInv
  <1>i. ctl'.pc = "idle" /\ ~player'.stopped
    BY DEF Going, Playing
  <1>c. ctl.pc = "joining" => player.stopped
    BY DEF Shape, ControlShape
  <1>1. CASE \E call \in {"start", "stop", "jump", "change"}, from \in Starts : Begins(call, from)
    BY <1>1, <1>i, BeginsEffect
  <1>2. CASE Stops
    BY <1>2, <1>i, StopsEffect
  <1>3. CASE StopEnds
    BY <1>3, <1>c, <1>i, StopEndsEffect
  <1>4. CASE Resets
    BY <1>4, <1>c, <1>i, ResetsEffect
  <1>5. CASE Launches
    <2>k. source' = source /\ k \in On /\ k \in Kinds
      BY <1>5, LaunchesEffect, SameSource, SourceFacts
    <2>1. packets[k] = <<>> /\ ready[k] = <<>> /\ given[k] = ctl.from - 1
      BY <1>5, <2>k, LaunchesEffect DEF Shape, ControlShape, Emptied
    <2>2. dec'[k].codec = <<>>
      BY <1>5, <2>k, LaunchesEffect DEF IsOff
    <2>3. /\ demux'.todo = <<>> /\ demux'.pos = ctl.from /\ demux'.round = 0
          /\ UNCHANGED <<packets, ready, given>>
      BY <1>5, <1>i, LaunchesEffect
    <2>4. UpTo' = ctl.from /\ ctl.from \in Nat
      <3>1. Size' \in Nat
        BY <2>k, SameSource, SourceFacts
      <3>2. UpTo' = ctl.from + 0 * Size' /\ ctl.from \in Nat
        BY <2>3, Fields DEF UpTo
      <3> HIDE DEF Size
      <3> QED
        BY <3>1, <3>2
    <2>5. FramesOf(k, given[k], ctl.from) = {}
      <3>1. \A t \in Frames(k) : ~(ctl.from - 1 < t /\ t < ctl.from)
        BY <2>4, FrameNat
      <3> QED
        BY <2>1, <3>1 DEF FramesOf
    <2>6. WayIs(k, ready'[k], dec'[k].codec, packets'[k], demux'.todo, FramesOf(k, given'[k], UpTo'))
      BY <2>1, <2>2, <2>3, <2>4, <2>5, WayEmpty
    <2>7. given'[k] < UpTo'
      BY <2>1, <2>3, <2>4
    <2> QED
      BY <2>6, <2>7, <2>k, SameSource DEF WayOf, WayIs
  <1>6. CASE GivesUp
    BY <1>6, <1>i, GivesUpEffect
  <1> QED
    BY <1>1, <1>2, <1>3, <1>4, <1>5, <1>6 DEF Control

\* The guest takes the first frame of a stream.
LEMMA WayTaken ==
    ASSUME AvPlayerAssumption, PlayTypeOK, NEW k \in Kinds, WayOf(k), ready[k] # <<>>,
           source' = source, ready'[k] = Tail(ready[k]), given'[k] = Head(ready[k]).ts,
           dec'[k].codec = dec[k].codec, packets' = packets, demux' = demux
    PROVE  WayOf(k)'
  <1> DEFINE all == FramesOf(k, given[k], UpTo)
             n == Head(ready[k]).ts
  <1>1. UpTo' = UpTo
    BY PlaceStays DEF DemuxPlace
  <1>2. WayIs(k, ready[k], dec[k].codec, packets[k], demux.todo, all) /\ ready[k] \in Seq(FrameType)
    BY Fields DEF WayOf
  <1>3. all \subseteq Int /\ \A t \in all : given[k] < t /\ t < UpTo
    BY FrameNat DEF FramesOf
  <1>4. n \in all /\ WayIs(k, Tail(ready[k]), dec[k].codec, packets[k], demux.todo, {t \in all : n < t})
    <2> HIDE DEF all
    <2> QED
      BY <1>2, <1>3, WayShows
  <1>5. {t \in all : n < t} = FramesOf(k, n, UpTo)
    <2>1. n \in Int /\ given[k] < n /\ given[k] \in Int
      BY <1>3, <1>4, Fields
    <2>2. Frames(k) \subseteq Int
      BY FrameNat
    <2> HIDE DEF n
    <2>3. \A t \in Frames(k) : n < t => given[k] < t
      BY <2>1, <2>2
    <2> QED
      BY <2>3 DEF FramesOf
  <1>6. n < UpTo
    BY <1>3, <1>4
  <1> HIDE DEF all
  <1>7. WayIs(k, ready'[k], dec'[k].codec, packets'[k], demux'.todo, FramesOf(k, given'[k], UpTo'))
    BY <1>1, <1>4, <1>5
  <1> QED
    BY <1>1, <1>6, <1>7, SameSource DEF WayOf, WayIs

LEMMA GuestWay ==
    ASSUME AvPlayerAssumption, PlayTypeOK, Shape, WayInv,
           Video \/ Audio \/ \E pause \in BOOLEAN : PauseOrResume(pause)
    PROVE  WayInv'
  <1> SUFFICES ASSUME Going', NEW k \in On' PROVE WayOf(k)'
    BY DEF WayInv
  <1>t. /\ given \in [Kinds -> Nat \cup {-1}] /\ ready \in [Kinds -> Seq(FrameType)]
    BY DEF PlayTypeOK
  <1>1. CASE Video
    <2> DEFINE h == "video"
               old == IF current[h] = NoFrame THEN retired ELSE Append(retired, current[h].buf)
               recycles == current[h] # NoFrame /\ Len(old) >= VideoBuffers - 1
    <2>1. /\ dec' = Awoken(h, recycles) /\ ready[h] # <<>>
          /\ given' = [given EXCEPT ![h] = Head(ready[h]).ts]
          /\ ready' = [ready EXCEPT ![h] = Tail(ready[h])]
          /\ player'.stopped = player.stopped /\ player'.stop = player.stop
          /\ UNCHANGED <<source, ctl, demux, packets>>
      BY <1>1, VideoEffect
    <2> HIDE DEF recycles
    <2>2. h \in Kinds /\ \A j \in Kinds : dec'[j].codec = dec[j].codec
      BY <2>1, AwokenStirs DEF Stirred, Kinds
    <2>3. k \in Kinds /\ WayOf(k) /\ UpTo' = UpTo
      BY <2>1, SameSource, SourceFacts, PlaceStays DEF DemuxPlace, WayInv, Going, Playing
    <2>4. CASE k = h
      BY <1>t, <2>1, <2>2, <2>3, <2>4, WayTaken
    <2>5. CASE k # h
      <3>1. ready'[k] = ready[k] /\ given'[k] = given[k]
        BY <1>t, <2>1, <2>3, <2>5
      <3> QED
        BY <2>1, <2>2, <2>3, <3>1, WayStays
    <2> QED
      BY <2>4, <2>5
  <1>2. CASE Audio
    <2> DEFINE h == "audio"
               recycles == current[h] # NoFrame
    <2>1. /\ dec' = Awoken(h, recycles) /\ ready[h] # <<>>
          /\ given' = [given EXCEPT ![h] = Head(ready[h]).ts]
          /\ ready' = [ready EXCEPT ![h] = Tail(ready[h])]
          /\ player'.stopped = player.stopped /\ player'.stop = player.stop
          /\ UNCHANGED <<source, ctl, demux, packets>>
      BY <1>2, AudioEffect
    <2> HIDE DEF recycles
    <2>2. h \in Kinds /\ \A j \in Kinds : dec'[j].codec = dec[j].codec
      BY <2>1, AwokenStirs DEF Stirred, Kinds
    <2>3. k \in Kinds /\ WayOf(k) /\ UpTo' = UpTo
      BY <2>1, SameSource, SourceFacts, PlaceStays DEF DemuxPlace, WayInv, Going, Playing
    <2>4. CASE k = h
      BY <1>t, <2>1, <2>2, <2>3, <2>4, WayTaken
    <2>5. CASE k # h
      <3>1. ready'[k] = ready[k] /\ given'[k] = given[k]
        BY <1>t, <2>1, <2>3, <2>5
      <3> QED
        BY <2>1, <2>2, <2>3, <3>1, WayStays
    <2> QED
      BY <2>4, <2>5
  <1>3. CASE \E pause \in BOOLEAN : PauseOrResume(pause)
    <2>1. PICK pause \in BOOLEAN : PauseOrResume(pause)
      BY <1>3
    <2>2. /\ UNCHANGED <<source, ctl, demux, dec, packets, ready, given>>
          /\ player'.stopped = player.stopped /\ player'.stop = player.stop
      BY <2>1, PauseEffect
    <2>3. WayOf(k) /\ UpTo' = UpTo
      BY <2>2, SameSource, PlaceStays DEF DemuxPlace, WayInv, Going, Playing
    <2> QED
      BY <2>2, <2>3, WayStays
  <1> QED
    BY <1>1, <1>2, <1>3
-----------------------------------------------------------------------------
(* What a movie that is played without a failure knows of its end.         *)
\* Only a failure stops the workers; the demuxer ends at the end of the last round, and
\* a decoder after it, with nothing left to decode.
EndInv ==
    /\ Playing /\ ~player.failed => ~player.stop
    /\ Going /\ player.eof => demux.pos = Size /\ demux.round = source.rounds
    /\ Going => \A k \in On : player.done[k] => player.eof /\ packets[k] = <<>>

\* EndInv is kept by every step.
LEMMA EndStays ==
    ASSUME AvPlayerAssumption, PlayTypeOK, EndInv,
           source' = source, ctl' = ctl, packets' = packets, DemuxPlace,
           player'.stopped = player.stopped, player'.failed = player.failed,
           player'.stop = player.stop, player'.eof = player.eof, player'.done = player.done
    PROVE  EndInv'
  BY SameSource DEF EndInv, Playing, Going, DemuxPlace

LEMMA DemuxEnd ==
    ASSUME AvPlayerAssumption, PlayTypeOK, Shape, EndInv, Demux \/ ReadFails
    PROVE  EndInv'
  <1>s. player.eof => demux.pc = "off"
    BY DEF Shape, DemuxShape
  <1>d. \A k \in On : player.done[k] /\ Going => player.eof
    BY DEF EndInv
  <1>1. CASE Reads \/ GoesRound
    <2>1. /\ UNCHANGED <<source, ctl, player, packets>> /\ demux.pc = "run"
      BY <1>1, ReadsEffect, GoesRoundEffect
    <2> QED
      BY <1>s, <2>1, SameSource DEF EndInv, Playing, Going
  <1>2. CASE DemuxReturns
    <2>1. /\ UNCHANGED <<source, ctl, packets>> /\ DemuxPlace
          /\ player'.stopped = player.stopped /\ player'.failed = player.failed
          /\ player'.stop = player.stop /\ player'.done = player.done
          /\ player.stop \/ (demux.pos = Size /\ demux.round = source.rounds)
          /\ player'.eof
      BY <1>2, DemuxReturnsEffect
    <2> QED
      BY <2>1, SameSource DEF EndInv, Playing, Going, DemuxPlace
  <1>3. CASE Push
    <2> DEFINE k == Head(demux.todo).kind
    <2>1. /\ demux.pc = "run" /\ UNCHANGED <<source, ctl, player>> /\ DemuxPlace
      BY <1>3, PushEffect
    <2> QED
      BY <1>d, <1>s, <2>1, SameSource DEF EndInv, Playing, Going, DemuxPlace
  <1>4. CASE DemuxSleeps
    BY <1>4, DemuxSleepsEffect, EndStays
  <1>5. CASE ReadFails
    BY <1>5, ReadFailsEffect DEF EndInv, Going
  <1> QED
    BY <1>1, <1>2, <1>3, <1>4, <1>5 DEF Demux

\* A decoder that returns at the end has no packet; one that stops stops for all.
LEMMA DecodersEnd ==
    ASSUME AvPlayerAssumption, PlayTypeOK, Shape, EndInv, NEW h \in Kinds, Decoder(h) \/ WriteFails(h)
    PROVE  EndInv'
  <1>t. packets \in [Kinds -> Seq(ItemType)] /\ On \subseteq Kinds
    BY SourceFacts DEF PlayTypeOK
  <1>s. /\ player.done[h] => dec[h].pc = "off"
        /\ dec[h].drain /\ dec[h].next = -1 => player.eof /\ packets[h] = <<>>
    BY DEF Shape, DecoderShape
  <1>1. CASE Pop(h)
    <2>1. /\ UNCHANGED <<source, ctl, player>> /\ DemuxPlace /\ ~player.done[h]
      BY <1>s, <1>1, PopEffect
    <2>2. \A k \in Kinds \ {h} : packets'[k] = packets[k]
      BY <1>t, <1>1, PopEffect
    <2>3. \A k \in On : Going' /\ player'.done[k] => player'.eof /\ packets'[k] = <<>>
      BY <1>t, <2>1, <2>2 DEF EndInv, Going, Playing
    <2> QED
      BY <2>1, <2>3, SameSource DEF EndInv, Playing, Going, DemuxPlace
  <1>2. CASE Receive(h)
    <2>1. CASE player' = player
      BY <1>2, <2>1, ReceiveEffect, EndStays DEF DemuxPlace
    <2>2. CASE player' # player
      <3>1. /\ player' = [player EXCEPT !.done[h] = TRUE] /\ dec[h].drain /\ dec[h].next = -1
            /\ UNCHANGED <<source, ctl, packets, demux>>
        BY <1>2, <2>2, ReceiveEffect
      <3>2. /\ player'.stopped = player.stopped /\ player'.failed = player.failed
            /\ player'.stop = player.stop /\ player'.eof = player.eof
            /\ \A j \in Kinds \ {h} : player'.done[j] = player.done[j]
        BY <3>1, DoneFields
      <3>3. \A k \in On : Going' /\ player'.done[k] => player'.eof /\ packets'[k] = <<>>
        BY <1>s, <1>t, <3>1, <3>2 DEF EndInv, Going, Playing
      <3> QED
        BY <3>1, <3>2, <3>3, SameSource DEF EndInv, Playing, Going
    <2> QED
      BY <2>1, <2>2
  <1>3. CASE DecoderStops(h)
    <2>1. /\ UNCHANGED <<source, ctl>> /\ player.stop
          /\ player'.stopped = player.stopped /\ player'.failed = player.failed
          /\ player'.stop = player.stop
      BY <1>3, DecoderStopsEffect, DoneFields
    <2> QED
      BY <2>1 DEF EndInv, Playing, Going
  <1>4. CASE DecoderSleeps(h)
    BY <1>4, DecoderSleepsEffect, EndStays DEF DemuxPlace
  <1>5. CASE Write(h)
    BY <1>5, WriteEffect, EndStays DEF DemuxPlace
  <1>6. CASE WriteFails(h)
    <2>1. /\ ctl' = ctl /\ player'.stop
          /\ player'.stopped = player.stopped /\ player'.failed = (player.failed \/ ~player.stop)
      BY <1>6, WriteFailsEffect, FailedFields
    <2> QED
      BY <2>1 DEF EndInv, Playing, Going
  <1> QED
    BY <1>1, <1>2, <1>3, <1>4, <1>5, <1>6 DEF Decoder

LEMMA ControlEnd ==
    ASSUME AvPlayerAssumption, PlayTypeOK, Shape, EndInv,
           Control \/ (\E call \in {"start", "stop", "jump", "change"}, from \in Starts : Begins(call, from))
    PROVE  EndInv'
  <1>c. ctl.pc = "joining" => player.stopped
    BY DEF Shape, ControlShape
  <1>1. CASE \E call \in {"start", "stop", "jump", "change"}, from \in Starts : Begins(call, from)
    BY <1>1, BeginsEffect DEF EndInv, Playing, Going
  <1>2. CASE Stops
    BY <1>2, StopsEffect DEF EndInv, Playing, Going
  <1>3. CASE StopEnds
    BY <1>3, <1>c, StopEndsEffect DEF EndInv, Playing, Going
  <1>4. CASE Resets
    BY <1>4, <1>c, ResetsEffect DEF EndInv, Playing, Going
  <1>5. CASE Launches
    BY <1>5, LaunchesEffect, SameSource, SourceFacts DEF EndInv, Playing, Going
  <1>6. CASE GivesUp
    BY <1>6, GivesUpEffect DEF EndInv, Playing, Going
  <1> QED
    BY <1>1, <1>2, <1>3, <1>4, <1>5, <1>6 DEF Control

LEMMA GuestEnd ==
    ASSUME AvPlayerAssumption, PlayTypeOK, EndInv,
           Video \/ Audio \/ \E pause \in BOOLEAN : PauseOrResume(pause)
    PROVE  EndInv'
  <1>1. /\ UNCHANGED <<source, ctl, packets, demux>>
        /\ player'.stopped = player.stopped /\ player'.failed = player.failed
        /\ player'.stop = player.stop /\ player'.eof = player.eof /\ player'.done = player.done
    BY VideoEffect, AudioEffect, PauseEffect
  <1> QED
    BY <1>1, EndStays DEF DemuxPlace
-----------------------------------------------------------------------------
(* Who waits on a queue has to wait, unless it was missed by a notify.     *)
\* A full queue lets the demuxer wait, an empty one a decoder.
Full(q, item) == ~(q = <<>> \/ item.flush \/ Bytes(q) < Capacity)
DemuxWaits ==
    demux.pc \in {"checked", "asleep"} =>
       ~player.stop /\ Full(packets[Head(demux.todo).kind], Head(demux.todo).item)
DecoderWaits(k) ==
    /\ dec[k].pc \in {"popChecked", "popAsleep"} => ~player.stop /\ ~player.eof /\ packets[k] = <<>>
    /\ dec[k].pc \in {"bufChecked", "bufAsleep"} => ~player.stop /\ free[k] = <<>>
SleepInv == missed \/ (DemuxWaits /\ \A k \in Kinds : DecoderWaits(k))

\* SleepInv is kept by every step.
LEMMA DecoderStaysAwake ==
    ASSUME NEW k, DecoderWaits(k), Stirred(dec[k], dec'[k]), packets'[k] = packets[k], free'[k] = free[k],
           player'.stop = player.stop, player'.eof = player.eof
    PROVE  DecoderWaits(k)'
  BY DEF DecoderWaits, Stirred
LEMMA DemuxStaysAwake ==
    ASSUME DemuxWaits, demux' = demux, packets' = packets, player'.stop = player.stop
    PROVE  DemuxWaits'
  BY DEF DemuxWaits
\* A thread that does not wait.
LEMMA NotWaiting ==
    ASSUME NEW k, dec'[k].pc \notin {"popChecked", "popAsleep", "bufChecked", "bufAsleep"}
    PROVE  DecoderWaits(k)'
  BY DEF DecoderWaits
LEMMA NobodyWaits ==
    ASSUME demux'.pc \notin {"checked", "asleep"},
           \A k \in Kinds : dec'[k].pc \notin {"popChecked", "popAsleep", "bufChecked", "bufAsleep"}
    PROVE  SleepInv'
  BY NotWaiting DEF SleepInv, DemuxWaits
LEMMA SameStir == \A d : Stirred(d, d)
  BY DEF Stirred

LEMMA DemuxAwake ==
    ASSUME AvPlayerAssumption, PlayTypeOK, SleepInv, Demux \/ ReadFails
    PROVE  SleepInv'
  <1>1. CASE Reads \/ GoesRound
    <2>1. /\ UNCHANGED <<player, dec, packets, free, missed>> /\ demux'.pc = "run"
      BY <1>1, ReadsEffect, GoesRoundEffect
    <2> QED
      BY <2>1, SameStir, DecoderStaysAwake DEF SleepInv, DemuxWaits
  <1>2. CASE DemuxReturns
    <2>1. /\ UNCHANGED <<packets, free>> /\ demux'.pc = "off" /\ player'.stop = player.stop
          /\ \A k \in Kinds : Stirred(dec[k], dec'[k]) /\ dec'[k].pc # "popAsleep"
          /\ missed' = (missed \/ \E k \in Kinds : dec[k].pc = "popChecked")
      BY <1>2, DemuxReturnsEffect
    <2>2. ASSUME ~missed', NEW k \in Kinds PROVE DecoderWaits(k)'
      <3>1. DecoderWaits(k) /\ dec'[k].pc \notin {"popChecked", "popAsleep"}
        BY <2>1, <2>2 DEF SleepInv, Stirred
      <3> QED
        BY <2>1, <3>1 DEF DecoderWaits, Stirred
    <2> QED
      BY <2>1, <2>2 DEF SleepInv, DemuxWaits
  <1>3. CASE Push
    <2> DEFINE k == Head(demux.todo).kind
               item == Head(demux.todo).item
    <2>1. /\ ~player.stop /\ k \in Kinds /\ dec[k].pc # "popChecked"
          /\ \/ /\ packets' = [packets EXCEPT ![k] = Append(packets[k], item)]
                /\ demux'.pc = "run"
                /\ \A j \in Kinds : Stirred(dec[j], dec'[j])
                /\ dec'[k].pc # "popAsleep" /\ OthersStay(k)
             \/ /\ ~Room(k, item) /\ packets' = packets /\ dec' = dec
                /\ demux'.pc = "checked" /\ demux'.todo = demux.todo
          /\ UNCHANGED <<player, free, missed>>
      BY <1>3, PushEffect
    <2>2. CASE demux'.pc = "checked"
      <3>1. DemuxWaits'
        <4>1. /\ ~Room(k, item) /\ UNCHANGED <<player, packets>> /\ ~player.stop
              /\ demux'.todo = demux.todo
          BY <2>1, <2>2
        <4>2. Full(packets[k], item)
          BY <4>1 DEF Room, Full
        <4> QED
          BY <4>1, <4>2 DEF DemuxWaits
      <3>2. ~missed' => \A j \in Kinds : DecoderWaits(j)'
        BY <2>1, <2>2, SameStir, DecoderStaysAwake DEF SleepInv
      <3> QED
        BY <3>1, <3>2 DEF SleepInv
    <2>3. CASE demux'.pc # "checked"
      <3> HIDE DEF k, item
      <3>1. packets \in [Kinds -> Seq(ItemType)]
        BY DEF PlayTypeOK
      <3>2. \A j \in Kinds \ {k} : packets'[j] = packets[j]
        BY <2>1, <2>3, <3>1
      <3>3. ASSUME ~missed', NEW j \in Kinds PROVE DecoderWaits(j)'
        <4>1. DecoderWaits(j) /\ Stirred(dec[j], dec'[j])
          BY <2>1, <2>3, <3>3 DEF SleepInv
        <4>2. CASE j # k
          BY <2>1, <3>2, <4>1, <4>2, DecoderStaysAwake
        <4>3. CASE j = k
          BY <2>1, <2>3, <4>1, <4>3 DEF DecoderWaits, Stirred
        <4> QED
          BY <4>2, <4>3
      <3> QED
        BY <2>1, <2>3, <3>3 DEF SleepInv, DemuxWaits
    <2> QED
      BY <2>2, <2>3
  <1>4. CASE DemuxSleeps
    <2>1. /\ UNCHANGED <<player, dec, packets, free, missed>> /\ demux'.todo = demux.todo
          /\ demux.pc = "checked"
      BY <1>4, DemuxSleepsEffect
    <2> QED
      BY <2>1, SameStir, DecoderStaysAwake DEF SleepInv, DemuxWaits
  <1>5. CASE ReadFails
    <2>1. /\ demux'.pc = "off"
          /\ \A k \in Kinds : Stirred(dec[k], dec'[k]) /\ dec'[k].pc \notin {"popAsleep", "bufAsleep"}
          /\ missed' = (missed \/ \E k \in Kinds : dec[k].pc \in {"popChecked", "bufChecked"})
      BY <1>5, ReadFailsEffect
    <2>2. CASE missed'
      BY <2>2 DEF SleepInv
    <2>3. CASE ~missed'
      <3>1. \A k \in Kinds : dec'[k].pc \notin {"popChecked", "popAsleep", "bufChecked", "bufAsleep"}
        BY <2>1, <2>3 DEF Stirred
      <3> QED
        BY <2>1, <3>1, NobodyWaits
    <2> QED
      BY <2>2, <2>3
  <1> QED
    BY <1>1, <1>2, <1>3, <1>4, <1>5 DEF Demux

\* A decoder's step, for the others and the demuxer.
LEMMA OthersAwake ==
    ASSUME NEW h \in Kinds, SleepInv, OthersStay(h), demux' = demux, packets' = packets,
           \A j \in Kinds \ {h} : free'[j] = free[j],
           player'.stop = player.stop, player'.eof = player.eof, missed' = missed,
           ~missed => DecoderWaits(h)'
    PROVE  SleepInv'
  <1>1. ~missed => DemuxWaits'
    BY DemuxStaysAwake DEF SleepInv
  <1>2. \A j \in Kinds \ {h} : ~missed => DecoderWaits(j)'
    BY SameStir, DecoderStaysAwake DEF SleepInv, OthersStay
  <1> QED
    BY <1>1, <1>2 DEF SleepInv

LEMMA DecodersAwake ==
    ASSUME AvPlayerAssumption, PlayTypeOK, Shape, SleepInv, NEW h \in Kinds, Decoder(h) \/ WriteFails(h)
    PROVE  SleepInv'
  <1>t. /\ packets \in [Kinds -> Seq(ItemType)] /\ free \in [Kinds -> Seq(Nat)]
    BY DEF PlayTypeOK
  <1>1. CASE Pop(h)
    <2>1. CASE packets[h] # <<>>
      <3>1. /\ dec'[h].pc = "receive" /\ OthersStay(h) /\ demux'.todo = demux.todo /\ ~DemuxChecks(h)
            /\ IF demux.pc = "asleep" /\ Head(demux.todo).kind = h
               THEN demux'.pc = "run" ELSE demux'.pc = demux.pc
            /\ packets' = [packets EXCEPT ![h] = Tail(packets[h])]
            /\ UNCHANGED <<player, free, missed>>
        BY <1>1, <2>1, PopEffect
      <3>2. \A j \in Kinds \ {h} : packets'[j] = packets[j]
        BY <1>t, <3>1
      <3>3. ~missed => \A j \in Kinds \ {h} : DecoderWaits(j)'
        BY <3>1, <3>2, SameStir, DecoderStaysAwake DEF SleepInv, OthersStay
      <3>4. DecoderWaits(h)'
        BY <3>1, NotWaiting
      <3>5. ASSUME ~missed, demux'.pc \in {"checked", "asleep"} PROVE DemuxWaits'
        <4>1. demux.pc \in {"checked", "asleep"} /\ Head(demux.todo).kind # h
          BY <3>1, <3>5 DEF DemuxChecks
        <4>2. Head(demux.todo).kind \in Kinds
          <5>1. demux.todo # <<>> /\ demux.todo \in Seq(ReadType)
            BY <4>1, Fields DEF Shape, DemuxShape
          <5>2. Head(demux.todo) \in ReadType
            BY <5>1, ListFields
          <5> QED
            BY <5>2 DEF ReadType
        <4>3. packets'[Head(demux.todo).kind] = packets[Head(demux.todo).kind]
          BY <3>2, <4>1, <4>2
        <4> QED
          BY <3>1, <3>5, <4>1, <4>3 DEF SleepInv, DemuxWaits
      <3> QED
        BY <3>1, <3>3, <3>4, <3>5 DEF SleepInv, DemuxWaits
    <2>2. CASE packets[h] = <<>>
      <3>1. /\ OthersStay(h) /\ UNCHANGED <<player, free, missed, packets, demux>> /\ ~player.stop
            /\ dec'[h].pc = "receive" \/ (dec'[h].pc = "popChecked" /\ ~player.eof)
        BY <1>1, <2>2, PopEffect
      <3>2. DecoderWaits(h)'
        BY <2>2, <3>1 DEF DecoderWaits
      <3> QED
        BY <3>1, <3>2, OthersAwake
    <2> QED
      BY <2>1, <2>2
  <1>2. CASE Receive(h)
    <2>1. /\ OthersStay(h) /\ ~player.stop /\ UNCHANGED <<demux, packets, missed>>
          /\ \/ dec'[h].pc \in {"write", "pop", "off"}
             \/ dec'[h].pc = "bufChecked" /\ free[h] = <<>> /\ free' = free
          /\ free' = free \/ free' = [free EXCEPT ![h] = Tail(free[h])]
          /\ player' = player \/ player' = [player EXCEPT !.done[h] = TRUE]
      BY <1>2, ReceiveEffect DEF IsOff
    <2>2. player'.stop = player.stop /\ player'.eof = player.eof
      BY <2>1, DoneFields
    <2>3. \A j \in Kinds \ {h} : free'[j] = free[j]
      BY <1>t, <2>1
    <2>4. DecoderWaits(h)'
      BY <2>1, <2>2 DEF DecoderWaits
    <2> QED
      BY <2>1, <2>2, <2>3, <2>4, OthersAwake
  <1>3. CASE DecoderStops(h)
    <2>1. /\ OthersStay(h) /\ UNCHANGED <<demux, packets, free, missed>> /\ dec'[h].pc = "off"
          /\ player'.stop = player.stop /\ player'.eof = player.eof
      BY <1>3, DecoderStopsEffect, DoneFields DEF IsOff
    <2> QED
      BY <2>1, NotWaiting, OthersAwake
  <1>4. CASE DecoderSleeps(h)
    <2>1. /\ OthersStay(h) /\ UNCHANGED <<player, demux, packets, free, missed>>
          /\ \/ dec[h].pc = "popChecked" /\ dec'[h].pc = "popAsleep"
             \/ dec[h].pc = "bufChecked" /\ dec'[h].pc = "bufAsleep"
      BY <1>4, DecoderSleepsEffect
    <2>2. ~missed => DecoderWaits(h)'
      BY <2>1 DEF SleepInv, DecoderWaits
    <2> QED
      BY <2>1, <2>2, OthersAwake
  <1>5. CASE Write(h)
    <2>1. /\ OthersStay(h) /\ UNCHANGED <<player, demux, packets, free, missed>> /\ dec'[h].pc = "receive"
      BY <1>5, WriteEffect
    <2> QED
      BY <2>1, NotWaiting, OthersAwake
  <1>6. CASE WriteFails(h)
    <2>1. /\ free' = [free EXCEPT ![h] = Append(free[h], dec[h].buf)] /\ dec'[h].pc = "off"
          /\ UNCHANGED packets
          /\ player'.eof = player.eof /\ player'.stop
      BY <1>6, WriteFailsEffect, FailedFields DEF IsOff
    <2>2. CASE player.stop
      <3>1. OthersStay(h) /\ demux' = demux /\ missed' = missed
        BY <1>6, <2>2, WriteFailsEffect
      <3>2. \A j \in Kinds \ {h} : free'[j] = free[j]
        BY <1>t, <2>1
      <3> QED
        BY <2>1, <2>2, <3>1, <3>2, NotWaiting, OthersAwake
    <2>3. CASE ~player.stop
      <3>1. /\ \A j \in Kinds : dec'[j].pc \notin {"popAsleep", "bufAsleep"}
            /\ \A j \in Kinds \ {h} : Stirred(dec[j], dec'[j])
            /\ IF demux.pc = "asleep" THEN demux'.pc = "run" ELSE demux'.pc = demux.pc
            /\ missed' = (missed \/ demux.pc = "checked"
                            \/ \E j \in Kinds \ {h} : dec[j].pc \in {"popChecked", "bufChecked"})
        BY <1>6, <2>3, WriteFailsEffect
      <3>2. CASE missed'
        BY <3>2 DEF SleepInv
      <3>3. CASE ~missed'
        <4>1. demux'.pc \notin {"checked", "asleep"}
          BY <3>1, <3>3
        <4>2. \A j \in Kinds \ {h} : dec[j].pc \notin {"popChecked", "bufChecked"}
          BY <3>1, <3>3
        <4>3. ASSUME NEW j \in Kinds
              PROVE  dec'[j].pc \notin {"popChecked", "popAsleep", "bufChecked", "bufAsleep"}
          <5>1. CASE j = h
            BY <2>1, <5>1
          <5>2. CASE j # h
            <6>1. Stirred(dec[j], dec'[j]) /\ dec'[j].pc \notin {"popAsleep", "bufAsleep"}
              BY <3>1, <5>2
            <6> QED
              BY <4>2, <5>2, <6>1 DEF Stirred
          <5> QED
            BY <5>1, <5>2
        <4> QED
          BY <4>1, <4>3, NobodyWaits
      <3> QED
        BY <3>2, <3>3
    <2> QED
      BY <2>2, <2>3
  <1> QED
    BY <1>1, <1>2, <1>3, <1>4, <1>5, <1>6 DEF Decoder

LEMMA ControlAwake ==
    ASSUME AvPlayerAssumption, PlayTypeOK, Shape, SleepInv,
           Control \/ (\E call \in {"start", "stop", "jump", "change"}, from \in Starts : Begins(call, from))
    PROVE  SleepInv'
  <1>1. CASE \E call \in {"start", "stop", "jump", "change"}, from \in Starts : Begins(call, from)
    <2>1. /\ UNCHANGED <<demux, dec, packets, free, missed>>
          /\ player'.stop = player.stop /\ player'.eof = player.eof
      BY <1>1, BeginsEffect
    <2> QED
      BY <2>1, SameStir, DecoderStaysAwake, DemuxStaysAwake DEF SleepInv
  <1>2. CASE Stops
    <2>1. /\ \A k \in Kinds : Stirred(dec[k], dec'[k]) /\ dec'[k].pc \notin {"popAsleep", "bufAsleep"}
          /\ IF demux.pc = "asleep" THEN demux'.pc = "run" ELSE demux'.pc = demux.pc
          /\ missed' = (missed \/ demux.pc = "checked"
                          \/ \E k \in Kinds : dec[k].pc \in {"popChecked", "bufChecked"})
      BY <1>2, StopsEffect
    <2>2. CASE missed'
      BY <2>2 DEF SleepInv
    <2>3. CASE ~missed'
      <3>1. demux'.pc \notin {"checked", "asleep"}
        BY <2>1, <2>3
      <3>2. \A k \in Kinds : dec'[k].pc \notin {"popChecked", "popAsleep", "bufChecked", "bufAsleep"}
        BY <2>1, <2>3 DEF Stirred
      <3> QED
        BY <3>1, <3>2, NobodyWaits
    <2> QED
      BY <2>2, <2>3
  <1>3. CASE StopEnds \/ Resets \/ GivesUp
    <2>1. UNCHANGED <<demux, dec>> /\ Joined
      BY <1>3, StopEndsEffect, ResetsEffect, GivesUpEffect
    <2> QED
      BY <2>1, NobodyWaits DEF Joined
  <1>4. CASE Launches
    <2>1. /\ \A k \in Kinds : dec'[k].pc \in {"off", "pop"}
          /\ demux'.pc = "run" \/ demux' = demux
      BY <1>4, LaunchesEffect DEF IsOff
    <2>2. demux.pc = "off"
      BY <1>4, LaunchesEffect DEF Shape, ControlShape, Joined
    <2> QED
      BY <2>1, <2>2, NobodyWaits
  <1> QED
    BY <1>1, <1>2, <1>3, <1>4 DEF Control

\* The guest frees a buffer and wakes who waits for one.
LEMMA GuestAwake ==
    ASSUME AvPlayerAssumption, PlayTypeOK, SleepInv,
           Video \/ Audio \/ \E pause \in BOOLEAN : PauseOrResume(pause)
    PROVE  SleepInv'
  <1>t. free \in [Kinds -> Seq(Nat)]
    BY DEF PlayTypeOK
  <1>1. ASSUME NEW h \in Kinds, NEW recycles, dec' = Awoken(h, recycles), recycles => dec[h].pc # "bufChecked",
               UNCHANGED <<demux, packets, missed>>, player'.stop = player.stop, player'.eof = player.eof,
               \A j \in Kinds : ~(recycles /\ j = h) => free'[j] = free[j]
        PROVE  SleepInv'
    <2>1. /\ \A j \in Kinds : Stirred(dec[j], dec'[j])
          /\ recycles => dec'[h].pc # "bufAsleep"
      BY <1>1, AwokenStirs
    <2>2. ~missed => DemuxWaits'
      BY <1>1, DemuxStaysAwake DEF SleepInv
    <2>3. ASSUME ~missed, NEW j \in Kinds PROVE DecoderWaits(j)'
      <3>1. DecoderWaits(j)
        BY <2>3 DEF SleepInv
      <3>2. CASE recycles /\ j = h
        BY <1>1, <2>1, <3>1, <3>2 DEF DecoderWaits, Stirred
      <3>3. CASE ~(recycles /\ j = h)
        BY <1>1, <2>1, <3>1, <3>3, DecoderStaysAwake
      <3> QED
        BY <3>2, <3>3
    <2> QED
      BY <1>1, <2>2, <2>3 DEF SleepInv
  <1>2. CASE Video
    <2> DEFINE h == "video"
               old == IF current[h] = NoFrame THEN retired ELSE Append(retired, current[h].buf)
               recycles == current[h] # NoFrame /\ Len(old) >= VideoBuffers - 1
    <2>1. /\ dec' = Awoken(h, recycles) /\ (recycles => dec[h].pc # "bufChecked")
          /\ free' = IF recycles THEN [free EXCEPT ![h] = Append(free[h], Head(old))] ELSE free
          /\ player'.stop = player.stop /\ player'.eof = player.eof
          /\ UNCHANGED <<demux, packets, missed>>
      BY <1>2, VideoEffect
    <2> HIDE DEF recycles, old
    <2>2. \A j \in Kinds : ~(recycles /\ j = h) => free'[j] = free[j]
      BY <1>t, <2>1
    <2> QED
      BY <1>1, <2>1, <2>2 DEF Kinds
  <1>3. CASE Audio
    <2> DEFINE h == "audio"
               recycles == current[h] # NoFrame
    <2>1. /\ dec' = Awoken(h, recycles) /\ (recycles => dec[h].pc # "bufChecked")
          /\ free' = IF recycles THEN [free EXCEPT ![h] = Append(free[h], current[h].buf)] ELSE free
          /\ player'.stop = player.stop /\ player'.eof = player.eof
          /\ UNCHANGED <<demux, packets, missed>>
      BY <1>3, AudioEffect
    <2> HIDE DEF recycles
    <2>2. \A j \in Kinds : ~(recycles /\ j = h) => free'[j] = free[j]
      BY <1>t, <2>1
    <2> QED
      BY <1>1, <2>1, <2>2 DEF Kinds
  <1>4. CASE \E pause \in BOOLEAN : PauseOrResume(pause)
    <2>1. /\ UNCHANGED <<demux, dec, packets, free, missed>>
          /\ player'.stop = player.stop /\ player'.eof = player.eof
      BY <1>4, PauseEffect
    <2> QED
      BY <2>1, SameStir, DecoderStaysAwake, DemuxStaysAwake DEF SleepInv
  <1> QED
    BY <1>2, <1>3, <1>4
-----------------------------------------------------------------------------
(* What the invariant promises.                                            *)

\* What is in Places, without the tuples.
InPlaces(s, i, b, f, r, t, w, c) ==
    \/ s = "free" /\ i \in DOMAIN f /\ b = f[i]
    \/ s = "ready" /\ i \in DOMAIN r /\ b = r[i]
    \/ s = "retired" /\ i \in DOMAIN t /\ b = t[i]
    \/ s = "written" /\ i = 1 /\ b = w /\ w # 0
    \/ s = "current" /\ i = 1 /\ b = c /\ c # 0

\* BufferInv, in the terms of BuffersOnce.
LEMMA PlacesListed ==
    ASSUME NEW k
    PROVE  \A x : x \in Places(k) <=> \E s, i, b :
              /\ x = <<s, i, b>>
              /\ InPlaces(s, i, b, free[k], Bufs(ready[k]), Retired(k), dec[k].buf, current[k].buf)
  <1> DEFINE r == Bufs(ready[k])
             t == Retired(k)
  <1>1. DOMAIN r = DOMAIN ready[k] /\ \A i \in DOMAIN r : r[i] = ready[k][i].buf
    BY DEF Bufs
  <1>2. (IF k = "video" THEN {<<"retired", i, retired[i]>> : i \in DOMAIN retired} ELSE {})
          = {<<"retired", i, t[i]>> : i \in DOMAIN t}
    BY DEF Retired
  <1> HIDE DEF r, t
  <1>3. Places(k) = {<<"free", i, free[k][i]>> : i \in DOMAIN free[k]}
                       \cup {<<"ready", i, r[i]>> : i \in DOMAIN r}
                       \cup {<<"retired", i, t[i]>> : i \in DOMAIN t}
                       \cup {<<"written", 1, b>> : b \in {dec[k].buf} \ {0}}
                       \cup {<<"current", 1, b>> : b \in {current[k].buf} \ {0}}
    <2>1. {<<"ready", i, ready[k][i].buf>> : i \in DOMAIN ready[k]} = {<<"ready", i, r[i]>> : i \in DOMAIN r}
      BY <1>1
    <2> QED
      BY <1>2, <2>1 DEF Places
  <1> DEFINE f == free[k]
             w == dec[k].buf
             c == current[k].buf
  <1> HIDE DEF f, w, c
  <1>4. ASSUME NEW x, x \in Places(k) PROVE \E s, i, b : x = <<s, i, b>> /\ InPlaces(s, i, b, f, r, t, w, c)
    <2>1. CASE \E i \in DOMAIN f : x = <<"free", i, f[i]>>
      BY <2>1 DEF InPlaces
    <2>2. CASE \E i \in DOMAIN r : x = <<"ready", i, r[i]>>
      BY <2>2 DEF InPlaces
    <2>3. CASE \E i \in DOMAIN t : x = <<"retired", i, t[i]>>
      BY <2>3 DEF InPlaces
    <2>4. CASE w # 0 /\ x = <<"written", 1, w>>
      BY <2>4 DEF InPlaces
    <2>5. CASE c # 0 /\ x = <<"current", 1, c>>
      BY <2>5 DEF InPlaces
    <2> QED
      BY <1>3, <1>4, <2>1, <2>2, <2>3, <2>4, <2>5 DEF f, w, c
  <1>5. ASSUME NEW s, NEW i, NEW b, InPlaces(s, i, b, f, r, t, w, c) PROVE <<s, i, b>> \in Places(k)
    BY <1>3, <1>5 DEF InPlaces, f, w, c
  <1> QED
    BY <1>4, <1>5 DEF f, r, t, w, c

LEMMA PlacesDiffer ==
    ASSUME NEW f, NEW r, NEW t, NEW w, NEW c, NEW N, OncePlaced(f, r, t, w, c, N),
           NEW s, NEW i, NEW s2, NEW i2, NEW b,
           InPlaces(s, i, b, f, r, t, w, c), InPlaces(s2, i2, b, f, r, t, w, c)
    PROVE  s = s2 /\ i = i2
  <1> DEFINE F == ToSet(f)
             R == ToSet(r)
             T == ToSet(t)
  <1>1. /\ \A j \in DOMAIN f : f[j] \in F
        /\ \A j \in DOMAIN r : r[j] \in R
        /\ \A j \in DOMAIN t : t[j] \in T
    BY DEF ToSet
  <1>2. /\ F \cap R = {} /\ F \cap T = {} /\ R \cap T = {}
        /\ w \notin F \cup R \cup T /\ c \notin F \cup R \cup T
        /\ w = c => w = 0
    BY DEF OncePlaced, Disjoint
  <1>3. /\ \A j, h \in DOMAIN f : f[j] = f[h] => j = h
        /\ \A j, h \in DOMAIN r : r[j] = r[h] => j = h
        /\ \A j, h \in DOMAIN t : t[j] = t[h] => j = h
    BY DEF OncePlaced, IsInjective
  <1> HIDE DEF F, R, T
  <1>4. /\ s = "free" => b \in F
        /\ s = "ready" => b \in R
        /\ s = "retired" => b \in T
        /\ s = "written" => b = w /\ w # 0
        /\ s = "current" => b = c /\ c # 0
        /\ s \in {"free", "ready", "retired", "written", "current"}
    BY <1>1 DEF InPlaces
  <1>5. /\ s2 = "free" => b \in F
        /\ s2 = "ready" => b \in R
        /\ s2 = "retired" => b \in T
        /\ s2 = "written" => b = w /\ w # 0
        /\ s2 = "current" => b = c /\ c # 0
        /\ s2 \in {"free", "ready", "retired", "written", "current"}
    BY <1>1 DEF InPlaces
  <1>6. s = s2
    BY <1>2, <1>4, <1>5
  <1> QED
    BY <1>3, <1>6 DEF InPlaces

LEMMA BuffersAreOnce ==
    ASSUME AvPlayerAssumption, PlayTypeOK, BufferInv
    PROVE  BuffersOnce
  <1> SUFFICES ASSUME NEW k \in Kinds
               PROVE  /\ \A x, y \in Places(k) : x[3] = y[3] => x = y
                      /\ ~player.stopped /\ k \in On => {x[3] : x \in Places(k)} = 1 .. AllBuffers(k)
    BY DEF BuffersOnce
  <1> DEFINE f == free[k]
             r == Bufs(ready[k])
             t == Retired(k)
             w == dec[k].buf
             c == current[k].buf
             N == BufferSet(k)
  <1>1. /\ OncePlaced(f, r, t, w, c, N)
        /\ ~player.stopped /\ k \in On => AllPlaced(f, r, t, w, c, N)
    BY DEF BufferInv, BufferInvOf
  <1>2. \A x : x \in Places(k) <=> \E s, i, b : x = <<s, i, b>> /\ InPlaces(s, i, b, f, r, t, w, c)
    BY PlacesListed
  <1>3. N = 1 .. AllBuffers(k) /\ 0 \notin N
    BY BufferSets DEF BufferSet
  <1> HIDE DEF f, r, t, w, c, N
  <1>4. ASSUME NEW x \in Places(k), NEW y \in Places(k), x[3] = y[3] PROVE x = y
    <2>1. PICK s, i, b : x = <<s, i, b>> /\ InPlaces(s, i, b, f, r, t, w, c)
      BY <1>2
    <2>2. PICK s2, i2, b2 : y = <<s2, i2, b2>> /\ InPlaces(s2, i2, b2, f, r, t, w, c)
      BY <1>2
    <2>3. b = b2
      BY <1>4, <2>1, <2>2
    <2>4. s = s2 /\ i = i2
      BY <1>1, <2>1, <2>2, <2>3, PlacesDiffer
    <2> QED
      BY <2>1, <2>2, <2>3, <2>4
  <1>5. ASSUME NEW x \in Places(k) PROVE x[3] \in N
    <2>1. PICK s, i, b : x = <<s, i, b>> /\ InPlaces(s, i, b, f, r, t, w, c)
      BY <1>2
    <2>2. b \in ToSet(f) \cup ToSet(r) \cup ToSet(t) \cup ({w, c} \ {0})
      BY <2>1 DEF InPlaces, ToSet
    <2>3. b \in N
      BY <1>1, <2>2 DEF OncePlaced
    <2> QED
      BY <2>1, <2>3
  <1>6. ASSUME AllPlaced(f, r, t, w, c, N), NEW b \in N PROVE \E x \in Places(k) : x[3] = b
    <2>1. b \in ToSet(f) \/ b \in ToSet(r) \/ b \in ToSet(t) \/ (b = w /\ w # 0) \/ (b = c /\ c # 0)
      BY <1>3, <1>6 DEF AllPlaced
    <2>2. PICK s, i : InPlaces(s, i, b, f, r, t, w, c)
      BY <2>1 DEF InPlaces, ToSet
    <2>3. <<s, i, b>> \in Places(k) /\ <<s, i, b>>[3] = b
      BY <1>2, <2>2
    <2> QED
      BY <2>3
  <1>7. ~player.stopped /\ k \in On => {x[3] : x \in Places(k)} = N
    BY <1>1, <1>5, <1>6
  <1> QED
    BY <1>3, <1>4, <1>7

\* The frames on their way, stage by stage.
InWay(s, i, n, R, C, P, D, r, c, p, d) ==
    \/ s = 1 /\ i \in R /\ n = FrameTime[r[i]]
    \/ s = 2 /\ i \in C /\ n = NumberTime[c[i]]
    \/ s = 3 /\ i \in P /\ n = ItemTime[p[i]]
    \/ s = 4 /\ i \in D /\ n = ReadTime[d[i]]
OfThose(q, S) == {i \in DOMAIN q : q[i] \in S}
OnWay(s, i, n, k, r, c, p, d) ==
    InWay(s, i, n, OfThose(r, FrameType), OfThose(c, Nat), OfThose(p, Shown),
          OfThose(d, ReadOf(k)), r, c, p, d)
\* WayInv, in the terms of NothingSkipped.
LEMMA WayListed ==
    ASSUME PlayTypeOK, NEW k \in Kinds
    PROVE  \A x : x \in OnTheWay(k) <=> \E s, i, n :
              x = <<s, i, n>> /\ OnWay(s, i, n, k, ready[k], dec[k].codec, packets[k], demux.todo)
  <1> DEFINE r == ready[k]
             c == dec[k].codec
             p == packets[k]
             d == demux.todo
             R == OfThose(r, FrameType)
             C == OfThose(c, Nat)
             P == OfThose(p, Shown)
             D == OfThose(d, ReadOf(k))
  <1>1. r \in Seq(FrameType) /\ c \in Seq(Nat) /\ p \in Seq(ItemType) /\ d \in Seq(ReadType)
    BY Fields
  <1>2. OnTheWay(k) = {<<1, i, r[i].ts>> : i \in DOMAIN r}
                         \cup {<<2, i, c[i]>> : i \in DOMAIN c}
                         \cup {<<3, i, p[i].ts>> : i \in {j \in DOMAIN p : ~p[j].flush}}
                         \cup {<<4, i, d[i].item.ts>> :
                                  i \in {j \in DOMAIN d : d[j].kind = k /\ ~d[j].item.flush}}
    BY DEF OnTheWay
  <1> HIDE DEF r, c, p, d
  <1>3. R = DOMAIN r /\ \A i \in R : r[i].ts = FrameTime[r[i]]
    BY <1>1, ItemOf DEF FrameTime, OfThose
  <1>4. C = DOMAIN c /\ \A i \in C : c[i] = NumberTime[c[i]]
    BY <1>1, ItemOf DEF NumberTime, OfThose
  <1>5. P = {j \in DOMAIN p : ~p[j].flush} /\ \A i \in P : p[i].ts = ItemTime[p[i]]
    BY <1>1, ItemOf DEF ItemTime, OfThose, Shown
  <1>6. D = {j \in DOMAIN d : d[j].kind = k /\ ~d[j].item.flush} /\ \A i \in D : d[i].item.ts = ReadTime[d[i]]
    BY <1>1, ItemOf DEF ReadTime, OfThose, ReadOf
  <1> HIDE DEF R, C, P, D
  <1>7. ASSUME NEW x, x \in OnTheWay(k)
        PROVE  \E s, i, n : x = <<s, i, n>> /\ InWay(s, i, n, R, C, P, D, r, c, p, d)
    <2>1. CASE \E i \in R : x = <<1, i, FrameTime[r[i]]>>
      BY <2>1 DEF InWay
    <2>2. CASE \E i \in C : x = <<2, i, NumberTime[c[i]]>>
      BY <2>2 DEF InWay
    <2>3. CASE \E i \in P : x = <<3, i, ItemTime[p[i]]>>
      BY <2>3 DEF InWay
    <2>4. CASE \E i \in D : x = <<4, i, ReadTime[d[i]]>>
      BY <2>4 DEF InWay
    <2>5. \/ \E i \in R : x = <<1, i, FrameTime[r[i]]>>
          \/ \E i \in C : x = <<2, i, NumberTime[c[i]]>>
          \/ \E i \in P : x = <<3, i, ItemTime[p[i]]>>
          \/ \E i \in D : x = <<4, i, ReadTime[d[i]]>>
      BY <1>2, <1>3, <1>4, <1>5, <1>6, <1>7
    <2> QED
      BY <2>1, <2>2, <2>3, <2>4, <2>5
  <1>8. ASSUME NEW s, NEW i, NEW n, InWay(s, i, n, R, C, P, D, r, c, p, d)
        PROVE  <<s, i, n>> \in OnTheWay(k)
    BY <1>2, <1>3, <1>4, <1>5, <1>6, <1>8 DEF InWay
  <1> QED
    BY <1>7, <1>8 DEF R, C, P, D, r, c, p, d, OnWay

\* What follows on the way is later.
LEMMA WayOrdered ==
    ASSUME NEW k \in Kinds, NEW r \in Seq(FrameType), NEW c \in Seq(Nat), NEW p \in Seq(ItemType),
           NEW d \in Seq(ReadType), NEW all \in SUBSET Int, WayIs(k, r, c, p, d, all)
    PROVE  /\ \A s, i, n : OnWay(s, i, n, k, r, c, p, d) => s \in 1 .. 4 /\ i \in Nat /\ n \in all
           /\ \A n \in all : \E s, i : OnWay(s, i, n, k, r, c, p, d)
           /\ \A s, i, n, s2, i2, n2 :
                 OnWay(s, i, n, k, r, c, p, d) /\ OnWay(s2, i2, n2, k, r, c, p, d) =>
                    (n < n2 <=> s < s2 \/ (s = s2 /\ i < i2))
  <1> DEFINE IR == OfThose(r, FrameType)
             IC == OfThose(c, Nat)
             IP == OfThose(p, Shown)
             ID == OfThose(d, ReadOf(k))
             R == TimesIn(r, FrameType, FrameTime)
             C == TimesIn(c, Nat, NumberTime)
             P == TimesIn(p, Shown, ItemTime)
             D == TimesIn(d, ReadOf(k), ReadTime)
             On4(s, i, n) == InWay(s, i, n, IR, IC, IP, ID, r, c, p, d)
  <1>1. IR \subseteq Nat /\ IC \subseteq Nat /\ IP \subseteq Nat /\ ID \subseteq Nat
    <2>1. DOMAIN r \subseteq Nat /\ DOMAIN c \subseteq Nat /\ DOMAIN p \subseteq Nat /\ DOMAIN d \subseteq Nat
      OBVIOUS
    <2> QED
      BY <2>1 DEF OfThose
  <1>2. /\ R = {FrameTime[r[i]] : i \in IR} /\ C = {NumberTime[c[i]] : i \in IC}
        /\ P = {ItemTime[p[i]] : i \in IP} /\ D = {ReadTime[d[i]] : i \in ID}
    BY DEF TimesIn, OfThose
  <1>3. /\ \A i, j \in IR : i < j => FrameTime[r[i]] < FrameTime[r[j]]
        /\ \A i, j \in IC : i < j => NumberTime[c[i]] < NumberTime[c[j]]
        /\ \A i, j \in IP : i < j => ItemTime[p[i]] < ItemTime[p[j]]
        /\ \A i, j \in ID : i < j => ReadTime[d[i]] < ReadTime[d[j]]
    BY DEF WayIs, AscendIn, OfThose
  <1>4. /\ Under(R, C) /\ Under(R, P) /\ Under(R, D) /\ Under(C, P) /\ Under(C, D) /\ Under(P, D)
        /\ R \cup C \cup P \cup D = all
    BY DEF WayIs, InChain
  <1> HIDE DEF IR, IC, IP, ID, R, C, P, D
  <1>6. ASSUME NEW s, NEW i, NEW n, On4(s, i, n)
        PROVE  /\ s \in 1 .. 4 /\ i \in Nat /\ n \in Int /\ n \in all
               /\ s = 1 => i \in IR /\ n = FrameTime[r[i]] /\ n \in R
               /\ s = 2 => i \in IC /\ n = NumberTime[c[i]] /\ n \in C
               /\ s = 3 => i \in IP /\ n = ItemTime[p[i]] /\ n \in P
               /\ s = 4 => i \in ID /\ n = ReadTime[d[i]] /\ n \in D
    <2>1. (s = 1 /\ i \in IR) \/ (s = 2 /\ i \in IC) \/ (s = 3 /\ i \in IP) \/ (s = 4 /\ i \in ID)
      BY <1>6 DEF InWay
    <2>2. s \in 1 .. 4 /\ i \in Nat
      <3>1. s = 1 \/ s = 2 \/ s = 3 \/ s = 4
        BY <2>1
      <3>2. s \in 1 .. 4
        BY <3>1
      <3>3. i \in IR \cup IC \cup IP \cup ID
        BY <2>1
      <3>4. i \in Nat
        BY <1>1, <3>3
      <3> QED
        BY <3>2, <3>4
    <2>3. /\ s = 1 => i \in IR /\ n = FrameTime[r[i]] /\ n \in R
          /\ s = 2 => i \in IC /\ n = NumberTime[c[i]] /\ n \in C
          /\ s = 3 => i \in IP /\ n = ItemTime[p[i]] /\ n \in P
          /\ s = 4 => i \in ID /\ n = ReadTime[d[i]] /\ n \in D
      BY <1>2, <1>6 DEF InWay
    <2>4. n \in all
      BY <1>4, <2>2, <2>3
    <2> QED
      BY <2>2, <2>3, <2>4
  <1>7. ASSUME NEW s, NEW i, NEW n, NEW s2, NEW i2, NEW n2, On4(s, i, n), On4(s2, i2, n2),
               s < s2 \/ (s = s2 /\ i < i2)
        PROVE  n < n2
    <2>a. /\ s \in 1 .. 4
          /\ s = 1 => i \in IR /\ n = FrameTime[r[i]] /\ n \in R
          /\ s = 2 => i \in IC /\ n = NumberTime[c[i]] /\ n \in C
          /\ s = 3 => i \in IP /\ n = ItemTime[p[i]] /\ n \in P
          /\ s = 4 => i \in ID /\ n = ReadTime[d[i]] /\ n \in D
      BY <1>6, <1>7
    <2>b. /\ s2 \in 1 .. 4
          /\ s2 = 1 => i2 \in IR /\ n2 = FrameTime[r[i2]] /\ n2 \in R
          /\ s2 = 2 => i2 \in IC /\ n2 = NumberTime[c[i2]] /\ n2 \in C
          /\ s2 = 3 => i2 \in IP /\ n2 = ItemTime[p[i2]] /\ n2 \in P
          /\ s2 = 4 => i2 \in ID /\ n2 = ReadTime[d[i2]] /\ n2 \in D
      BY <1>6, <1>7
    <2>1. CASE s < s2
      BY <1>4, <2>1, <2>a, <2>b DEF Under
    <2>2. CASE s = s2 /\ i < i2
      BY <1>3, <2>2, <2>a, <2>b
    <2> QED
      BY <1>7, <2>1, <2>2
  <1>8. ASSUME NEW s, NEW i, NEW n, NEW s2, NEW i2, NEW n2, On4(s, i, n), On4(s2, i2, n2), n < n2
        PROVE  s < s2 \/ (s = s2 /\ i < i2)
    <2>a. s \in 1 .. 4 /\ i \in Nat /\ n \in Int /\ s2 \in 1 .. 4 /\ i2 \in Nat /\ n2 \in Int
      BY <1>6, <1>8
    <2>1. CASE s2 < s \/ (s2 = s /\ i2 < i)
      <3>1. n2 < n
        BY <1>7, <1>8, <2>1
      <3> QED
        BY <1>8, <2>a, <3>1
    <2>2. CASE s = s2 /\ i = i2
      <3>1. n = n2
        BY <1>8, <2>2 DEF InWay
      <3> QED
        BY <1>8, <2>a, <3>1
    <2> QED
      BY <2>1, <2>2, <2>a
  <1>9. ASSUME NEW n \in all PROVE \E s, i : On4(s, i, n)
    <2>1. CASE n \in R
      BY <1>2, <2>1 DEF InWay
    <2>2. CASE n \in C
      BY <1>2, <2>2 DEF InWay
    <2>3. CASE n \in P
      BY <1>2, <2>3 DEF InWay
    <2>4. CASE n \in D
      BY <1>2, <2>4 DEF InWay
    <2> QED
      BY <1>4, <2>1, <2>2, <2>3, <2>4
  <1>10. \A s, i, n : OnWay(s, i, n, k, r, c, p, d) <=> On4(s, i, n)
    BY DEF OnWay, IR, IC, IP, ID
  <1> HIDE DEF On4
  <1> QED
    BY <1>6, <1>7, <1>8, <1>9, <1>10

LEMMA NothingIsSkipped ==
    ASSUME AvPlayerAssumption, PlayTypeOK, WayInv
    PROVE  NothingSkipped
  <1> SUFFICES ASSUME Going, NEW k \in On
               PROVE  /\ {x[3] : x \in OnTheWay(k)} = FramesOf(k, given[k], UpTo)
                      /\ \A x, y \in OnTheWay(k) : x[3] < y[3] <=> Before(x, y)
    BY DEF NothingSkipped, Going, UpTo
  <1>1. k \in Kinds
    BY SourceFacts
  <1> DEFINE all == FramesOf(k, given[k], UpTo)
             Has(s, i, n) == OnWay(s, i, n, k, ready[k], dec[k].codec, packets[k], demux.todo)
  <1>2. WayIs(k, ready[k], dec[k].codec, packets[k], demux.todo, all) /\ all \in SUBSET Int
    <2>1. all \subseteq Int
      BY FrameNat DEF FramesOf
    <2> HIDE DEF all
    <2> QED
      BY <2>1 DEF WayInv, WayOf, all
  <1>3. \A x : x \in OnTheWay(k) <=> \E s, i, n : x = <<s, i, n>> /\ Has(s, i, n)
    BY <1>1, WayListed
  <1>4. /\ \A s, i, n : Has(s, i, n) => s \in 1 .. 4 /\ i \in Nat /\ n \in all
        /\ \A n \in all : \E s, i : Has(s, i, n)
        /\ \A s, i, n, s2, i2, n2 :
              Has(s, i, n) /\ Has(s2, i2, n2) => (n < n2 <=> s < s2 \/ (s = s2 /\ i < i2))
    <2> DEFINE r == ready[k]
               c == dec[k].codec
               p == packets[k]
               d == demux.todo
    <2>1. r \in Seq(FrameType) /\ c \in Seq(Nat) /\ p \in Seq(ItemType) /\ d \in Seq(ReadType)
      BY <1>1, Fields
    <2> HIDE DEF r, c, p, d, all
    <2>2. WayIs(k, r, c, p, d, all) /\ all \in SUBSET Int
      BY <1>2 DEF r, c, p, d
    <2>3. /\ \A s, i, n : OnWay(s, i, n, k, r, c, p, d) => s \in 1 .. 4 /\ i \in Nat /\ n \in all
          /\ \A n \in all : \E s, i : OnWay(s, i, n, k, r, c, p, d)
          /\ \A s, i, n, s2, i2, n2 :
                OnWay(s, i, n, k, r, c, p, d) /\ OnWay(s2, i2, n2, k, r, c, p, d) =>
                   (n < n2 <=> s < s2 \/ (s = s2 /\ i < i2))
      BY <1>1, <2>1, <2>2, WayOrdered
    <2> QED
      BY <2>3 DEF r, c, p, d
  <1> HIDE DEF all, Has
  <1>5. ASSUME NEW x \in OnTheWay(k) PROVE x[3] \in all
    <2>1. PICK s, i, n : x = <<s, i, n>> /\ Has(s, i, n)
      BY <1>3
    <2> QED
      BY <1>4, <2>1
  <1>6. ASSUME NEW n \in all PROVE \E x \in OnTheWay(k) : x[3] = n
    <2>1. PICK s, i : Has(s, i, n)
      BY <1>4
    <2>2. <<s, i, n>> \in OnTheWay(k) /\ <<s, i, n>>[3] = n
      BY <1>3, <2>1
    <2> QED
      BY <2>2
  <1>7. ASSUME NEW x \in OnTheWay(k), NEW y \in OnTheWay(k) PROVE x[3] < y[3] <=> Before(x, y)
    <2>1. PICK s, i, n : x = <<s, i, n>> /\ Has(s, i, n)
      BY <1>3
    <2>2. PICK s2, i2, n2 : y = <<s2, i2, n2>> /\ Has(s2, i2, n2)
      BY <1>3
    <2>3. n < n2 <=> s < s2 \/ (s = s2 /\ i < i2)
      BY <1>4, <2>1, <2>2
    <2>4. x[1] = s /\ x[2] = i /\ x[3] = n /\ y[1] = s2 /\ y[2] = i2 /\ y[3] = n2
      BY <2>1, <2>2
    <2> QED
      BY <2>3, <2>4 DEF Before
  <1> QED
    BY <1>5, <1>6, <1>7 DEF all

\* EndInv, in the terms of EndComplete.
LEMMA EndIsComplete ==
    ASSUME AvPlayerAssumption, PlayTypeOK, Shape, WayInv, EndInv
    PROVE  EndComplete
  <1> SUFFICES ASSUME Playing, ~player.failed, ~Active, NEW k \in On
               PROVE  FramesOf(k, given[k], Size * (source.rounds + 1)) = {}
    BY DEF EndComplete
  <1>1. k \in Kinds /\ Size \in Nat /\ source.rounds \in Nat
    BY SourceFacts
  <1>2. player.eof /\ player.done[k] /\ ready[k] = <<>>
    BY <1>1 DEF Active, Playing, Kinds
  <1>3. Going
    BY DEF EndInv, Going
  <1>4. demux.pos = Size /\ demux.round = source.rounds /\ packets[k] = <<>>
    BY <1>2, <1>3 DEF EndInv
  <1>5. dec[k].codec = <<>> /\ demux.todo = <<>>
    BY <1>1, <1>2 DEF Shape, DemuxShape, DecoderShape, IsOff
  <1>6. UpTo = Size * (source.rounds + 1)
    <2> DEFINE n == Size
               m == source.rounds
    <2>1. UpTo = n + m * n /\ n \in Nat /\ m \in Nat
      BY <1>1, <1>4 DEF UpTo
    <2> HIDE DEF n, m
    <2>2. n + m * n = n * (m + 1)
      BY <2>1
    <2> QED
      BY <2>1, <2>2 DEF n, m
  <1> DEFINE all == FramesOf(k, given[k], UpTo)
  <1>7. WayIs(k, <<>>, <<>>, <<>>, <<>>, all)
    BY <1>2, <1>3, <1>4, <1>5 DEF WayInv, WayOf
  <1> HIDE DEF all
  <1>8. all = {}
    BY <1>7, NoTimes DEF WayIs
  <1> QED
    BY <1>6, <1>8 DEF all

LEMMA SleepersAreHeard ==
    ASSUME SleepInv
    PROVE  SleepersHeard
  BY DEF SleepInv, SleepersHeard, DemuxWaits, DecoderWaits, Full, Room

\* The inductive invariant.
PlayInv == PlayTypeOK /\ Shape /\ BufferInv /\ WayInv /\ EndInv /\ SleepInv

LEMMA PlayStarts ==
    ASSUME AvPlayerAssumption, Init
    PROVE  PlayInv
  <1>1. player.stopped /\ ~player.stop /\ demux.pc = "off" /\ \A k \in Kinds : dec[k].pc = "off"
    BY DEF Init, OffDemux, OffDecoder, OfEach
  <1>2. WayInv /\ EndInv
    BY <1>1 DEF WayInv, EndInv, Going, Playing
  <1>3. SleepInv
    BY <1>1 DEF SleepInv, DemuxWaits, DecoderWaits
  <1> QED
    BY <1>2, <1>3, PlayTypeStarts, ShapeStarts, BuffersStart DEF PlayInv

LEMMA PlayStutters ==
    ASSUME AvPlayerAssumption, PlayInv, UNCHANGED playerVars
    PROVE  PlayInv'
  <1>1. UNCHANGED <<source, ctl, player, demux, dec, packets, free, ready, current, retired,
                    given, missed>>
    BY DEF playerVars
  <1>2. PlayTypeOK'
    BY <1>1 DEF PlayInv, PlayTypeOK
  <1>3. Shape'
    BY <1>1 DEF PlayInv, Shape, DemuxShape, DecoderShape, ControlShape, Joined, Emptied
  <1>4. BufferInv'
    BY <1>1, SameSource DEF PlayInv, BufferInv, BufferInvOf, Retired
  <1>5. WayInv'
    <2>1. UpTo' = UpTo /\ On' = On
      BY <1>1, SameSource, PlaceStays DEF DemuxPlace
    <2>2. \A k : WayOf(k) => WayOf(k)'
      BY <1>1, <2>1, WayStays
    <2> QED
      BY <1>1, <2>1, <2>2 DEF PlayInv, WayInv, Going, Playing
  <1>6. EndInv'
    BY <1>1, EndStays DEF PlayInv, DemuxPlace
  <1>7. SleepInv'
    BY <1>1 DEF PlayInv, SleepInv, DemuxWaits, DecoderWaits
  <1> QED
    BY <1>2, <1>3, <1>4, <1>5, <1>6, <1>7 DEF PlayInv

LEMMA PlayKeeps ==
    ASSUME AvPlayerAssumption, PlayInv, [Next]_playerVars
    PROVE  PlayInv'
  <1>i. PlayTypeOK /\ Shape /\ BufferInv /\ WayInv /\ EndInv /\ SleepInv
    BY DEF PlayInv
  <1>1. CASE Demux \/ ReadFails
    BY <1>i, <1>1, DemuxTyped, DemuxShaped, DemuxBuffers, DemuxWay, DemuxEnd, DemuxAwake DEF PlayInv
  <1>2. ASSUME NEW k \in Kinds, Decoder(k) \/ WriteFails(k) PROVE PlayInv'
    BY <1>i, <1>2, ShapeWrites, DecoderTyped, DecodersShaped, DecodersBuffers, DecodersWay, DecodersEnd,
       DecodersAwake DEF PlayInv
  <1>3. CASE \/ Control
             \/ \E call \in {"start", "stop", "jump", "change"}, from \in Starts : Begins(call, from)
    BY <1>i, <1>3, ControlTyped, ControlShaped, ControlBuffers, ControlWay, ControlEnd,
       ControlAwake DEF PlayInv
  <1>4. CASE Video \/ Audio \/ \E pause \in BOOLEAN : PauseOrResume(pause)
    BY <1>i, <1>4, GuestTyped, GuestShaped, GuestBuffers, GuestWay, GuestEnd, GuestAwake DEF PlayInv
  <1>5. CASE UNCHANGED playerVars
    BY <1>5, PlayStutters
  <1>6. CASE Next
    BY <1>1, <1>2, <1>3, <1>4, <1>6 DEF Next
  <1> QED
    BY <1>5, <1>6

\* While it plays a movie, however the threads, the guest and the failures follow each
\* other: a buffer is in one place, and none is lost; what is between the last frame
\* that the guest has and the demuxer is on its way, once and in order; the player is
\* inactive only when the guest has all; who sleeps has to, but for a missed notify.
THEOREM PlayerCorrect == ASSUME AvPlayerAssumption PROVE Spec => []PlayerSound
  <1>1. Init => PlayInv
    BY PlayStarts
  <1>2. PlayInv /\ [Next]_playerVars => PlayInv'
    BY PlayKeeps
  <1>3. PlayInv => PlayerSound
    BY BuffersAreOnce, NothingIsSkipped, EndIsComplete, SleepersAreHeard DEF PlayInv, PlayerSound
  <1> QED
    BY <1>1, <1>2, <1>3, PTL DEF Spec
=============================================================================
