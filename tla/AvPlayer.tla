------------------------------- MODULE AvPlayer -------------------------------
(***************************************************************************)
(* A source of the guest's movie player, src/src/libs/avPlayer.cpp: a      *)
(* demuxer thread reads packets of a file into bounded queues, a decoder   *)
(* thread of each stream turns them into frames in buffers of the guest,   *)
(* and the guest takes the frames.  Each queue has a mutex and a condition *)
(* variable; worker_stop and demux_eof are atomics that the predicates     *)
(* read and that are set, and notified, without the mutex.                 *)
(*                                                                         *)
(* A packet gives one frame, whose time is the packet's place in the file. *)
(* A codec keeps Delay frames back until it is drained.  Guest calls under *)
(* Source::mutex are one step, those under lifecycle_mutex follow each     *)
(* other.  In the last round the guest has turned looping off.             *)
(***************************************************************************)
EXTENDS Integers, Sequences, FiniteSets, SequencesExt

CONSTANTS Sources,       \* file (a sequence of "video" and "audio"), rounds, sync_mode
          Starts,        \* places at which the guest starts or jumps to
          Capacity,      \* packets a queue holds
          VideoBuffers,  \* max_video_buffers
          AudioBuffers,  \* AVPLAYER_AUDIO_BUFFERS
          Delay,
          MaxPlays,      \* bound: calls that start, stop or pause
          MaxFaults      \* bound: failures of a library or an allocation

Kinds == {"video", "audio"}

AvPlayerAssumption ==
    /\ \A s \in Sources : /\ s.file \in Seq(Kinds) \ {<<>>}
                           /\ s.rounds \in Nat /\ s.sync \in {0, 1}
    /\ Starts \subseteq Nat
    /\ Capacity \in Nat \ {0} /\ VideoBuffers \in 2 .. 16 /\ AudioBuffers \in Nat \ {0}
    /\ Delay \in [Kinds -> Nat]

VARIABLES source,    \* the source that is played
          ctl,       \* the call under lifecycle_mutex
          player,    \* the flags of Source
          demux,     \* the demuxer: where it reads, what it has to push
          dec,       \* the decoder of each stream, its codec and its buffer
          packets, free, ready,     \* video_packets, video_buffers, video_frames, ...
          current, retired,         \* the frame the guest has; retired_video
          given,     \* history: the time of the last frame of each stream since the start
          missed,    \* history: a thread between its check and its sleep missed a notify
          plays, faults

playerVars == <<source, ctl, player, demux, dec, packets, free, ready, current, retired,
                given, missed, plays, faults>>
queues == <<packets, free, ready>>
held == <<current, retired>>

Size == Len(source.file)
On == {source.file[i] : i \in 1 .. Size}
AllBuffers(k) == IF k = "video" THEN VideoBuffers ELSE AudioBuffers
NoFrame == [buf |-> 0, ts |-> -1]
Packet(ts) == [ts |-> ts, flush |-> FALSE]
Flush(offset) == [ts |-> offset, flush |-> TRUE]
OffDemux == [pc |-> "off", pos |-> 0, round |-> 0, todo |-> <<>>]
OffDecoder == [pc |-> "off", codec |-> <<>>, drain |-> FALSE, next |-> -1, buf |-> 0]
OfEach(x) == [k \in Kinds |-> x]

Init ==
    /\ source \in Sources
    /\ ctl = [pc |-> "idle", call |-> "none", from |-> 0]
    /\ player = [stopped |-> TRUE, paused |-> FALSE, seekFrame |-> FALSE, failed |-> FALSE,
                 stop |-> FALSE, eof |-> TRUE, done |-> OfEach(TRUE), lastAudio |-> 0]
    /\ demux = OffDemux /\ dec = OfEach(OffDecoder)
    /\ packets = OfEach(<<>>) /\ free = OfEach(<<>>) /\ ready = OfEach(<<>>)
    /\ current = OfEach(NoFrame) /\ retired = <<>>
    /\ given = OfEach(-1) /\ missed = FALSE /\ plays = 0 /\ faults = 0

MayFault == faults < MaxFaults /\ faults' = faults + 1

\* notify_all of a queue wakes who sleeps on its condition variable; who has seen
\* its predicate fail and still holds the mutex (checked) does not hear it.
Woken(d) == IF d.pc = "asleep" THEN [d EXCEPT !.pc = "run"] ELSE d
WakesPopper(k) == [dec EXCEPT ![k] = IF @.pc = "popAsleep" THEN [@ EXCEPT !.pc = "pop"] ELSE @]
WakesDemux(k) == IF demux.pc = "asleep" /\ Head(demux.todo).kind = k THEN Woken(demux) ELSE demux

\* All sleepers hear NotifyWorkers.
AllAwake(ds) == [k \in Kinds |-> CASE ds[k].pc = "popAsleep" -> [ds[k] EXCEPT !.pc = "pop"]
                                   [] ds[k].pc = "bufAsleep" -> [ds[k] EXCEPT !.pc = "receive"]
                                   [] OTHER -> ds[k]]
Checked(d, ds) == d.pc = "checked" \/ \E k \in Kinds : ds[k].pc \in {"popChecked", "bufChecked"}
NotifyWorkers(d, ds) == /\ demux' = Woken(d) /\ dec' = AllAwake(ds)
                        /\ missed' = (missed \/ Checked(d, ds))

\* The packet queue's mutex is free for the other side.
DemuxChecks(k) == demux.pc = "checked" /\ Head(demux.todo).kind = k

(*** The demuxer ***********************************************************)
DemuxEnds == [demux EXCEPT !.pc = "off", !.todo = <<>>]

\* demux_eof is set and both packet queues are notified.
EndOfFile ==
    /\ player' = [player EXCEPT !.eof = TRUE]
    /\ demux' = DemuxEnds
    /\ dec' = [k \in Kinds |-> WakesPopper(k)[k]]
    /\ missed' = (missed \/ \E k \in Kinds : dec[k].pc = "popChecked")

Reads ==
    /\ demux.pc = "run" /\ demux.todo = <<>> /\ ~player.stop /\ demux.pos < Size
    /\ demux' = [demux EXCEPT !.pos = @ + 1,
                              !.todo = <<[kind |-> source.file[demux.pos + 1],
                                          item |-> Packet(demux.pos + demux.round * Size)]>>]
    /\ UNCHANGED <<source, ctl, player, dec, queues, held, given, missed, plays, faults>>

\* At the end of the file the demuxer goes round: each decoder is told to drain.
GoesRound ==
    /\ demux.pc = "run" /\ demux.todo = <<>> /\ ~player.stop
    /\ demux.pos = Size /\ demux.round < source.rounds
    /\ LET Tell(k) == IF k \in On THEN <<[kind |-> k, item |-> Flush((demux.round + 1) * Size)]>> ELSE <<>>
       IN demux' = [demux EXCEPT !.pos = 0, !.round = @ + 1, !.todo = Tell("video") \o Tell("audio")]
    /\ UNCHANGED <<source, ctl, player, dec, queues, held, given, missed, plays, faults>>

\* The end, or worker_stop seen at the head of the loop or in Push.
DemuxReturns ==
    /\ demux.pc = "run"
    /\ player.stop \/ (demux.todo = <<>> /\ demux.pos = Size /\ demux.round = source.rounds)
    /\ EndOfFile
    /\ UNCHANGED <<source, ctl, queues, held, given, plays, faults>>

\* av_read_frame fails: FailPipeline, then the end of the thread.
ReadFails ==
    /\ demux.pc = "run" /\ demux.todo = <<>> /\ ~player.stop /\ MayFault
    /\ player' = [player EXCEPT !.failed = TRUE, !.stop = TRUE, !.eof = TRUE]
    /\ NotifyWorkers(DemuxEnds, dec)
    /\ UNCHANGED <<source, ctl, queues, held, given, plays>>

Bytes(q) == Len(SelectSeq(q, LAMBDA item : ~item.flush))
Room(k, item) == packets[k] = <<>> \/ item.flush \/ Bytes(packets[k]) < Capacity

Push ==
    /\ demux.pc = "run" /\ demux.todo # <<>> /\ ~player.stop
    /\ LET k == Head(demux.todo).kind
           item == Head(demux.todo).item
       IN /\ dec[k].pc # "popChecked"
          /\ IF Room(k, item)
             THEN /\ packets' = [packets EXCEPT ![k] = Append(@, item)]
                  /\ demux' = [demux EXCEPT !.todo = Tail(@)]
                  /\ dec' = WakesPopper(k)
             ELSE demux' = [demux EXCEPT !.pc = "checked"] /\ UNCHANGED <<packets, dec>>
    /\ UNCHANGED <<source, ctl, player, free, ready, held, given, missed, plays, faults>>

DemuxSleeps ==
    /\ demux.pc = "checked"
    /\ demux' = [demux EXCEPT !.pc = "asleep"]
    /\ UNCHANGED <<source, ctl, player, dec, queues, held, given, missed, plays, faults>>

Demux == Reads \/ GoesRound \/ DemuxReturns \/ Push \/ DemuxSleeps

(*** A decoder *************************************************************)
Exit(k) == [dec EXCEPT ![k] = OffDecoder]

\* PacketQueue::WaitPop and what follows it up to ReceiveFrames.  The codec holds
\* the times of its frames with the offset of their round.
Pop(k) ==
    /\ dec[k].pc = "pop" /\ ~player.stop /\ ~DemuxChecks(k)
    /\ IF packets[k] # <<>>
       THEN LET item == Head(packets[k])
            IN /\ packets' = [packets EXCEPT ![k] = Tail(@)]
               /\ dec' = [dec EXCEPT ![k] =
                     IF item.flush
                     THEN [@ EXCEPT !.pc = "receive", !.drain = TRUE, !.next = item.ts]
                     ELSE [@ EXCEPT !.pc = "receive", !.codec = Append(dec[k].codec, item.ts)]]
               /\ demux' = WakesDemux(k)
       ELSE /\ dec' = [dec EXCEPT ![k] =
                  IF player.eof THEN [@ EXCEPT !.pc = "receive", !.drain = TRUE, !.next = -1]
                  ELSE [@ EXCEPT !.pc = "popChecked"]]
            /\ UNCHANGED <<packets, demux>>
    /\ UNCHANGED <<source, ctl, player, free, ready, held, given, missed, plays, faults>>

Receivable(k) == Len(dec[k].codec) > (IF dec[k].drain THEN 0 ELSE Delay[k])

\* ReceiveFrames: a frame waits for a buffer; without one the decoder goes on,
\* after a drain with the next round or, at the end, with its return.
Receive(k) ==
    /\ dec[k].pc = "receive" /\ ~player.stop
    /\ \/ /\ Receivable(k)
          /\ IF free[k] # <<>>
             THEN /\ dec' = [dec EXCEPT ![k].pc = "write", ![k].buf = Head(free[k])]
                  /\ free' = [free EXCEPT ![k] = Tail(@)]
             ELSE dec' = [dec EXCEPT ![k].pc = "bufChecked"] /\ UNCHANGED free
          /\ UNCHANGED player
       \/ /\ ~Receivable(k) /\ ~(dec[k].drain /\ dec[k].next = -1)
          /\ dec' = [dec EXCEPT ![k] = [@ EXCEPT !.pc = "pop", !.drain = FALSE, !.next = -1]]
          /\ UNCHANGED <<free, player>>
       \/ /\ ~Receivable(k) /\ dec[k].drain /\ dec[k].next = -1
          /\ dec' = Exit(k)
          /\ player' = [player EXCEPT !.done[k] = TRUE]
          /\ UNCHANGED free
    /\ UNCHANGED <<source, ctl, demux, packets, ready, held, given, missed, plays, faults>>

DecoderStops(k) ==
    /\ dec[k].pc \in {"pop", "receive"} /\ player.stop
    /\ dec' = Exit(k)
    /\ player' = [player EXCEPT !.done[k] = TRUE]
    /\ UNCHANGED <<source, ctl, demux, queues, held, given, missed, plays, faults>>

DecoderSleeps(k) ==
    /\ dec[k].pc \in {"popChecked", "bufChecked"}
    /\ dec' = [dec EXCEPT ![k].pc = IF @ = "popChecked" THEN "popAsleep" ELSE "bufAsleep"]
    /\ UNCHANGED <<source, ctl, player, demux, queues, held, given, missed, plays, faults>>

\* PrepareVideo and PrepareAudio fill the buffer; the frame is ready.
Write(k) ==
    /\ dec[k].pc = "write"
    /\ ready' = [ready EXCEPT ![k] = Append(@, [buf |-> dec[k].buf, ts |-> Head(dec[k].codec)])]
    /\ dec' = [dec EXCEPT ![k] = [@ EXCEPT !.pc = "receive", !.buf = 0, !.codec = Tail(dec[k].codec)]]
    /\ UNCHANGED <<source, ctl, player, demux, packets, free, held, given, missed, plays, faults>>

\* The conversion fails: the buffer goes back, then FailPipeline unless it stops.
WriteFails(k) ==
    /\ dec[k].pc = "write" /\ MayFault
    /\ free' = [free EXCEPT ![k] = Append(@, dec[k].buf)]
    /\ player' = [player EXCEPT !.done[k] = TRUE, !.failed = @ \/ ~player.stop, !.stop = TRUE]
    /\ IF player.stop THEN dec' = Exit(k) /\ UNCHANGED <<demux, missed>>
       ELSE NotifyWorkers(demux, Exit(k))
    /\ UNCHANGED <<source, ctl, packets, ready, held, given, plays>>

Decoder(k) == Pop(k) \/ Receive(k) \/ DecoderStops(k) \/ DecoderSleeps(k) \/ Write(k)

(*** The guest's calls ****************************************************)
\* Start, Stop, Jump and Change: no frame is handed out any more.
Begins(call, from) ==
    /\ ctl.pc = "idle" /\ plays < MaxPlays
    /\ call = "change" => ~player.stopped /\ "audio" \in On
    /\ call = "stop" => from = 0
    /\ plays' = plays + 1
    /\ ctl' = [pc |-> "stopping", call |-> call, from |-> from]
    /\ player' = [player EXCEPT !.stopped = TRUE]
    /\ UNCHANGED <<source, demux, dec, queues, held, given, missed, faults>>

\* StopWorkers.
Stops ==
    /\ ctl.pc \in {"stopping", "unlaunching"}
    /\ ctl' = [ctl EXCEPT !.pc = IF @ = "stopping" THEN "joining" ELSE "unjoining"]
    /\ player' = [player EXCEPT !.stop = TRUE]
    /\ NotifyWorkers(demux, dec)
    /\ UNCHANGED <<source, queues, held, given, plays, faults>>

Joined == demux.pc = "off" /\ \A k \in Kinds : dec[k].pc = "off"

\* ResetNoLock: a restart keeps the frames the guest has.
Cleared == packets' = OfEach(<<>>) /\ ready' = OfEach(<<>>)
Ended(p) == [p EXCEPT !.eof = TRUE, !.done = OfEach(TRUE), !.seekFrame = FALSE, !.lastAudio = 0]

HeldBuffers(k) == {current[k].buf} \cup IF k = "video" THEN ToSet(retired) ELSE {}
NewBuffers_All(k) == [i \in 1 .. AllBuffers(k) |-> i]
\* As many new buffers as are missing: those that are not held, in whatever order.
NewBuffers(k) == SetToSeq(1 .. AllBuffers(k) \ HeldBuffers(k))

StopEnds ==
    /\ ctl.pc = "joining" /\ ctl.call = "stop" /\ Joined
    /\ ctl' = [ctl EXCEPT !.pc = "idle"]
    /\ player' = Ended(player)
    /\ Cleared /\ free' = OfEach(<<>>)
    /\ current' = OfEach(NoFrame) /\ retired' = <<>>
    /\ UNCHANGED <<source, demux, dec, given, missed, plays, faults>>

\* The second section of StartImpl: buffers are allocated, the file is sought.
Resets ==
    /\ ctl.pc = "joining" /\ ctl.call # "stop" /\ Joined
    /\ Cleared
    /\ \/ /\ ctl' = [ctl EXCEPT !.pc = "launching"]
          /\ free' = [k \in Kinds |-> IF k \in On THEN NewBuffers(k) ELSE <<>>]
          /\ player' = [Ended(player) EXCEPT
                           !.stopped = FALSE,
                           !.paused = @ /\ ctl.call # "start",
                           !.seekFrame = player.paused /\ ctl.call = "jump" /\ "video" \in On]
          /\ given' = OfEach(ctl.from - 1)
          /\ UNCHANGED faults
       \/ /\ MayFault     \* OpenCodecs or AllocateBuffers
          /\ ctl' = [ctl EXCEPT !.pc = "idle"]
          /\ free' = OfEach(<<>>) /\ player' = Ended(player)
          /\ UNCHANGED given
    /\ UNCHANGED <<source, demux, dec, held, missed, plays>>

Started(ks) == [k \in Kinds |-> IF k \in ks THEN [OffDecoder EXCEPT !.pc = "pop"] ELSE OffDecoder]

\* StartWorkers; a thread that cannot be created ends those created before it.
Launches ==
    /\ ctl.pc = "launching"
    /\ player' = [player EXCEPT !.stop = FALSE, !.failed = FALSE, !.eof = FALSE,
                                !.done = [k \in Kinds |-> k \notin On]]
    /\ \/ /\ ctl' = [ctl EXCEPT !.pc = "idle"]
          /\ dec' = Started(On)
          /\ demux' = [OffDemux EXCEPT !.pc = "run", !.pos = ctl.from]
          /\ UNCHANGED faults
       \/ /\ MayFault
          /\ \E ks \in SUBSET On : ("audio" \in ks => "video" \in ks \/ "video" \notin On)
                                      /\ dec' = Started(ks)
          /\ ctl' = [ctl EXCEPT !.pc = "unlaunching"]
          /\ UNCHANGED demux
    /\ UNCHANGED <<source, queues, held, given, missed, plays>>

\* The end of a start without its workers.
GivesUp ==
    /\ ctl.pc = "unjoining" /\ Joined
    /\ ctl' = [ctl EXCEPT !.pc = "idle"]
    /\ player' = [Ended(player) EXCEPT !.stopped = TRUE]
    /\ Cleared /\ free' = OfEach(<<>>)
    /\ UNCHANGED <<source, demux, dec, held, given, missed, plays, faults>>

Control == Stops \/ StopEnds \/ Resets \/ Launches \/ GivesUp

PauseOrResume(pause) ==
    /\ ctl.pc = "idle" /\ player.paused # pause
    /\ pause => plays < MaxPlays
    /\ plays' = plays + (IF pause THEN 1 ELSE 0)
    /\ player' = [player EXCEPT !.paused = pause, !.seekFrame = @ /\ pause]
    /\ UNCHANGED <<source, ctl, demux, dec, queues, held, given, missed, faults>>

\* Without audio the clock decides; it reaches every time.
InTime(ts) == \/ player.paused \/ source.sync # 0 \/ "audio" \notin On
              \/ ts <= player.lastAudio

\* The buffer before the last max_video_buffers - 1 goes back to the decoder.
Video ==
    /\ ~player.stopped /\ (player.paused => player.seekFrame)
    /\ ready["video"] # <<>> /\ InTime(Head(ready["video"]).ts)
    /\ LET frame == Head(ready["video"])
           old == IF current["video"] = NoFrame THEN retired ELSE Append(retired, current["video"].buf)
           recycles == current["video"] # NoFrame /\ Len(old) >= VideoBuffers - 1
       IN /\ recycles => dec["video"].pc # "bufChecked"
          /\ retired' = IF recycles THEN Tail(old) ELSE old
          /\ free' = IF recycles THEN [free EXCEPT !["video"] = Append(@, Head(old))] ELSE free
          /\ dec' = IF recycles /\ dec["video"].pc = "bufAsleep"
                    THEN [dec EXCEPT !["video"].pc = "receive"] ELSE dec
          /\ current' = [current EXCEPT !["video"] = frame]
          /\ given' = [given EXCEPT !["video"] = frame.ts]
    /\ ready' = [ready EXCEPT !["video"] = Tail(@)]
    /\ player' = [player EXCEPT !.seekFrame = FALSE]
    /\ UNCHANGED <<source, ctl, demux, packets, missed, plays, faults>>

Audio ==
    /\ ~player.stopped /\ ~player.paused /\ ready["audio"] # <<>>
    /\ LET frame == Head(ready["audio"])
           recycles == current["audio"] # NoFrame
       IN /\ recycles => dec["audio"].pc # "bufChecked"
          /\ free' = IF recycles THEN [free EXCEPT !["audio"] = Append(@, current["audio"].buf)] ELSE free
          /\ dec' = IF recycles /\ dec["audio"].pc = "bufAsleep"
                    THEN [dec EXCEPT !["audio"].pc = "receive"] ELSE dec
          /\ current' = [current EXCEPT !["audio"] = frame]
          /\ given' = [given EXCEPT !["audio"] = frame.ts]
          /\ player' = [player EXCEPT !.lastAudio = frame.ts]
    /\ ready' = [ready EXCEPT !["audio"] = Tail(@)]
    /\ UNCHANGED <<source, ctl, demux, packets, retired, missed, plays, faults>>

Next ==
    \/ Demux \/ ReadFails
    \/ \E k \in Kinds : Decoder(k) \/ WriteFails(k)
    \/ \E call \in {"start", "stop", "jump", "change"}, from \in Starts : Begins(call, from)
    \/ Control \/ Video \/ Audio
    \/ \E pause \in BOOLEAN : PauseOrResume(pause)

\* Threads run, and a guest that plays asks for frames.  As the plays are bounded
\* no step repeats for ever, so it is enough that one of these steps is taken.
Runs == Demux \/ (\E k \in Kinds : Decoder(k)) \/ Control \/ Video \/ Audio
Fairness == WF_playerVars(Runs)

Spec == Init /\ [][Next]_playerVars /\ Fairness
-----------------------------------------------------------------------------
Playing == ctl.pc = "idle" /\ ~player.stopped

\* The places where buffers of a stream are: free, being written, ready, with the
\* guest or retired.
Places(k) ==
    {<<"free", i, free[k][i]>> : i \in DOMAIN free[k]}
       \cup {<<"ready", i, ready[k][i].buf>> : i \in DOMAIN ready[k]}
       \cup (IF k = "video" THEN {<<"retired", i, retired[i]>> : i \in DOMAIN retired} ELSE {})
       \cup {<<"written", 1, b>> : b \in {dec[k].buf} \ {0}}
       \cup {<<"current", 1, b>> : b \in {current[k].buf} \ {0}}

\* A buffer is in one place only (Video, Audio, ReceiveFrames, AllocateBuffers after
\* a restart that keeps what the guest has): the decoder never writes into what the
\* guest shows; and while the stream plays none is lost.
BuffersOnce ==
    \A k \in Kinds :
       /\ \A x, y \in Places(k) : x[3] = y[3] => x = y
       /\ ~player.stopped /\ k \in On => {x[3] : x \in Places(k)} = 1 .. AllBuffers(k)

\* Frames of a stream on their way, with where they are: the later the stage and the
\* index, the later the guest gets them.
OnTheWay(k) ==
    {<<1, i, ready[k][i].ts>> : i \in DOMAIN ready[k]}
       \cup {<<2, i, dec[k].codec[i]>> : i \in DOMAIN dec[k].codec}
       \cup {<<3, i, packets[k][i].ts>> : i \in {j \in DOMAIN packets[k] : ~packets[k][j].flush}}
       \cup {<<4, i, demux.todo[i].item.ts>> :
                i \in {j \in DOMAIN demux.todo : demux.todo[j].kind = k /\ ~demux.todo[j].item.flush}}
Before(x, y) == x[1] < y[1] \/ (x[1] = y[1] /\ x[2] < y[2])

\* The frames of a stream in all its rounds, and those between two times.
Frames(k) == {p + r * Size : p \in {q \in 0 .. Size - 1 : source.file[q + 1] = k},
                             r \in 0 .. source.rounds}
FramesOf(k, after, upto) == {ts \in Frames(k) : after < ts /\ ts < upto}

\* While nothing fails, the frames between the last one handed out and the place
\* the demuxer reads at are all on their way, each once and in order, through
\* packet queues, codecs, a loop's drain and buffers (Demux, Decoder, Video, Audio).
NothingSkipped ==
    Playing /\ ~player.stop =>
       \A k \in On :
          /\ {x[3] : x \in OnTheWay(k)} = FramesOf(k, given[k], demux.pos + demux.round * Size)
          /\ \A x, y \in OnTheWay(k) : x[3] < y[3] <=> Before(x, y)

Active == /\ ~player.stopped /\ ~player.failed
          /\ \/ ~player.eof \/ ~player.done["video"] \/ ~player.done["audio"]
             \/ ready["video"] # <<>> \/ ready["audio"] # <<>>

\* The player says that it is no longer active only when the guest has every frame.
EndComplete ==
    Playing /\ ~player.failed /\ ~Active =>
       \A k \in On : FramesOf(k, given[k], Size * (source.rounds + 1)) = {}

\* A thread sleeps on a queue although it may go on only if it was between its
\* check and its sleep when worker_stop or demux_eof was set (PacketQueue, WorkQueue).
SleepersHeard ==
    missed \/
       /\ demux.pc = "asleep" => ~player.stop /\ ~Room(Head(demux.todo).kind, Head(demux.todo).item)
       /\ \A k \in Kinds :
             /\ dec[k].pc = "popAsleep" => ~player.stop /\ ~player.eof /\ packets[k] = <<>>
             /\ dec[k].pc = "bufAsleep" => ~player.stop /\ free[k] = <<>>

PlayerSound == BuffersOnce /\ NothingSkipped /\ EndComplete /\ SleepersHeard

\* Calls return and what plays comes to its end, unless a notify was missed; where
\* the video follows the audio, it may have to wait for audio that does not come.
VideoAwaitsAudio ==
    ready["video"] # <<>> /\ ~InTime(Head(ready["video"]).ts)
Settled == missed \/ (ctl.pc = "idle" /\ (player.paused \/ ~Active \/ VideoAwaitsAudio))
PlayerSettles == []<>Settled
=============================================================================
