------------------------------ MODULE Playback ------------------------------
(***************************************************************************)
(* The video track of a playback session (stross-endpoint, playback):      *)
(* push() hands frames to a writer thread, which feeds a decoder process   *)
(* and starts a new one at a keyframe when it is out of step; one reader   *)
(* thread per decoder takes the pictures and gives each the next time      *)
(* stamp; the pacer thread holds them until they are due.  stop() joins    *)
(* the threads, dropping the session does not.                             *)
(*                                                                         *)
(* The decoder is external: a pipe in, a pipe out, one picture per frame   *)
(* in order; it may die.  Frame n is stamped with tick n, so a picture is  *)
(* known by its frame and its stamp tells which frame it passes for.       *)
(***************************************************************************)
EXTENDS Integers, Sequences, SequencesExt

CONSTANTS
  PushCap,     \* frames between push and the writer (64)
  PipeCap,     \* frames and pictures in the pipes of the decoder
  ShowCap,     \* pictures from reader to pacer, and from it to the viewer (32)
  TargetDelay, \* ticks a picture is held at most (150 ms)
  JumpReset,   \* ticks from the anchor after which it is moved (500 ms)
  LastFrame,   \* bound: frames of the source
  MaxFaults,   \* bound: decoders that die or do not start
  MaxTime      \* bound: ticks that pass

ASSUME PlaybackAssumption ==
  /\ {PushCap, PipeCap, ShowCap} \subseteq Nat \ {0}
  /\ {TargetDelay, JumpReset, LastFrame, MaxFaults, MaxTime} \subseteq Nat

VARIABLES
  session,   \* the user of the session: stop() or drop, and where it is
  pushed,    \* frames pushed so far
  dropping,  \* push found the queue full and has yet to say so
  stopped,   \* flag read by the threads
  closed,    \* the sender of the queue is gone
  queue,     \* frames for the writer
  resync,    \* flag: a keyframe has to restart the decoder
  writer,    \* where the writer is, and the frame it has
  decoder,   \* the decoder process, with its pipes
  reader,    \* its reader thread
  stamps,    \* stamps of the frames written
  sched,     \* pictures for the pacer
  pacer,     \* where the pacer is
  anchor,    \* stamp and time of the picture the clock started with
  held,      \* pictures with the time they are due
  shown,     \* pictures for the viewer
  viewer,    \* the viewer still takes pictures
  faults, now

playbackVars ==
  <<session, pushed, dropping, stopped, closed, queue, resync, writer, decoder,
    reader, stamps, sched, pacer, anchor, held, shown, viewer, faults, now>>
Source == <<pushed, dropping>>
Threads == <<queue, writer, decoder, reader, stamps>>
Show == <<sched, pacer, anchor, held, shown, viewer>>
World == <<faults, now>>

Kind == {"key", "delta", "config"}
Frame == [n: 1 .. LastFrame, kind: Kind]
NoFrame == [n |-> 0, kind |-> "delta"]
Picture == [n: 1 .. LastFrame, stamp: 0 .. LastFrame, since: 1 .. LastFrame]
NoAnchor == [stamp |-> 0, at |-> -1]
SomeStdin == decoder.state # "none"
\* `in` and `out` are the pipes, `since` is the frame the decoder began with.
NoDecoder == [state |-> "none", in |-> <<>>, out |-> <<>>, since |-> 0]

At(pc) == [writer EXCEPT !.pc = pc]
Idle == [pc |-> "recv", frame |-> NoFrame]

PlaybackTypeOK ==
  /\ session \in {"open", "stopping", "joining", "stopped", "dropping", "dropped"}
  /\ pushed \in 0 .. LastFrame /\ dropping \in BOOLEAN
  /\ stopped \in BOOLEAN /\ closed \in BOOLEAN /\ resync \in BOOLEAN
  /\ queue \in Seq(Frame) /\ Len(queue) <= PushCap
  /\ writer.pc \in {"recv", "join", "feed", "stamp", "leave", "ended"}
  /\ writer.frame \in Frame \cup {NoFrame}
  /\ decoder.state \in {"none", "alive", "dead"}
  /\ reader \in {"none", "running", "ended"}
  /\ stamps \in Seq(1 .. LastFrame)
  /\ sched \in Seq(Picture) /\ Len(sched) <= ShowCap
  /\ pacer \in {"emit", "wait", "ended"}
  /\ \A i \in 1 .. Len(held) : held[i].picture \in Picture /\ held[i].at \in Int
  /\ shown \in Seq(Picture) /\ Len(shown) <= ShowCap
  /\ viewer \in BOOLEAN /\ faults \in 0 .. MaxFaults /\ now \in 0 .. MaxTime

PlaybackInit ==
  /\ session = "open" /\ pushed = 0 /\ dropping = FALSE
  /\ stopped = FALSE /\ closed = FALSE /\ queue = <<>> /\ resync = FALSE
  /\ writer = Idle
  /\ decoder = NoDecoder /\ reader = "none" /\ stamps = <<>>
  /\ sched = <<>> /\ pacer = "emit" /\ anchor = NoAnchor /\ held = <<>>
  /\ shown = <<>> /\ viewer = TRUE /\ faults = 0 /\ now = 0

-----------------------------------------------------------------------------
(* The user of the session. *)

\* push while the session runs: the frame is queued, or lost when the queue is
\* full; then the flag is set in a step of its own.
PushFrame ==
  /\ session = "open" /\ ~dropping /\ pushed < LastFrame
  /\ \E k \in Kind :
       IF Len(queue) < PushCap
       THEN queue' = Append(queue, [n |-> pushed + 1, kind |-> k]) /\ UNCHANGED dropping
       ELSE dropping' = TRUE /\ UNCHANGED queue
  /\ pushed' = pushed + 1
  /\ UNCHANGED <<session, stopped, closed, resync, writer, decoder, reader, stamps, Show, World>>

PushDropped ==
  /\ dropping /\ dropping' = FALSE
  /\ resync' = TRUE
  /\ UNCHANGED <<session, pushed, stopped, closed, Threads, Show, World>>

\* stop(), or the last handle of the session is dropped: the flag first, then
\* the sender; only stop() waits for the threads.
StopOrDrop ==
  /\ session = "open" /\ ~dropping
  /\ stopped' = TRUE /\ session' \in {"stopping", "dropping"}
  /\ UNCHANGED <<Source, closed, resync, Threads, Show, World>>

CloseQueue ==
  /\ session \in {"stopping", "dropping"}
  /\ closed' = TRUE
  /\ session' = IF session = "stopping" THEN "joining" ELSE "dropped"
  /\ UNCHANGED <<Source, stopped, resync, Threads, Show, World>>

StopReturns ==
  /\ session = "joining" /\ writer.pc = "ended" /\ pacer = "ended"
  /\ session' = "stopped"
  /\ UNCHANGED <<Source, stopped, closed, resync, Threads, Show, World>>

-----------------------------------------------------------------------------
(* The writer thread. *)

Killed == [NoDecoder EXCEPT !.state = IF SomeStdin THEN "dead" ELSE "none",
                            !.out = decoder.out, !.since = decoder.since]

\* The next frame.  A keyframe restarts the decoder when there is none or the
\* flag is set: the old one is killed, and its reader is joined next.
WriterTakes ==
  /\ writer.pc = "recv" /\ queue # <<>>
  /\ queue' = Tail(queue)
  /\ LET frame == Head(queue)
         restart == frame.kind = "key" /\ (~SomeStdin \/ resync)
     IN  /\ decoder' = IF stopped \/ restart THEN Killed ELSE decoder
         /\ writer' = IF stopped THEN [pc |-> "leave", frame |-> NoFrame]
                      ELSE [pc |-> IF restart THEN "join" ELSE "feed", frame |-> frame]
  /\ UNCHANGED <<session, Source, stopped, closed, resync, reader, stamps, Show, World>>

\* Mutant of WriterFindsClosed: the reader is joined before the decoder is killed.
JoinedBeforeKilled ==
  /\ writer.pc = "recv" /\ queue = <<>> /\ closed
  /\ writer' = At("leave")
  /\ UNCHANGED <<session, Source, stopped, closed, resync, queue, decoder, reader, stamps,
                 Show, World>>

WriterFindsClosed ==
  /\ writer.pc = "recv" /\ queue = <<>> /\ closed
  /\ writer' = At("leave") /\ decoder' = Killed
  /\ UNCHANGED <<session, Source, stopped, closed, resync, queue, reader, stamps, Show, World>>

\* Mutant of WriterRestarts: the stamps of the old decoder stay.
StampsKept ==
  /\ writer.pc = "join" /\ reader # "running"
  /\ resync' = FALSE
  /\ decoder' = [NoDecoder EXCEPT !.state = "alive", !.since = writer.frame.n]
  /\ reader' = "running" /\ writer' = At("feed")
  /\ UNCHANGED <<session, Source, stopped, closed, queue, stamps, Show, World>>

\* The reader of the old decoder has ended: its stamps go, and a new decoder is
\* started, or cannot be; then the next keyframe tries again.
WriterRestarts ==
  /\ writer.pc = "join" /\ reader # "running"
  /\ stamps' = <<>>
  /\ \/ /\ resync' = FALSE
        /\ decoder' = [NoDecoder EXCEPT !.state = "alive", !.since = writer.frame.n]
        /\ reader' = "running" /\ writer' = At("feed")
        /\ UNCHANGED faults
     \/ /\ faults < MaxFaults /\ faults' = faults + 1
        /\ decoder' = NoDecoder /\ reader' = "none" /\ writer' = Idle
        /\ UNCHANGED resync
  /\ UNCHANGED <<session, Source, stopped, closed, queue, Show, now>>

\* Without a decoder, and out of step until a keyframe, the frame is dropped.
WriterSkips ==
  /\ writer.pc = "feed"
  /\ ~SomeStdin \/ (resync /\ writer.frame.kind # "key")
  /\ writer' = Idle
  /\ UNCHANGED <<session, Source, stopped, closed, resync, queue, decoder, reader, stamps,
                 Show, World>>

\* Writing waits for room in the pipe and fails once the decoder is dead.  The
\* bytes of a configuration frame make no picture.
WriterFeeds ==
  /\ writer.pc = "feed" /\ decoder.state = "alive" /\ Len(decoder.in) < PipeCap
  /\ ~resync \/ writer.frame.kind = "key"
  /\ decoder' = IF writer.frame.kind = "config" THEN decoder
                ELSE [decoder EXCEPT !.in = Append(@, writer.frame.n)]
  /\ writer' = At("stamp")
  /\ UNCHANGED <<session, Source, stopped, closed, resync, queue, reader, stamps, Show, World>>

WriterFails ==
  /\ writer.pc = "feed" /\ decoder.state = "dead"
  /\ ~resync \/ writer.frame.kind = "key"
  /\ resync' = TRUE /\ writer' = Idle
  /\ UNCHANGED <<session, Source, stopped, closed, queue, decoder, reader, stamps, Show, World>>

WriterStamps ==
  /\ writer.pc = "stamp"
  /\ stamps' = Append(stamps, writer.frame.n)
  /\ writer' = Idle
  /\ UNCHANGED <<session, Source, stopped, closed, resync, queue, decoder, reader, Show, World>>

\* teardown_gen: the decoder is killed already, its reader is joined.
WriterLeaves ==
  /\ writer.pc = "leave" /\ reader # "running"
  /\ writer' = At("ended") /\ decoder' = NoDecoder /\ reader' = "none"
  /\ UNCHANGED <<session, Source, stopped, closed, resync, queue, stamps, Show, World>>

-----------------------------------------------------------------------------
(* The decoder process and the reader thread of it. *)

Decode ==
  /\ decoder.state = "alive" /\ decoder.in # <<>> /\ Len(decoder.out) < PipeCap
  /\ decoder' = [decoder EXCEPT !.in = Tail(@), !.out = Append(@, Head(decoder.in))]
  /\ UNCHANGED <<session, Source, stopped, closed, resync, queue, writer, reader, stamps,
                 Show, World>>

DecoderDies ==
  /\ decoder.state = "alive" /\ faults < MaxFaults
  /\ decoder' = Killed /\ faults' = faults + 1
  /\ UNCHANGED <<session, Source, stopped, closed, resync, queue, writer, reader, stamps,
                 Show, now>>

\* A picture gets the oldest stamp, or 0 when none is there, and is dropped when
\* the pacer is behind or gone.
ReaderTakes ==
  /\ reader = "running" /\ decoder.out # <<>>
  /\ LET picture == [n |-> Head(decoder.out), since |-> decoder.since,
                     stamp |-> IF stamps = <<>> THEN 0 ELSE Head(stamps)]
     IN  sched' = IF Len(sched) < ShowCap /\ pacer # "ended"
                  THEN Append(sched, picture) ELSE sched
  /\ stamps' = IF stamps = <<>> THEN stamps ELSE Tail(stamps)
  /\ decoder' = [decoder EXCEPT !.out = Tail(@)]
  /\ UNCHANGED <<session, Source, stopped, closed, resync, queue, writer, reader,
                 pacer, anchor, held, shown, viewer, World>>

ReaderEnds ==
  /\ reader = "running" /\ decoder.out = <<>> /\ decoder.state # "alive"
  /\ reader' = "ended"
  /\ resync' = (resync \/ ~stopped)
  /\ UNCHANGED <<session, Source, stopped, closed, queue, writer, decoder, stamps, Show, World>>

-----------------------------------------------------------------------------
(* The pacer thread and its scheduler. *)

\* The head of the loop: back there after each wait, it looks at the flag.
PacerLooks == pacer' = IF stopped THEN "ended" ELSE "emit"

Due == held # <<>> /\ Head(held).at <= now

\* A picture that does not fit, for whatever reason, ends the pacer.
PacerEmits ==
  /\ pacer = "emit" /\ Due
  /\ held' = Tail(held)
  /\ IF viewer /\ Len(shown) < ShowCap
     THEN shown' = Append(shown, Head(held).picture) /\ UNCHANGED <<pacer, sched>>
     ELSE pacer' = "ended" /\ sched' = <<>> /\ UNCHANGED shown
  /\ UNCHANGED <<session, Source, stopped, closed, resync, Threads, anchor, viewer, World>>

PacerWaits ==
  /\ pacer = "emit" /\ ~Due
  /\ pacer' = "wait"
  /\ UNCHANGED <<session, Source, stopped, closed, resync, Threads, sched, anchor, held, shown,
                 viewer, World>>

Jumped(stamp) ==
  \/ anchor = NoAnchor
  \/ anchor.stamp - stamp > JumpReset
  \/ stamp - anchor.stamp > JumpReset

\* drop_over_watermark: the newest pictures go while they are due too late.
Watermarked(pictures) ==
  LET inTime == {i \in 1 .. Len(pictures) : pictures[i].at <= now + TargetDelay}
  IN  SubSeq(pictures, 1, CHOOSE i \in inTime \cup {0} : \A j \in inTime : j <= i)

\* push of the scheduler: the clock starts anew on a jump, which empties it; a
\* picture before the anchor is stale.
PacerReceives ==
  /\ pacer = "wait" /\ sched # <<>>
  /\ LET picture == Head(sched)
         at(start) == start.at + (picture.stamp - start.stamp)
         fresh == [stamp |-> picture.stamp, at |-> now]
     IN  IF Jumped(picture.stamp)
         THEN anchor' = fresh /\ held' = <<[picture |-> picture, at |-> now]>>
         ELSE /\ UNCHANGED anchor
              /\ held' = Watermarked(IF picture.stamp < anchor.stamp THEN held
                                     ELSE Append(held, [picture |-> picture, at |-> at(anchor)]))
  /\ PacerLooks
  /\ sched' = IF stopped THEN <<>> ELSE Tail(sched)
  /\ UNCHANGED <<session, Source, stopped, closed, resync, Threads, shown, viewer, World>>

PacerTimesOut ==
  /\ pacer = "wait" /\ sched = <<>> /\ Due
  /\ PacerLooks
  /\ UNCHANGED <<session, Source, stopped, closed, resync, Threads, sched, anchor, held, shown,
                 viewer, World>>

\* The sender is shared by the writer and the readers; it goes with the last.
PacerFindsClosed ==
  /\ pacer = "wait" /\ sched = <<>> /\ writer.pc = "ended"
  /\ pacer' = "ended"
  /\ UNCHANGED <<session, Source, stopped, closed, resync, Threads, sched, anchor, held, shown,
                 viewer, World>>

-----------------------------------------------------------------------------
(* The viewer, and time. *)

View ==
  /\ viewer /\ shown # <<>>
  /\ shown' = Tail(shown)
  /\ UNCHANGED <<session, Source, stopped, closed, resync, Threads, sched, pacer, anchor, held,
                 viewer, World>>

ViewerLeaves ==
  /\ viewer /\ viewer' = FALSE
  /\ shown' = <<>>
  /\ UNCHANGED <<session, Source, stopped, closed, resync, Threads, sched, pacer, anchor, held,
                 World>>

TimePasses ==
  /\ now < MaxTime /\ now' = now + 1
  /\ UNCHANGED <<session, Source, stopped, closed, resync, Threads, Show, faults>>

WriterStep ==
  \/ WriterTakes \/ WriterFindsClosed \/ WriterRestarts \/ WriterSkips
  \/ WriterFeeds \/ WriterFails \/ WriterStamps \/ WriterLeaves
ReaderStep == ReaderTakes \/ ReaderEnds
PacerStep ==
  PacerEmits \/ PacerWaits \/ PacerReceives \/ PacerTimesOut \/ PacerFindsClosed
UserStep == PushDropped \/ CloseQueue \/ StopReturns

PlaybackNext ==
  \/ PushFrame \/ StopOrDrop \/ UserStep
  \/ WriterStep \/ Decode \/ DecoderDies \/ ReaderStep \/ PacerStep
  \/ View \/ ViewerLeaves \/ TimePasses

\* Threads are scheduled by the operating system; a decoder that lives goes on
\* with what it is given.  Nothing makes the user stop, nor the viewer look.
PlaybackFairness ==
  /\ WF_playbackVars(UserStep) /\ WF_playbackVars(WriterStep) /\ WF_playbackVars(Decode)
  /\ WF_playbackVars(ReaderStep) /\ WF_playbackVars(PacerStep)

PlaybackSpec == PlaybackInit /\ [][PlaybackNext]_playbackVars /\ PlaybackFairness

-----------------------------------------------------------------------------
(* Properties. *)

Pictures == ToSet(sched) \cup ToSet(shown) \cup {held[i].picture : i \in 1 .. Len(held)}

\* A picture passes for itself or for an older frame of the same decoder, or has
\* no stamp at all (0): whatever dies and restarts when, never does a stamp that
\* a former decoder left behind reach the pacer, nor one of a frame to come.
StampOfThisDecoder == \A p \in Pictures : p.stamp = 0 \/ p.stamp \in p.since .. p.n

\* No picture is held longer than the delay the pacing asks for, though stamps
\* may lag behind their pictures and the clock may start anew at any of them.
WithinDelay == \A i \in 1 .. Len(held) : held[i].at <= now + TargetDelay

\* The viewer is shown a stream at its own pace: both at once.
PacedRight == StampOfThisDecoder /\ WithinDelay

AllEnded == writer.pc = "ended" /\ pacer = "ended" /\ reader = "none" /\ decoder = NoDecoder

\* Once the session is stopped or dropped, every thread and the decoder end, and
\* stop() returns: whichever thread waits for which, with every queue full.
StopEnds ==
  /\ session = "joining" ~> session = "stopped"
  /\ session = "dropped" ~> AllEnded

\* What the comments of the code promise and it does not keep (see README): the
\* pacer ends only when the session is over or nobody looks any more ...
PacerLivesOn == pacer = "ended" => stopped \/ ~viewer

\* ... a picture that has a stamp has its own ...
StampIsOwn == \A p \in Pictures : p.stamp \in {0, p.n}

\* ... and a frame that needs the one before is fed right after it.
HoleFree ==
  [][ decoder'.in = Append(decoder.in, writer.frame.n) /\ writer.frame.kind = "delta"
        /\ decoder.in # <<>>
      => writer.frame.n = Last(decoder.in) + 1 ]_playbackVars

=============================================================================
