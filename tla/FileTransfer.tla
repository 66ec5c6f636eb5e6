---------------------------- MODULE FileTransfer ----------------------------
(***************************************************************************)
(* A file sent as a stream through a relay: the file pump (push_file) with *)
(* its push client (RelayClient, client_loop), and receivers that watch    *)
(* the stream and write it to disk (receive_file_session).  The relay is   *)
(* reduced to what Relay shows of it: frames are broadcast in order, a     *)
(* watcher gets those that come after it joined, misses some when it is    *)
(* slow, and is told when the stream is gone.                              *)
(*                                                                         *)
(* A file is a number of units; a unit that was written is known by its    *)
(* file and its place there.  Receivers run in one process and write into  *)
(* one directory; the temporary file is named after the second in which it *)
(* is made.                                                                *)
(***************************************************************************)
EXTENDS Integers, Sequences

CONSTANTS
  Files,        \* each one is pushed once, under a stream id of its own
  Receivers,
  NoFile,
  Chunk,        \* units of one frame, at most
  QueueSize,    \* capacity of the channel to the push client (256)
  Backlog,      \* frames the relay holds for a slow watcher (128)
  Unreliable,   \* connections may break, and disks fail
  MaxUnits,     \* bound: units of a file
  MaxSeconds    \* bound: seconds that pass

Nobody == "nobody"

ASSUME ConstantsAssumption ==
  /\ NoFile \notin Files /\ Nobody \notin Receivers
  /\ Chunk \in Nat \ {0} /\ QueueSize \in Nat \ {0} /\ Backlog \in Nat \ {0}
  /\ Unreliable \in BOOLEAN
  /\ MaxUnits \in Nat /\ MaxSeconds \in Nat

Seconds == 0 .. MaxSeconds
\* A file on disk, known by who made it; 0 stands for none.
NoInode == <<NoFile, 0>>
Unit == {NoInode} \cup (Files \X (0 .. MaxUnits))

Meta == [kind |-> "meta", at |-> 0, units |-> 0, end |-> FALSE]
Data(at, n, end) == [kind |-> "data", at |-> at, units |-> n, end |-> end]
Bye == [kind |-> "bye", at |-> 0, units |-> 0, end |-> FALSE]

Frame == [kind: {"meta", "data", "bye"}, at: 0 .. MaxUnits, units: 0 .. Chunk, end: BOOLEAN]

VARIABLES
  size,      \* file -> length when the pump looked
  real,      \* file -> length when it is read
  pump,      \* file -> where push_file is
  sent,      \* file -> units sent so far
  queue,     \* file -> frames given to the push client
  client,    \* file -> the push client
  wire,      \* file -> what is under way to the relay
  broken,    \* files whose push connection is lost
  stream,    \* file -> the stream in the relay's table
  feed,      \* file -> frames broadcast
  recv,      \* receiver -> state
  content,   \* receiver -> the file on disk that its handle was made for
  temp,      \* second -> the receiver whose file has this temporary name
  now

pushVars == <<size, real, pump, sent, queue, client, wire, broken>>
relayVars == <<stream, feed>>
diskVars == <<content, temp>>
vars == <<pushVars, relayVars, recv, diskVars, now>>

RecvState ==
  [pc: {"idle", "open", "recv", "rename", "cleanup", "done", "failed"},
   file: Files \cup {NoFile},
   pos: Nat,                          \* frames of the feed behind it
   late: BOOLEAN, missed: BOOLEAN,    \* history: joined late; lagged, cut off or disk failed
   name: Seconds,                     \* of its temporary file
   node: Receivers \cup {Nobody},     \* the file its handle writes to
   got: 0 .. MaxUnits]

Idle == [pc |-> "idle", file |-> NoFile, pos |-> 0, late |-> FALSE, missed |-> FALSE,
         name |-> 0, node |-> Nobody, got |-> 0]

Blank == [i \in 0 .. MaxUnits - 1 |-> NoInode]

TypeOK ==
  /\ size \in [Files -> 0 .. MaxUnits] /\ real \in [Files -> 0 .. MaxUnits]
  /\ pump \in [Files -> {"connect", "wait", "meta", "data", "stop", "ok", "failed"}]
  /\ sent \in [Files -> 0 .. MaxUnits]
  /\ queue \in [Files -> Seq(Frame)] /\ wire \in [Files -> Seq(Frame)]
  /\ client \in [Files -> {"idle", "run", "drain", "done"}]
  /\ broken \subseteq Files
  /\ stream \in [Files -> {"none", "live", "gone"}]
  /\ feed \in [Files -> Seq(Frame)]
  /\ recv \in [Receivers -> RecvState]
  /\ content \in [Receivers -> [0 .. MaxUnits - 1 -> Unit]]
  /\ temp \in [Seconds -> Receivers \cup {Nobody}]
  /\ now \in Seconds

Init ==
  /\ size \in [Files -> 0 .. MaxUnits]
  /\ real \in [Files -> 0 .. MaxUnits]
  /\ pump = [f \in Files |-> "connect"]
  /\ sent = [f \in Files |-> 0]
  /\ queue = [f \in Files |-> <<>>] /\ wire = queue /\ feed = queue
  /\ client = [f \in Files |-> "idle"]
  /\ broken = {}
  /\ stream = [f \in Files |-> "none"]
  /\ recv = [r \in Receivers |-> Idle]
  /\ content = [r \in Receivers |-> Blank]
  /\ temp = [s \in Seconds |-> Nobody]
  /\ now = 0

-----------------------------------------------------------------------------
(* push_file.                                                              *)

PumpGoto(f, pc) == pump' = [pump EXCEPT ![f] = pc]

\* RelayClient::connect: the client has sent Hello and waits for Welcome.
Connect(f) ==
  /\ pump[f] = "connect" /\ client[f] = "idle"
  /\ client' = [client EXCEPT ![f] = "run"]
  /\ UNCHANGED <<size, real, pump, sent, queue, wire, broken, relayVars, recv, diskVars, now>>

\* Welcome has come, or the client has ended (a refusal is not told apart).
Connected(f) ==
  /\ pump[f] = "connect"
  /\ stream[f] # "none" \/ client[f] = "done"
  /\ PumpGoto(f, "wait")
  /\ UNCHANGED <<size, real, sent, queue, client, wire, broken, relayVars, recv, diskVars, now>>

Watching(r, f) == recv[r].file = f /\ recv[r].pc \in {"open", "recv", "rename"}

\* wait_for_watcher: the relay counts a watcher.
WatcherSeen(f) == stream[f] = "live" /\ \E r \in Receivers : Watching(r, f)

WaitEnds(f) ==
  /\ pump[f] = "wait"
  /\ \/ WatcherSeen(f) /\ PumpGoto(f, "meta")
     \/ PumpGoto(f, "failed")                      \* WAIT_WATCHER_TIMEOUT
  /\ UNCHANGED <<size, real, sent, queue, client, wire, broken, relayVars, recv, diskVars, now>>

\* A frame goes to the push client, unless that has ended.
Enqueue(f, frame, pc) ==
  IF client[f] = "done"
  THEN PumpGoto(f, "failed") /\ UNCHANGED <<queue, sent>>
  ELSE /\ Len(queue[f]) < QueueSize
       /\ queue' = [queue EXCEPT ![f] = Append(@, frame)]
       /\ sent' = [sent EXCEPT ![f] = @ + frame.units]
       /\ PumpGoto(f, pc)

PumpMeta(f) ==
  /\ pump[f] = "meta"
  /\ Enqueue(f, Meta, "data")
  /\ UNCHANGED <<size, real, client, wire, broken, relayVars, recv, diskVars, now>>

\* Mutant of IsLast: the end is where the file ends.
IsLastOfReal(f, n) == sent[f] + n = real[f]

IsLast(f, n) == sent[f] + n = size[f]

\* One read and one frame; the last one, or the only one of an empty file, says so.
PumpData(f) ==
  /\ pump[f] = "data"
  /\ \/ /\ size[f] = 0
        /\ Enqueue(f, Data(0, 0, TRUE), "stop")
     \/ /\ size[f] # 0
        /\ \E n \in 1 .. Chunk :
             /\ sent[f] + n <= real[f]
             /\ Enqueue(f, Data(sent[f], n, IsLast(f, n)), IF IsLast(f, n) THEN "stop" ELSE "data")
     \/ /\ size[f] # 0 /\ sent[f] >= real[f]       \* read returned nothing
        /\ PumpGoto(f, "failed")
        /\ UNCHANGED <<queue, sent>>
  /\ UNCHANGED <<size, real, client, wire, broken, relayVars, recv, diskVars, now>>

\* stop waits for the client, whatever became of it.
PumpStopped(f) ==
  /\ pump[f] = "stop" /\ client[f] = "done"
  /\ PumpGoto(f, "ok")
  /\ UNCHANGED <<size, real, sent, queue, client, wire, broken, relayVars, recv, diskVars, now>>

-----------------------------------------------------------------------------
(* client_loop.                                                            *)

ClientSend(f) ==
  /\ client[f] \in {"run", "drain"} /\ queue[f] # <<>>
  /\ IF f \in broken
     THEN client' = [client EXCEPT ![f] = "done"] /\ UNCHANGED wire
     ELSE wire' = [wire EXCEPT ![f] = Append(@, Head(queue[f]))] /\ UNCHANGED client
  /\ queue' = [queue EXCEPT ![f] = Tail(@)]
  /\ UNCHANGED <<size, real, pump, sent, broken, relayVars, recv, diskVars, now>>

\* Mutant of Ending: a pump that fails leaves its client running.
EndingStopOnly(f) == pump[f] = "stop"

\* push_file has ended, or is in stop: the channel of frames is closed and the
\* shutdown signal is given (dropping the client gives it too).
Ending(f) == pump[f] \in {"stop", "failed"}

\* Mutant of ClientShutdown: Bye goes out before what is queued.
ClientShutdownAtOnce(f) ==
  /\ client[f] = "run" /\ Ending(f)
  /\ client' = [client EXCEPT ![f] = "done"]
  /\ wire' = [wire EXCEPT ![f] = Append(@, Bye)]
  /\ UNCHANGED <<size, real, pump, sent, queue, broken, relayVars, recv, diskVars, now>>

ClientShutdown(f) ==
  /\ client[f] = "run" /\ Ending(f)
  /\ client' = [client EXCEPT ![f] = "drain"]
  /\ UNCHANGED <<size, real, pump, sent, queue, wire, broken, relayVars, recv, diskVars, now>>

ClientBye(f) ==
  /\ queue[f] = <<>>
  /\ client[f] = "drain" \/ (client[f] = "run" /\ Ending(f))
  /\ client' = [client EXCEPT ![f] = "done"]
  /\ wire' = IF f \in broken THEN wire ELSE [wire EXCEPT ![f] = Append(@, Bye)]
  /\ UNCHANGED <<size, real, pump, sent, queue, broken, relayVars, recv, diskVars, now>>

\* The relay refused, or the connection is lost: the loop is left.
ClientLost(f) ==
  /\ client[f] = "run" /\ f \in broken
  /\ client' = [client EXCEPT ![f] = "done"]
  /\ UNCHANGED <<size, real, pump, sent, queue, wire, broken, relayVars, recv, diskVars, now>>

-----------------------------------------------------------------------------
(* The relay and the connections.                                          *)

Register(f) ==
  /\ client[f] = "run" /\ stream[f] = "none" /\ f \notin broken
  /\ stream' = [stream EXCEPT ![f] = "live"]
  /\ UNCHANGED <<pushVars, feed, recv, diskVars, now>>

Relayed(f) ==
  /\ stream[f] = "live" /\ wire[f] # <<>>
  /\ wire' = [wire EXCEPT ![f] = Tail(@)]
  /\ IF Head(wire[f]) = Bye
     THEN stream' = [stream EXCEPT ![f] = "gone"] /\ UNCHANGED feed
     ELSE feed' = [feed EXCEPT ![f] = Append(@, Head(wire[f]))] /\ UNCHANGED stream
  /\ UNCHANGED <<size, real, pump, sent, queue, client, broken, recv, diskVars, now>>

\* The connection breaks, or the relay refuses the push and closes it; what is
\* under way is lost.
Break(f) ==
  /\ Unreliable /\ f \notin broken /\ client[f] # "idle"
  /\ broken' = broken \cup {f}
  /\ wire' = [wire EXCEPT ![f] = <<>>]
  /\ stream' = [stream EXCEPT ![f] = "gone"]
  /\ UNCHANGED <<size, real, pump, sent, queue, client, feed, recv, diskVars, now>>

Tick ==
  /\ now < MaxSeconds
  /\ now' = now + 1
  /\ UNCHANGED <<pushVars, relayVars, recv, diskVars>>

-----------------------------------------------------------------------------
(* receive_file_session.                                                   *)

Join(r, f) ==
  /\ recv[r].pc = "idle" /\ stream[f] = "live"
  /\ recv' = [recv EXCEPT ![r] = [Idle EXCEPT !.pc = "open", !.file = f, !.pos = Len(feed[f]),
                                              !.late = feed[f] # <<>>]]
  /\ UNCHANGED <<pushVars, relayVars, diskVars, now>>

Behind(r) == Len(feed[recv[r].file]) - recv[r].pos

\* Mutant of Lag: it does not matter how far the watcher is behind.
LagAlways(r) ==
  /\ recv[r].pc \in {"open", "recv"}
  /\ recv' = [recv EXCEPT ![r].pos = Len(feed[recv[r].file]) - Backlog, ![r].missed = TRUE]
  /\ UNCHANGED <<pushVars, relayVars, diskVars, now>>

Lag(r) ==
  /\ recv[r].pc \in {"open", "recv"} /\ Behind(r) > Backlog
  /\ recv' = [recv EXCEPT ![r].pos = Len(feed[recv[r].file]) - Backlog, ![r].missed = TRUE]
  /\ UNCHANGED <<pushVars, relayVars, diskVars, now>>

Receiving(r, pc) == recv[r].pc = pc /\ Behind(r) \in 1 .. Backlog

NextFrame(r) == feed[recv[r].file][recv[r].pos + 1]

\* Leaving the loop with an error: a temporary file that was made is removed.
Fails(r) == [recv EXCEPT ![r].pc = IF recv[r].pc = "open" THEN "failed" ELSE "cleanup",
                         ![r].pos = recv[r].pos]

\* The first frame describes the file.  Creating a temporary file that is there
\* empties it, for whoever has it open.
TakeMeta(r) ==
  LET node == IF temp[now] = Nobody THEN r ELSE temp[now] IN
  /\ Receiving(r, "open")
  /\ IF NextFrame(r) = Meta
     THEN /\ recv' = [recv EXCEPT ![r].pc = "recv", ![r].pos = @ + 1, ![r].name = now,
                                  ![r].node = node]
          /\ temp' = [temp EXCEPT ![now] = node]
          /\ content' = [content EXCEPT ![node] = Blank]
     ELSE recv' = Fails(r) /\ UNCHANGED diskVars
  /\ UNCHANGED <<pushVars, relayVars, now>>

Write(r, frame) ==
  LET from == recv[r].got IN
  content' = [content EXCEPT ![recv[r].node] =
    [i \in DOMAIN @ |-> IF i \in from .. from + frame.units - 1
                        THEN <<recv[r].file, frame.at + (i - from)>> ELSE @[i]]]

\* Mutant of Complete: the end of the file is the frame that says so.
CompleteAtEnd(r, total) == TRUE

Complete(r, total) == total = size[recv[r].file]

\* The chunk is written before the lengths are compared.
TakeData(r) ==
  LET frame == NextFrame(r)  total == recv[r].got + frame.units IN
  /\ Receiving(r, "recv")
  /\ Write(r, frame)
  /\ recv' = IF total > size[recv[r].file] \/ (frame.end /\ ~Complete(r, total))
             THEN Fails(r)
             ELSE [recv EXCEPT ![r].got = total, ![r].pos = @ + 1,
                               ![r].pc = IF frame.end THEN "rename" ELSE "recv"]
  /\ UNCHANGED <<pushVars, relayVars, temp, now>>

\* The stream is gone, or the watch connection is lost.
TakeEnd(r) ==
  /\ recv[r].pc \in {"open", "recv"}
  /\ Behind(r) = 0 /\ stream[recv[r].file] = "gone"
  /\ recv' = Fails(r)
  /\ UNCHANGED <<pushVars, relayVars, diskVars, now>>

CutOff(r) ==
  /\ Unreliable /\ recv[r].pc \in {"open", "recv"}
  /\ recv' = [Fails(r) EXCEPT ![r].missed = TRUE]
  /\ UNCHANGED <<pushVars, relayVars, diskVars, now>>

\* The receiver's disk fails: the temporary file cannot be made, a chunk is
\* written in part or not at all, the last one cannot be flushed, or the file
\* cannot be renamed.
DiskFails(r) ==
  /\ Unreliable
  /\ \/ Receiving(r, "open") /\ NextFrame(r) = Meta /\ UNCHANGED content
     \/ Receiving(r, "recv") /\ (Write(r, NextFrame(r)) \/ UNCHANGED content)
     \/ recv[r].pc = "rename" /\ UNCHANGED content
  /\ recv' = [Fails(r) EXCEPT ![r].missed = TRUE]
  /\ UNCHANGED <<pushVars, relayVars, temp, now>>

\* Whatever has the temporary name gets the final one.
Rename(r) ==
  /\ recv[r].pc = "rename"
  /\ IF temp[recv[r].name] = Nobody
     THEN recv' = Fails(r) /\ UNCHANGED temp
     ELSE /\ recv' = [recv EXCEPT ![r].pc = "done", ![r].node = temp[recv[r].name]]
          /\ temp' = [temp EXCEPT ![recv[r].name] = Nobody]
  /\ UNCHANGED <<pushVars, relayVars, content, now>>

Cleanup(r) ==
  /\ recv[r].pc = "cleanup"
  /\ temp' = [temp EXCEPT ![recv[r].name] = Nobody]
  /\ recv' = [recv EXCEPT ![r].pc = "failed"]
  /\ UNCHANGED <<pushVars, relayVars, content, now>>

-----------------------------------------------------------------------------
PumpTask(f) ==
  Connect(f) \/ Connected(f) \/ WaitEnds(f) \/ PumpMeta(f) \/ PumpData(f) \/ PumpStopped(f)

ClientTask(f) == ClientSend(f) \/ ClientShutdown(f) \/ ClientBye(f) \/ ClientLost(f)

RelayTask(f) == Register(f) \/ Relayed(f)

ReceiverTask(r) ==
  Lag(r) \/ TakeMeta(r) \/ TakeData(r) \/ TakeEnd(r) \/ Rename(r) \/ Cleanup(r)

Next ==
  \/ \E f \in Files : PumpTask(f) \/ ClientTask(f) \/ RelayTask(f) \/ Break(f)
  \/ \E r \in Receivers : ReceiverTask(r) \/ CutOff(r) \/ DiskFails(r) \/ \E f \in Files : Join(r, f)
  \/ Tick

\* Every task that can run does.  Nobody has to join, and nothing to break.
Fairness ==
  /\ \A f \in Files : WF_vars(PumpTask(f)) /\ WF_vars(ClientTask(f)) /\ WF_vars(RelayTask(f))
  /\ \A r \in Receivers : WF_vars(ReceiverTask(r))

Spec == Init /\ [][Next]_vars /\ Fairness

-----------------------------------------------------------------------------
(* Properties.                                                             *)

\* Another receiver made its temporary file in the same second.
NameClash(r) == \E q \in Receivers \ {r} : recv[q].node # Nobody /\ recv[q].name = recv[r].name

Whole(r) == \A i \in 0 .. size[recv[r].file] - 1 : content[recv[r].node][i] = <<recv[r].file, i>>

\* A file that a receiver reports as received is the file that was sent, whatever
\* frames the relay dropped for a slow watcher and wherever the push broke off.
\* (Two receivers that start within one second share a temporary file, see
\* SavedIsOwn.)
SavedIsWhole ==
  \A r \in Receivers : recv[r].pc = "done" /\ ~NameClash(r) => Whole(r)

\* The same without the exception ("byte for byte", the test of this code).  Does
\* not hold: the temporary file is named after the process and the second.
SavedIsOwn == \A r \in Receivers : recv[r].pc = "done" => Whole(r)

\* A receiver that was there before the first frame, kept up, was not cut off and
\* could write gets the file, if the pump did not fail: the pump waits for it, and
\* the end of the stream does not overtake the frames that are queued.  (If the file grew
\* after the pump looked, a chunk may pass the length that was announced, and the
\* receiver gives up before the pump does.)
OnTimeIsServed ==
  \A r \in Receivers :
    recv[r].pc \in {"cleanup", "failed"} =>
      \/ recv[r].late \/ recv[r].missed \/ NameClash(r)
      \/ recv[r].file \in broken \/ pump[recv[r].file] = "failed"
      \/ real[recv[r].file] > size[recv[r].file]

\* A receiver that has begun comes to an end, with the file or an error.
ReceiverEnds ==
  \A r \in Receivers : recv[r].pc = "open" ~> recv[r].pc \in {"done", "failed"}

=============================================================================
