------------------------------- MODULE Channel -------------------------------
(***************************************************************************)
(* One channel between two nodes, with a ChannelSession at either end      *)
(* (stross-kernel, channel/session.rs): files are offered, accepted, sent  *)
(* in chunks and acknowledged while either end may cancel, close or lose   *)
(* the connection.  Text messages and pings keep no state and are left     *)
(* out; incoming files are accepted (auto_accept), there is no other way   *)
(* to accept one.                                                          *)
(*                                                                         *)
(* A session is several tasks: the receive loop, one upload task per file, *)
(* and whoever calls cancel_transfer or close.  A step ends where a task   *)
(* awaits, or releases a lock another task needs.  The WebSocket below     *)
(* (stross-transport, ws.rs) has one lock for writing and one for reading; *)
(* the receive loop holds the latter while it waits, and close needs it.   *)
(* A write waits while the connection is full; only chunks fill it.        *)
(***************************************************************************)
EXTENDS Integers, Sequences, FiniteSets

CONSTANTS
  Sides,       \* the two ends
  Senders,     \* the ends that send files
  MaxFiles,    \* bound: files an end sends
  MaxChunks,   \* bound: chunks of a file
  MaxCancels,  \* bound: calls of cancel_transfer
  Capacity,    \* chunks a connection holds in one direction
  Closers,     \* the ends that may close the channel
  Unreliable   \* the connection may be lost, or an end vanish

ASSUME ConstantsAssumption ==
  /\ \E a \in Sides : \E b \in Sides \ {a} : Sides = {a, b}
  /\ Senders \subseteq Sides
  /\ Closers \subseteq Sides
  /\ MaxFiles \in Nat /\ MaxChunks \in Nat /\ MaxCancels \in Nat
  /\ Capacity \in Nat \ {0}
  /\ Unreliable \in BOOLEAN

Ids == 1 .. MaxFiles
Other(s) == CHOOSE t \in Sides : t # s

VARIABLES
  \* the connection
  queue,      \* what is on its way to an end
  open,       \* the end can still write
  alive,      \* the end has not vanished
  \* the session
  closed,     \* the flag
  closer,     \* progress of close
  loop,       \* the receive loop: its step, and the transfer it is busy with
  user,       \* a call of cancel_transfer: its step and the transfer
  cancels,    \* number of such calls
  \* sending
  next,       \* next_transfer_id
  outbounds,  \* ids of uploads
  cancelled,  \* uploads whose flag is set
  decided,    \* uploads whose task has been sent the decision
  acked,      \* uploads whose task has been sent the acknowledgement
  upload,     \* the upload tasks
  altered,    \* history: uploads whose file was not as long as announced
  \* receiving
  inbounds,   \* ids of downloads
  got,        \* chunks written to the temporary file
  spoiled,    \* history: downloads of which a chunk is not on the disk
  temp,       \* temporary files on disk
  saved,      \* files in place
  \* what the application is told
  completed,  \* uploads reported complete
  failed      \* transfers reported failed

wire == <<queue, open, alive>>
session == <<closed, closer, loop, user, cancels>>
sending == <<next, outbounds, cancelled, decided, acked, upload, altered>>
receiving == <<inbounds, got, spoiled, temp, saved>>
told == <<completed, failed>>
vars == <<wire, session, sending, receiving, told>>

Packet == [kind: {"offer", "decision", "chunk", "ack", "cancel"}, id: Ids, n: {0, 1},
           eof: BOOLEAN]
            \cup [kind: {"fin"}]
Control(k, id) == [kind |-> k, id |-> id, n |-> 0, eof |-> FALSE]
Fin == [kind |-> "fin"]

Upload == [pc: {"none", "insert", "offer", "decision", "check", "chunk", "ack", "done"},
           size: 0 .. MaxChunks, offset: Nat]

TypeOK ==
  /\ queue \in [Sides -> Seq(Packet)]
  /\ open \in [Sides -> BOOLEAN] /\ alive \in [Sides -> BOOLEAN]
  /\ closed \in [Sides -> BOOLEAN]
  /\ closer \in [Sides -> {"none", "send", "stream", "inbounds", "outbounds", "done"}]
  /\ loop \in [Sides -> [pc: {"idle", "recv", "insert", "decide", "rename", "ack",
                              "uncancel", "ended"}, id: {0} \cup Ids]]
  /\ user \in [Sides -> [pc: {"idle", "inbounds", "tell"}, id: {0} \cup Ids, hit: BOOLEAN]]
  /\ cancels \in 0 .. MaxCancels
  /\ next \in [Sides -> 1 .. MaxFiles + 1]
  /\ upload \in [Sides -> [Ids -> Upload]]
  /\ got \in [Sides -> [Ids -> Nat]]
  /\ \A f \in {outbounds, cancelled, decided, acked, altered, inbounds, spoiled, temp,
               saved, completed, failed} : f \in [Sides -> SUBSET Ids]

Init ==
  /\ queue = [s \in Sides |-> <<>>]
  /\ open = [s \in Sides |-> TRUE] /\ alive = [s \in Sides |-> TRUE]
  /\ closed = [s \in Sides |-> FALSE] /\ closer = [s \in Sides |-> "none"]
  /\ loop = [s \in Sides |-> [pc |-> "idle", id |-> 0]]
  /\ user = [s \in Sides |-> [pc |-> "idle", id |-> 0, hit |-> FALSE]]
  /\ cancels = 0
  /\ next = [s \in Sides |-> 1]
  /\ upload = [s \in Sides |-> [i \in Ids |-> [pc |-> "none", size |-> 0, offset |-> 0]]]
  /\ got = [s \in Sides |-> [i \in Ids |-> 0]]
  /\ LET none == [s \in Sides |-> {}] IN
       /\ outbounds = none /\ cancelled = none /\ decided = none /\ acked = none
       /\ altered = none
       /\ inbounds = none /\ spoiled = none /\ temp = none /\ saved = none
       /\ completed = none /\ failed = none

Add(f, s, i) == [f EXCEPT ![s] = @ \cup {i}]
Drop(f, s, i) == [f EXCEPT ![s] = @ \ {i}]

-----------------------------------------------------------------------------
(* The connection.                                                         *)

\* The end still has the reading half.
Readable(s) == closer[s] \in {"none", "send", "stream"}

Full(s) ==
  LET to == queue[Other(s)]
  IN  /\ Readable(Other(s))
      /\ Cardinality({i \in DOMAIN to : to[i].kind = "chunk"}) >= Capacity

\* A write neither waits for room nor for a write that does.
Room(s) == open[s] => ~Full(s)

\* What end s writes reaches the other end unless that has let go.
Write(s, packet) ==
  queue' = IF open[s] /\ Readable(Other(s))
           THEN [queue EXCEPT ![Other(s)] = Append(@, packet)] ELSE queue

ConnectionLost ==
  /\ Unreliable
  /\ \E s \in Sides : open[s]
  /\ open' = [s \in Sides |-> FALSE]
  /\ queue' = [s \in Sides |-> <<Fin>>]
  /\ UNCHANGED <<alive, session, sending, receiving, told>>

\* The device is gone, without a word.
Vanish(s) ==
  /\ Unreliable
  /\ alive = [t \in Sides |-> TRUE]
  /\ alive' = [alive EXCEPT ![s] = FALSE]
  /\ UNCHANGED <<queue, open, session, sending, receiving, told>>

-----------------------------------------------------------------------------
(* Sending a file (send_file).                                             *)

\* Upload i of end s moves from one step to the next.
Goto(s, i, from, to) ==
  /\ upload[s][i].pc = from
  /\ upload' = [upload EXCEPT ![s][i].pc = to]

SendFile(s) ==
  /\ s \in Senders
  /\ ~closed[s]
  /\ next[s] <= MaxFiles
  /\ next' = [next EXCEPT ![s] = @ + 1]
  /\ \E size \in 0 .. MaxChunks :
       upload' = [upload EXCEPT ![s][next[s]] = [pc |-> "insert", size |-> size, offset |-> 0]]
  /\ UNCHANGED <<wire, session, outbounds, cancelled, decided, acked, altered,
                 receiving, told>>

InsertOutbound(s, i) ==
  /\ Goto(s, i, "insert", "offer")
  /\ outbounds' = Add(outbounds, s, i)
  /\ UNCHANGED <<wire, session, next, cancelled, decided, acked, altered, receiving,
                 told>>

\* If the offer cannot be written, the caller gets the error, and no task starts.
SendOffer(s, i) ==
  /\ Room(s)
  /\ Goto(s, i, "offer", IF open[s] THEN "decision" ELSE "done")
  /\ Write(s, Control("offer", i))
  /\ UNCHANGED <<open, alive, session, next, outbounds, cancelled, decided, acked,
                 altered, receiving, told>>

\* The task's channel closes when the entry that holds its other end is dropped.
AwaitDecision(s, i) ==
  /\ \/ /\ i \in decided[s]
        /\ Goto(s, i, "decision", "check")
        /\ failed' = failed
     \/ /\ i \notin decided[s] \cup outbounds[s]
        /\ Goto(s, i, "decision", "done")
        /\ failed' = Add(failed, s, i)
  /\ UNCHANGED <<wire, session, next, outbounds, cancelled, decided, acked, altered,
                 receiving, completed>>

\* A cancelled upload ends without a report of its own.
CheckCancelled(s, i) ==
  /\ Goto(s, i, "check", IF i \in cancelled[s] THEN "done" ELSE "chunk")
  /\ UNCHANGED <<wire, session, next, outbounds, cancelled, decided, acked, altered,
                 receiving, told>>

\* The file cannot be opened, or read any further.  The entry stays.
ReadFails(s, i) ==
  /\ upload[s][i].pc = "chunk" \/ (upload[s][i].pc = "check" /\ upload[s][i].offset = 0)
  /\ upload' = [upload EXCEPT ![s][i].pc = "done"]
  /\ failed' = Add(failed, s, i)
  /\ UNCHANGED <<wire, session, next, outbounds, cancelled, decided, acked, altered,
                 receiving, completed>>

\* What a read at this offset yields as long as the file is as announced: all
\* chunks have data, but for that of an empty file.
Due(size, offset) == IF offset < size THEN 1 ELSE 0

\* Mutant: off by one.
IsEofEarly(size, offset, n) == n = 0 \/ offset + n + 1 >= size

\* The chunk of n that follows offset is the last one.
IsEof(size, offset, n) == n = 0 \/ offset + n >= size \/ size = 0

\* The file may have shrunk since its size was announced, so that nothing is
\* left to read, or have been empty and no longer be.  (What it grew by beyond
\* its last chunk is never read, and what is read with that chunk is part of it.)
SendChunk(s, i) ==
  LET u == upload[s][i] IN
  /\ u.pc = "chunk"
  /\ Room(s)
  /\ \E n \in {0, 1} :
       LET eof == IsEof(u.size, u.offset, n) IN
       /\ Write(s, [kind |-> "chunk", id |-> i, n |-> n, eof |-> eof])
       /\ altered' = IF n = Due(u.size, u.offset) THEN altered ELSE Add(altered, s, i)
       /\ IF open[s]
          THEN /\ upload' = [upload EXCEPT ![s][i].offset = @ + n,
                                          ![s][i].pc = IF eof THEN "ack" ELSE "check"]
               /\ failed' = failed
          ELSE /\ upload' = [upload EXCEPT ![s][i].pc = "done"]
               /\ failed' = Add(failed, s, i)
  /\ UNCHANGED <<open, alive, session, next, outbounds, cancelled, decided, acked,
                 receiving, completed>>

AwaitAck(s, i) ==
  /\ Goto(s, i, "ack", "done")
  /\ \/ /\ i \in acked[s]
        /\ completed' = Add(completed, s, i)
        /\ failed' = failed
     \/ /\ i \notin acked[s] \cup outbounds[s]
        /\ failed' = Add(failed, s, i)
        /\ completed' = completed
  /\ UNCHANGED <<wire, session, next, outbounds, cancelled, decided, acked, altered,
                 receiving>>

-----------------------------------------------------------------------------
(* The receive loop (receive_loop, handle_control_msg, handle_media_frame). *)

LoopAt(s, pc, i) == loop' = [loop EXCEPT ![s] = [pc |-> pc, id |-> i]]

\* recv takes the reading lock, after a close that already waits for it.
LoopRecv(s) ==
  /\ loop[s].pc = "idle"
  /\ closer[s] \in {"none", "send"}
  /\ LoopAt(s, "recv", 0)
  /\ UNCHANGED <<wire, closed, closer, user, cancels, sending, receiving, told>>

\* The reading half is gone: the loop ends.
LoopStops(s) ==
  /\ loop[s].pc = "idle"
  /\ ~Readable(s)
  /\ LoopAt(s, "ended", 0)
  /\ UNCHANGED <<wire, closed, closer, user, cancels, sending, receiving, told>>

\* The next packet is of kind k, and taken.
Take(s, k) ==
  /\ loop[s].pc = "recv"
  /\ queue[s] # <<>>
  /\ Head(queue[s]).kind = k
  /\ queue' = [queue EXCEPT ![s] = Tail(@)]

TakeOffer(s) ==
  /\ Take(s, "offer")
  /\ LET i == Head(queue[s]).id IN
       \/ LoopAt(s, "insert", i) /\ temp' = Add(temp, s, i)
       \/ LoopAt(s, "idle", 0) /\ temp' = temp           \* it cannot be created
  /\ UNCHANGED <<open, alive, closed, closer, user, cancels, sending, inbounds, got,
                 spoiled, saved, told>>

\* accept_inbound, after the temporary file.
InsertInbound(s) ==
  /\ loop[s].pc = "insert"
  /\ LoopAt(s, "decide", loop[s].id)
  /\ inbounds' = Add(inbounds, s, loop[s].id)
  /\ got' = [got EXCEPT ![s][loop[s].id] = 0]
  /\ UNCHANGED <<wire, closed, closer, user, cancels, sending, spoiled, temp, saved,
                 told>>

SendDecision(s) ==
  /\ loop[s].pc = "decide"
  /\ Room(s)
  /\ Write(s, Control("decision", loop[s].id))
  /\ LoopAt(s, "idle", 0)
  /\ UNCHANGED <<open, alive, closed, closer, user, cancels, sending, receiving, told>>

\* The entry stays for the acknowledgement.
TakeDecision(s) ==
  LET i == Head(queue[s]).id IN
  /\ Take(s, "decision")
  /\ decided' = IF i \in outbounds[s] THEN Add(decided, s, i) ELSE decided
  /\ LoopAt(s, "idle", 0)
  /\ UNCHANGED <<open, alive, closed, closer, user, cancels, next, outbounds, cancelled,
                 acked, upload, altered, receiving, told>>

\* A chunk of a transfer that is not known (any more) is ignored.
IgnoreChunk(s) ==
  /\ Take(s, "chunk")
  /\ Head(queue[s]).id \notin inbounds[s]
  /\ LoopAt(s, "idle", 0)
  /\ UNCHANGED <<open, alive, closed, closer, user, cancels, sending, receiving, told>>

\* The last chunk takes the entry out of the table, and the file is flushed: that
\* what was written has not reached the disk then goes unnoticed.
WriteChunk(s) ==
  LET c == Head(queue[s]) IN
  /\ Take(s, "chunk")
  /\ c.id \in inbounds[s]
  /\ got' = [got EXCEPT ![s][c.id] = @ + c.n]
  /\ IF c.eof THEN LoopAt(s, "rename", c.id) /\ inbounds' = Drop(inbounds, s, c.id)
              ELSE LoopAt(s, "idle", 0) /\ inbounds' = inbounds
  /\ \/ spoiled' = spoiled
     \/ c.eof /\ got'[s][c.id] > 0 /\ spoiled' = Add(spoiled, s, c.id)
  /\ UNCHANGED <<open, alive, closed, closer, user, cancels, sending, temp, saved, told>>

\* The error is logged, whether the chunk is the last or not, and the next chunk
\* is written where this one was due.
WriteChunkFails(s) ==
  LET c == Head(queue[s]) IN
  /\ Take(s, "chunk")
  /\ c.id \in inbounds[s] /\ c.n = 1
  /\ spoiled' = Add(spoiled, s, c.id)
  /\ LoopAt(s, "idle", 0)
  /\ UNCHANGED <<open, alive, closed, closer, user, cancels, sending, inbounds, got,
                 temp, saved, told>>

\* Mutant: acknowledged before it is in place.
RenameAfterAck(s) ==
  /\ loop[s].pc = "rename"
  /\ temp' = Drop(temp, s, loop[s].id)
  /\ \/ saved' = Add(saved, s, loop[s].id) /\ failed' = failed
     \/ saved' = saved /\ failed' = Add(failed, s, loop[s].id)
  /\ LoopAt(s, "ack", loop[s].id)
  /\ UNCHANGED <<wire, closed, closer, user, cancels, sending, inbounds, got, spoiled,
                 completed>>

Rename(s) ==
  /\ loop[s].pc = "rename"
  /\ temp' = Drop(temp, s, loop[s].id)
  /\ \/ /\ saved' = Add(saved, s, loop[s].id)
        /\ failed' = failed
        /\ LoopAt(s, "ack", loop[s].id)
     \/ /\ saved' = saved
        /\ failed' = Add(failed, s, loop[s].id)
        /\ LoopAt(s, "idle", 0)
  /\ UNCHANGED <<wire, closed, closer, user, cancels, sending, inbounds, got, spoiled,
                 completed>>

SendAck(s) ==
  /\ loop[s].pc = "ack"
  /\ Room(s)
  /\ Write(s, Control("ack", loop[s].id))
  /\ LoopAt(s, "idle", 0)
  /\ UNCHANGED <<open, alive, closed, closer, user, cancels, sending, receiving, told>>

\* Mutant: the entry of an acknowledged upload stays.
TakeAckKeeps(s) ==
  LET i == Head(queue[s]).id IN
  /\ Take(s, "ack")
  /\ acked' = IF i \in outbounds[s] THEN Add(acked, s, i) ELSE acked
  /\ LoopAt(s, "idle", 0)
  /\ UNCHANGED <<open, alive, closed, closer, user, cancels, next, outbounds, cancelled,
                 decided, upload, altered, receiving, told>>

TakeAck(s) ==
  LET i == Head(queue[s]).id IN
  /\ Take(s, "ack")
  /\ acked' = IF i \in outbounds[s] THEN Add(acked, s, i) ELSE acked
  /\ outbounds' = Drop(outbounds, s, i)
  /\ LoopAt(s, "idle", 0)
  /\ UNCHANGED <<open, alive, closed, closer, user, cancels, next, cancelled, decided,
                 upload, altered, receiving, told>>

\* A download's temporary file goes with its entry.
DropInbound(s, i) ==
  /\ inbounds' = Drop(inbounds, s, i)
  /\ temp' = IF i \in inbounds[s] THEN Drop(temp, s, i) ELSE temp

DropOutbound(s, i) ==
  /\ outbounds' = Drop(outbounds, s, i)
  /\ cancelled' = IF i \in outbounds[s] THEN Add(cancelled, s, i) ELSE cancelled

\* The number says nothing about the direction: both tables are searched.
TakeCancel(s) ==
  /\ Take(s, "cancel")
  /\ DropInbound(s, Head(queue[s]).id)
  /\ LoopAt(s, "uncancel", Head(queue[s]).id)
  /\ UNCHANGED <<open, alive, closed, closer, user, cancels, sending, got, spoiled,
                 saved, told>>

CancelledByPeer(s) ==
  /\ loop[s].pc = "uncancel"
  /\ DropOutbound(s, loop[s].id)
  /\ failed' = Add(failed, s, loop[s].id)
  /\ LoopAt(s, "idle", 0)
  /\ UNCHANGED <<wire, closed, closer, user, cancels, next, decided, acked, upload,
                 altered, receiving, completed>>

\* The connection has ended: the loop closes the session, and is done.
TakeFin(s) ==
  /\ Take(s, "fin")
  /\ closed' = [closed EXCEPT ![s] = TRUE]
  /\ closer' = IF closed[s] THEN closer ELSE [closer EXCEPT ![s] = "send"]
  /\ LoopAt(s, "ended", 0)
  /\ UNCHANGED <<open, alive, user, cancels, sending, receiving, told>>

-----------------------------------------------------------------------------
(* cancel_transfer: the two tables one after the other, then the peer.     *)

UserAt(s, pc, i, hit) == user' = [user EXCEPT ![s] = [pc |-> pc, id |-> i, hit |-> hit]]

Cancel(s, i) ==
  /\ user[s].pc = "idle"
  /\ ~closed[s]
  /\ cancels < MaxCancels
  /\ cancels' = cancels + 1
  /\ DropOutbound(s, i)
  /\ UserAt(s, "inbounds", i, i \in outbounds[s])
  /\ UNCHANGED <<wire, closed, closer, loop, next, decided, acked, upload, altered,
                 receiving, told>>

\* Mutant: the temporary file stays.
CancelInboundKeepsFile(s) ==
  LET i == user[s].id  hit == user[s].hit \/ i \in inbounds[s] IN
  /\ user[s].pc = "inbounds"
  /\ inbounds' = Drop(inbounds, s, i)
  /\ UserAt(s, IF hit THEN "tell" ELSE "idle", i, hit)
  /\ UNCHANGED <<wire, closed, closer, loop, cancels, sending, got, spoiled, temp,
                 saved, told>>

CancelInbound(s) ==
  LET i == user[s].id  hit == user[s].hit \/ i \in inbounds[s] IN
  /\ user[s].pc = "inbounds"
  /\ DropInbound(s, i)
  /\ UserAt(s, IF hit THEN "tell" ELSE "idle", i, hit)
  /\ UNCHANGED <<wire, closed, closer, loop, cancels, sending, got, spoiled, saved,
                 told>>

TellCancelled(s) ==
  /\ user[s].pc = "tell"
  /\ Room(s)
  /\ Write(s, Control("cancel", user[s].id))
  /\ failed' = Add(failed, s, user[s].id)
  /\ UserAt(s, "idle", 0, FALSE)
  /\ UNCHANGED <<open, alive, closed, closer, loop, cancels, sending, receiving,
                 completed>>

-----------------------------------------------------------------------------
(* close: only the first call does anything.                               *)

CloserAt(s, from, to) == closer[s] = from /\ closer' = [closer EXCEPT ![s] = to]

CloseBegins(s) ==
  /\ s \in Closers
  /\ ~closed[s]
  /\ closed' = [closed EXCEPT ![s] = TRUE]
  /\ CloserAt(s, "none", "send")
  /\ UNCHANGED <<wire, loop, user, cancels, sending, receiving, told>>

CloseSends(s) ==
  /\ Room(s)
  /\ CloserAt(s, "send", "stream")
  /\ Write(s, Fin)
  /\ open' = [open EXCEPT ![s] = FALSE]
  /\ UNCHANGED <<alive, closed, loop, user, cancels, sending, receiving, told>>

\* The reading lock is free when the loop is not waiting for a packet.
CloseStream(s) ==
  /\ loop[s].pc # "recv"
  /\ CloserAt(s, "stream", "inbounds")
  /\ UNCHANGED <<wire, closed, loop, user, cancels, sending, receiving, told>>

CloseInbounds(s) ==
  /\ CloserAt(s, "inbounds", "outbounds")
  /\ temp' = [temp EXCEPT ![s] = @ \ inbounds[s]]
  /\ inbounds' = [inbounds EXCEPT ![s] = {}]
  /\ UNCHANGED <<wire, closed, loop, user, cancels, sending, got, spoiled, saved, told>>

\* Mutant: the uploads are marked, and their entries kept.
CloseOutboundsKeeps(s) ==
  /\ CloserAt(s, "outbounds", "done")
  /\ cancelled' = [cancelled EXCEPT ![s] = @ \cup outbounds[s]]
  /\ UNCHANGED <<wire, closed, loop, user, cancels, next, outbounds, decided, acked,
                 upload, altered, receiving, told>>

CloseOutbounds(s) ==
  /\ CloserAt(s, "outbounds", "done")
  /\ cancelled' = [cancelled EXCEPT ![s] = @ \cup outbounds[s]]
  /\ outbounds' = [outbounds EXCEPT ![s] = {}]
  /\ UNCHANGED <<wire, closed, loop, user, cancels, next, decided, acked, upload,
                 altered, receiving, told>>

-----------------------------------------------------------------------------
UploadTask(s, i) ==
  \/ InsertOutbound(s, i) \/ SendOffer(s, i) \/ AwaitDecision(s, i)
  \/ CheckCancelled(s, i) \/ ReadFails(s, i) \/ SendChunk(s, i) \/ AwaitAck(s, i)

LoopTask(s) ==
  \/ LoopRecv(s) \/ LoopStops(s)
  \/ TakeOffer(s) \/ InsertInbound(s) \/ SendDecision(s) \/ TakeDecision(s)
  \/ IgnoreChunk(s) \/ WriteChunk(s) \/ WriteChunkFails(s)
  \/ Rename(s) \/ SendAck(s) \/ TakeAck(s)
  \/ TakeCancel(s) \/ CancelledByPeer(s) \/ TakeFin(s)

CancelTask(s) == CancelInbound(s) \/ TellCancelled(s)

CloseTask(s) == CloseSends(s) \/ CloseStream(s) \/ CloseInbounds(s) \/ CloseOutbounds(s)

Next ==
  \/ ConnectionLost
  \/ \E s \in Sides : Vanish(s)
  \/ \E s \in Sides :
       /\ alive[s]
       /\ \/ SendFile(s) \/ LoopTask(s) \/ CancelTask(s)
          \/ CloseBegins(s) \/ CloseTask(s)
          \/ \E i \in Ids : UploadTask(s, i) \/ Cancel(s, i)

\* The tasks of an end that is there run.  Nothing makes the application send,
\* cancel or close, or the connection break.
Fairness ==
  \A s \in Sides :
    /\ WF_vars(alive[s] /\ LoopTask(s))
    /\ WF_vars(alive[s] /\ CancelTask(s))
    /\ WF_vars(alive[s] /\ CloseTask(s))
    /\ \A i \in Ids : WF_vars(alive[s] /\ UploadTask(s, i))

Spec == Init /\ [][Next]_vars /\ Fairness

-----------------------------------------------------------------------------
(* Properties.                                                             *)

\* An upload is reported complete only if the other end has the file in place
\* (FileAck is sent after the rename, handle_media_frame).
CompletedIsSaved == \A s \in Sides : completed[s] \subseteq saved[Other(s)]

\* A file in place holds every chunk that was read of the file sent, once, and
\* that is the whole file: whatever is cancelled, lost or closed in between, the
\* last chunk never stands for those before it.  Unless writing a chunk failed,
\* or the file changed its length after it was announced.
SavedIsWhole ==
  \A s \in Sides : \A i \in saved[s] \ spoiled[s] :
    LET u == upload[Other(s)][i] IN
    /\ got[s][i] = u.offset
    /\ i \notin altered[Other(s)] => u.offset = u.size

\* An upload reported complete is the whole file, as announced.  (No run checks
\* this: a file that shrank, or whose last write failed in the flush, is put in
\* place and acknowledged all the same.)
CompletedIsWhole ==
  \A s \in Sides : \A i \in completed[s] :
    i \notin spoiled[Other(s)] /\ got[Other(s)][i] = upload[s][i].size

\* When only one end sends, an upload reported complete is not reported failed
\* as well, however a cancellation and the acknowledgement cross.
OneOutcome == \A s \in Sides : Senders = {s} => completed[s] \cap failed[s] = {}

\* As long as the session is open, each temporary file belongs to a download
\* in the table or to the one the receive loop is accepting or finishing.
TempOwned ==
  \A s \in Sides : ~closed[s] =>
    temp[s] \subseteq inbounds[s] \cup
      {i \in Ids : loop[s].pc \in {"insert", "rename"} /\ loop[s].id = i}

\* The two ends wait for each other: neither reads before it has written, and
\* what fills the connection either way is for the other to read.
Locked == \A s \in Sides : loop[s].pc \in {"decide", "ack"} /\ open[s] /\ Full(s)

\* That never happens ("writing and reading have locks of their own, so that
\* sending and receiving do not block each other", ws.rs).  Does not hold when
\* both ends send: the receive loop answers through the connection that the
\* uploads of its own end have filled.
DuplexNeverLocks == ~Locked

\* Once a session is closed its uploads come to an end: close waits for the
\* reading lock, and no task waits for a decision or an acknowledgement that
\* cannot come any more.  Unless the other device is not there to answer, or the
\* two ends are locked for good: close, too, has to write first.
ClosedSettles ==
  \A s \in Sides :
    closed[s] ~> \/ \A i \in Ids : upload[s][i].pc \in {"none", "done"}
                 \/ \E t \in Sides : ~alive[t]
                 \/ []Locked

=============================================================================
