----------------------------- MODULE QuicLink -----------------------------
(***************************************************************************)
(* One QUIC connection between a device and a relay, shared by the media   *)
(* sessions of the device: crates/stross-transport/src/quic.rs, the peer   *)
(* loop and the stream tasks of relay/data_plane.rs, and the sessions'     *)
(* users (sender.rs, watch.rs).                                            *)
(*                                                                         *)
(* A session opens a bidirectional stream and announces it by an           *)
(* OpenStream on the control stream.  The two reach the relay separately,  *)
(* and the peer loop pairs the n-th announcement with the n-th stream.     *)
(* Answers come back on the control stream by stream id and are routed to  *)
(* the session the id was last registered for.  Media frames are left out: *)
(* a stream is only open or finished.                                      *)
(***************************************************************************)
EXTENDS Sequences

CONSTANTS Sessions,     \* media sessions of the device, each used once
          Ids,          \* stream ids
          Role,         \* what a session does: "push" or "watch"
          Sid,          \* the stream id it is for
          Foreign,      \* ids that others publish on the relay
          MayRefuse,    \* pushes the relay's controlled mode may refuse
          Fragile,      \* the connection may be lost
          Nobody, Other \* no session; a publisher that is not on this link

ASSUME QuicAssumption ==
    /\ Role \in [Sessions -> {"push", "watch"}]
    /\ Sid \in [Sessions -> Ids]
    /\ Foreign \subseteq Ids /\ MayRefuse \subseteq Sessions
    /\ Fragile \in BOOLEAN
    /\ Nobody \notin Sessions /\ Other \notin Sessions /\ Nobody # Other

VARIABLES
    up,        \* the connection is alive
    phase,     \* of each session at the device
    semantic,  \* QuicLink.semantic: id -> session registered last
    events,    \* unbounded event channel of each session
    fin,       \* sessions whose half of the stream is finished
    toRelay,   \* control stream, device to relay
    toDevice,  \* control stream, relay to device
    arriving,  \* streams opened and not yet accepted, in order
    opens,     \* peer loop: announcements not yet paired
    streams,   \* peer loop: streams not yet paired
    bySem,     \* peer loop: by_semantic
    byQuic,    \* peer loop: streams in by_quic
    task,      \* the relay's task of each stream, with the announcement it got
    table      \* the relay's stream table: who feeds each id

device == <<phase, semantic, events, fin>>
peer == <<arriving, opens, streams, bySem, byQuic>>
vars == <<up, device, toRelay, toDevice, peer, task, table>>

Open(s) == [type |-> "OpenStream", id |-> Sid[s], role |-> Role[s]]
Close(id) == [type |-> "CloseStream", id |-> id]
Opened(id) == [type |-> "StreamOpened", id |-> id]
Error == [type |-> "Error"]
NoTask == [at |-> "none"]

ToRelay == [type : {"OpenStream"}, id : Ids, role : {"push", "watch"}]
           \cup [type : {"CloseStream"}, id : Ids]
ToDevice == [type : {"StreamOpened", "CloseStream"}, id : Ids] \cup {Error}

TypeOK ==
    /\ up \in BOOLEAN
    /\ phase \in [Sessions -> {"idle", "opening", "waiting", "live", "done"}]
    /\ semantic \in [Ids -> Sessions \cup {Nobody}]
    /\ events \in [Sessions -> Seq({"Opened", "Error", "Closed"})]
    /\ fin \subseteq Sessions
    /\ toRelay \in Seq(ToRelay) /\ toDevice \in Seq(ToDevice)
    /\ arriving \in Seq(Sessions) /\ streams \in Seq(Sessions)
    /\ opens \in Seq(ToRelay)
    /\ bySem \in [Ids -> Sessions \cup {Nobody}] /\ byQuic \subseteq Sessions
    /\ task \in [Sessions -> {NoTask}
           \cup [at : {"gate", "forward", "serve", "ended"},
                 id : Ids, role : {"push", "watch"},
                 feed : Sessions \cup {Nobody, Other}]]
    /\ table \in [Ids -> Sessions \cup {Nobody, Other}]

Init ==
    /\ up = TRUE
    /\ phase = [s \in Sessions |-> "idle"]
    /\ semantic = [i \in Ids |-> Nobody]
    /\ events = [s \in Sessions |-> <<>>]
    /\ fin = {}
    /\ toRelay = <<>> /\ toDevice = <<>>
    /\ arriving = <<>> /\ opens = <<>> /\ streams = <<>>
    /\ bySem = [i \in Ids |-> Nobody] /\ byQuic = {}
    /\ task = [s \in Sessions |-> NoTask]
    /\ table = [i \in Ids |-> IF i \in Foreign THEN Other ELSE Nobody]

(* What is written on a dead connection is lost.                           *)
SentToRelay(msgs) == toRelay' = IF up THEN toRelay \o msgs ELSE toRelay
SentToDevice(msgs) == toDevice' = IF up THEN toDevice \o msgs ELSE toDevice
---------------------------------------------------------------------------
(* The device.                                                             *)

(* register, up to the OpenStream: with the link's `open` mutex held the   *)
(* stream is opened and the session entered in both tables.                *)
RegisterLocked(s, free) ==
    /\ phase[s] = "idle" /\ up /\ free
    /\ phase' = [phase EXCEPT ![s] = "opening"]
    /\ semantic' = [semantic EXCEPT ![Sid[s]] = s]
    /\ arriving' = Append(arriving, s)
    /\ UNCHANGED <<up, events, fin, toRelay, toDevice, opens, streams,
                   bySem, byQuic, task, table>>

RegisterUnlocked(s) == RegisterLocked(s, TRUE)
Register(s) == RegisterLocked(s, \A r \in Sessions : phase[r] # "opening")

(* link_for returns a link that is dead while a session still holds it:    *)
(* opening the stream fails.  A sender ignores it and waits for its        *)
(* Welcome, a watcher returns the error.                                   *)
RegisterFails(s) ==
    /\ phase[s] = "idle" /\ ~up
    /\ phase' = [phase EXCEPT ![s] = IF Role[s] = "push" THEN "waiting" ELSE "done"]
    /\ UNCHANGED <<up, semantic, events, fin, toRelay, toDevice, peer, task, table>>

(* The end of register: the announcement; the mutex is released.           *)
SendOpen(s) ==
    /\ phase[s] = "opening"
    /\ SentToRelay(<<Open(s)>>)
    /\ phase' = [phase EXCEPT ![s] =
           IF up \/ Role[s] = "push" THEN "waiting" ELSE "done"]
    /\ fin' = IF phase'[s] = "done" THEN fin \cup {s} ELSE fin
    /\ UNCHANGED <<up, semantic, events, toDevice, peer, task, table>>

(* The control loop: an answer goes to the session its id was registered   *)
(* for last, an Error to every session the link has ever registered.       *)
Addressed(m) ==
    IF m.type = "Error" THEN {s \in Sessions : phase[s] # "idle"}
    ELSE {s \in Sessions : s = semantic[m.id]}

EventOf(m) == CASE m.type = "StreamOpened" -> "Opened"
                [] m.type = "CloseStream"  -> "Closed"
                [] m.type = "Error"        -> "Error"

Route ==
    /\ up /\ toDevice # <<>>
    /\ toDevice' = Tail(toDevice)
    /\ events' = [s \in Sessions |->
           IF s \in Addressed(Head(toDevice)) /\ phase[s] # "done"
           THEN Append(events[s], EventOf(Head(toDevice)))
           ELSE events[s]]
    /\ UNCHANGED <<up, phase, semantic, fin, toRelay, peer, task, table>>

(* A session is dropped: its half of the stream is finished and nobody     *)
(* reads its events any more.                                              *)
Drop(s) ==
    /\ phase' = [phase EXCEPT ![s] = "done"]
    /\ fin' = fin \cup {s}

(* recv and on_event.  Any Error fails the session, confirmed or not.      *)
Receive(s) ==
    /\ phase[s] \in {"waiting", "live"} /\ events[s] # <<>>
    /\ IF Head(events[s]) = "Opened"
       THEN /\ phase' = [phase EXCEPT ![s] = "live"]
            /\ UNCHANGED fin
       ELSE Drop(s)
    /\ events' = [events EXCEPT ![s] =
           IF phase'[s] = "done" THEN <<>> ELSE Tail(@)]
    /\ UNCHANGED <<up, semantic, toRelay, toDevice, peer, task, table>>

(* recv of a confirmed session, events first: the relay has finished its   *)
(* half, or the connection is gone.                                        *)
MediaEnds(s) ==
    /\ phase[s] = "live" /\ events[s] = <<>>
    /\ ~up \/ task[s].at = "ended"
    /\ Drop(s)
    /\ UNCHANGED <<up, semantic, events, toRelay, toDevice, peer, task, table>>

(* A push is stopped, or its five seconds for the Welcome are over:        *)
(* client_loop says Bye and closes, and each sends a CloseStream.  A       *)
(* watcher is only dropped.                                                *)
Stop(s) ==
    /\ phase[s] = "live" \/ (phase[s] = "waiting" /\ Role[s] = "push")
    /\ SentToRelay(IF Role[s] = "push" THEN <<Close(Sid[s]), Close(Sid[s])>> ELSE <<>>)
    /\ Drop(s)
    /\ events' = [events EXCEPT ![s] = <<>>]
    /\ UNCHANGED <<up, semantic, toDevice, peer, task, table>>

WelcomeTimeout(s) == phase[s] = "waiting" /\ Stop(s)
---------------------------------------------------------------------------
(* The relay.                                                              *)

(* The pairing at the end of a round of the peer loop: one of the queues   *)
(* was empty before the round, so one pair is made at most.                *)
Pair(os, ss) ==
    IF os = <<>> \/ ss = <<>>
    THEN opens' = os /\ streams' = ss /\ UNCHANGED <<bySem, byQuic, task>>
    ELSE LET o == Head(os)
             q == Head(ss)
         IN /\ opens' = Tail(os) /\ streams' = Tail(ss)
            /\ byQuic' = byQuic \cup {q}
            /\ bySem' = [bySem EXCEPT ![o.id] = q]
            /\ task' = [task EXCEPT ![q] =
                   [at |-> "gate", id |-> o.id, role |-> o.role, feed |-> Nobody]]

RecvOpen ==
    /\ up /\ toRelay # <<>> /\ Head(toRelay).type = "OpenStream"
    /\ toRelay' = Tail(toRelay)
    /\ Pair(Append(opens, Head(toRelay)), streams)
    /\ UNCHANGED <<up, device, toDevice, arriving, table>>

AcceptStream ==
    /\ up /\ arriving # <<>>
    /\ arriving' = Tail(arriving)
    /\ Pair(opens, Append(streams, Head(arriving)))
    /\ UNCHANGED <<up, device, toRelay, toDevice, table>>

(* CloseStream of a push of this link takes its id out of the table.       *)
RecvClose ==
    /\ up /\ toRelay # <<>> /\ Head(toRelay).type = "CloseStream"
    /\ toRelay' = Tail(toRelay)
    /\ LET id == Head(toRelay).id
           q  == bySem[id]
       IN /\ bySem' = [bySem EXCEPT ![id] = Nobody]
          /\ byQuic' = byQuic \ {q}
          /\ table' = IF q \in byQuic /\ task[q].role = "push"
                      THEN [table EXCEPT ![task[q].id] = Nobody] ELSE table
    /\ UNCHANGED <<up, device, toDevice, arriving, opens, streams, task>>

(* The gate of a push or watch: the controlled mode, or the state of the   *)
(* id in the table, may refuse it; the task then says so and ends.         *)
Refused(q) ==
    CASE task[q].role = "push"  -> q \in MayRefuse \/ table[task[q].id] # Nobody
      [] task[q].role = "watch" -> table[task[q].id] = Nobody

RefuseSilently(q) ==
    /\ task[q].at = "gate" /\ Refused(q)
    /\ task' = [task EXCEPT ![q].at = "ended"]
    /\ UNCHANGED <<up, device, toRelay, toDevice, peer, table>>

Refuse(q) ==
    /\ task[q].at = "gate" /\ Refused(q)
    /\ task' = [task EXCEPT ![q].at = "ended"]
    /\ SentToDevice(<<Error, Close(task[q].id)>>)
    /\ UNCHANGED <<up, device, toRelay, peer, table>>

(* The look at the table and the insertion are one step here: module Relay *)
(* takes them apart.                                                       *)
Admit(q) ==
    /\ task[q].at = "gate" /\ task[q].role = "push" /\ table[task[q].id] = Nobody
    /\ table' = [table EXCEPT ![task[q].id] = q]
    /\ task' = [task EXCEPT ![q].at = "forward"]
    /\ SentToDevice(<<Opened(task[q].id)>>)
    /\ UNCHANGED <<up, device, toRelay, peer>>

(* The push task reads the end of the stream, an error, or nothing for too *)
(* long (PUSH_SILENCE_TIMEOUT), and takes the id out of the table.         *)
Over(q) == ~up \/ q \in fin

PushEndLeaving(q, left) ==
    /\ task[q].at = "forward"
    /\ table' = left
    /\ task' = [task EXCEPT ![q].at = "ended"]
    /\ SentToDevice(<<Close(task[q].id)>>)
    /\ UNCHANGED <<up, device, toRelay, peer>>

PushEndForgets(q) == PushEndLeaving(q, table)
PushEnd(q) == PushEndLeaving(q, [table EXCEPT ![task[q].id] = Nobody])

Serve(q) ==
    /\ task[q].at = "gate" /\ task[q].role = "watch" /\ table[task[q].id] # Nobody
    /\ task' = [task EXCEPT ![q].at = "serve", ![q].feed = table[task[q].id]]
    /\ SentToDevice(<<Opened(task[q].id)>>)
    /\ UNCHANGED <<up, device, toRelay, peer, table>>

(* The stream it subscribed to has ended, or a frame cannot be written; if *)
(* that was the replayed keyframe, the device is not told.                 *)
WatchEnd(q) ==
    /\ task[q].at = "serve"
    /\ table[task[q].id] # task[q].feed \/ Over(q)
    /\ task' = [task EXCEPT ![q].at = "ended"]
    /\ \/ SentToDevice(<<Close(task[q].id)>>)
       \/ Over(q) /\ UNCHANGED toDevice
    /\ UNCHANGED <<up, device, toRelay, peer, table>>

(* A stream published by somebody who is not on this link ends.            *)
OtherEnds(i) ==
    /\ table[i] = Other
    /\ table' = [table EXCEPT ![i] = Nobody]
    /\ UNCHANGED <<up, device, toRelay, toDevice, peer, task>>

(* The connection is lost, or closed because the last session dropped it;  *)
(* what is on the way is lost and the peer loop ends with its queues.      *)
LinkCloses ==
    /\ up /\ (Fragile \/ \A s \in Sessions : phase[s] = "done")
    /\ up' = FALSE
    /\ toRelay' = <<>> /\ toDevice' = <<>> /\ arriving' = <<>>
    /\ opens' = <<>> /\ streams' = <<>>
    /\ bySem' = [i \in Ids |-> Nobody] /\ byQuic' = {}
    /\ UNCHANGED <<device, task, table>>
---------------------------------------------------------------------------
Next ==
    \/ \E s \in Sessions :
          \/ Register(s) \/ RegisterFails(s) \/ SendOpen(s) \/ Receive(s)
          \/ MediaEnds(s) \/ Stop(s)
          \/ Refuse(s) \/ Admit(s) \/ PushEnd(s)
          \/ Serve(s) \/ WatchEnd(s)
    \/ Route \/ RecvOpen \/ AcceptStream \/ RecvClose \/ LinkCloses
    \/ \E i \in Ids : OtherEnds(i)

(* Tasks that can run do run, and the connection delivers or breaks.  The  *)
(* gate of a push is decided; no session has to open, stop, or be silent,  *)
(* and a watch task need not notice a client that left.                    *)
Fairness ==
    /\ WF_vars(Route) /\ WF_vars(RecvOpen) /\ WF_vars(RecvClose)
    /\ WF_vars(AcceptStream)
    /\ \A s \in Sessions :
          /\ WF_vars(SendOpen(s)) /\ WF_vars(Receive(s)) /\ WF_vars(MediaEnds(s))
          /\ WF_vars(WelcomeTimeout(s))
          /\ WF_vars(Refuse(s) \/ Admit(s) \/ Serve(s))
          /\ WF_vars(Over(s) /\ PushEnd(s))

Spec == Init /\ [][Next]_vars /\ Fairness
---------------------------------------------------------------------------
(* A task works for the announcement of the session whose stream it holds, *)
(* although the two arrive apart: the pairing in order of arrival in       *)
(* quic_peer_loop depends on the `open` mutex of the link (quic.rs,        *)
(* register) and on nothing being registered halfway.                      *)
Paired ==
    \A q \in Sessions : task[q] # NoTask =>
        task[q].id = Sid[q] /\ task[q].role = Role[q]

(* A push session that is over, however it ended and whatever of its Open  *)
(* and Close is still on the way, leaves the relay's table for good.       *)
StreamLeaves ==
    \A s \in {r \in Sessions : Role[r] = "push"} :
        <>[](phase[s] = "done" => \A i \in Ids : table[i] # s)

(* A session that waits for its confirmation gets one, fails, or gives up; *)
(* only a watcher whose connection was lost is left waiting, since its own *)
(* sender keeps its event channel open (_ev_tx) and connect_watch has no   *)
(* timeout.                                                                *)
Answered ==
    \A s \in Sessions :
        phase[s] = "waiting" ~> \/ phase[s] # "waiting"
                                \/ Role[s] = "watch" /\ ~up
===========================================================================
