------------------------------- MODULE Relay -------------------------------
(***************************************************************************)
(* The data plane of a relay (stross-kernel/src/relay): the stream table,  *)
(* the tasks that push into it (handle_push_loop), the tasks that pull a   *)
(* stream from another relay (start_proxy, proxy_uplink), the tasks that   *)
(* watch a stream (handle_watch), and the kernel's calls to authorise and  *)
(* revoke a stream id.                                                     *)
(*                                                                         *)
(* Every task runs on its own thread of the runtime.  The only atomic      *)
(* sections are those under one mutex: one lookup, one insertion or one    *)
(* removal in the table, or one forward (cache the keyframe and            *)
(* broadcast).  A step of a task ends where it releases such a lock, and   *)
(* an event about the table is emitted in a step of its own, after that:   *)
(* other tasks may come in between.                                        *)
(*                                                                         *)
(* A stream entry is represented by its broadcast channel, a number: every *)
(* insertion makes a new channel, so the number is the incarnation of the  *)
(* stream.  A frame is its position in the channel's log and its kind.     *)
(* The events the relay emits are reduced to what the kernel acts on: how  *)
(* many StreamStarted and StreamEnded each incarnation had, and whether a  *)
(* WatchersChanged(0) is owed.                                             *)
(***************************************************************************)
EXTENDS Integers, Sequences

CONSTANTS
  StreamIds,     \* semantic stream ids
  NoId,          \* Option::None for a stream id
  Pushers,       \* push sessions
  LocalPushers,  \* those whose peer address is a loopback address
  Proxiers,      \* calls of start_proxy with the uplink task each one spawns
  Watchers,      \* watch sessions
  Controlled,    \* the relay runs inside a kernel and gates every push
  Kinds,         \* the kinds of frame the pushers send
  Capacity,      \* capacity of a broadcast channel (128 in the code)
  MaxHello,      \* bound: Hello messages one push session sends
  MaxChannels,   \* bound: streams ever inserted
  MaxFrames      \* bound: frames broadcast on one channel

FrameKinds == {"key", "delta", "config", "other"}

ASSUME ConstantsAssumption ==
  /\ NoId \notin StreamIds
  /\ LocalPushers \subseteq Pushers
  /\ Pushers \cap Proxiers = {}
  /\ Controlled \in BOOLEAN
  /\ Kinds \subseteq FrameKinds
  /\ Capacity \in Nat \ {0}
  /\ MaxHello \in Nat
  /\ MaxChannels \in Nat
  /\ MaxFrames \in Nat

VARIABLES
  streams,    \* stream id -> its current channel, 0 when there is no entry
  created,    \* number of channels created so far
  log,        \* channel -> kinds of the frames broadcast on it
  lastKey,    \* channel -> position of the cached keyframe, 0 when none
  maker,      \* history: channel -> the task that inserted it
  begun,      \* history: channel -> StreamStarted events emitted for it
  ended,      \* history: channel -> StreamEnded events emitted for its removal
  owed,       \* stream id -> its last watcher left, no WatchersChanged(0) yet
  allowed,    \* ids the kernel has authorised
  tokens,     \* ids for which the kernel validates the share token
  teardown,   \* stream id -> how far the kernel's teardown of it has got
  cut,        \* stream id -> the channel that teardown has removed, 0 for none
  pusher, proxier, watcher

chanVars   == <<created, log, lastKey, maker>>
kernelVars == <<allowed, tokens, teardown, cut>>
eventVars  == <<begun, ended, owed>>
vars == <<streams, chanVars, eventVars, kernelVars, pusher, proxier, watcher>>

Channels == 1 .. MaxChannels

\* 0 stands for no stream at all.
Incarnations == 0 .. MaxChannels

PusherState ==
  [pc: {"idle", "gate", "lookup", "insert", "starting", "streaming", "ending"},
   id: StreamIds \cup {NoId},      \* the stream this session has made
   want: StreamIds \cup {NoId},    \* the id of the Hello being handled
   ch: Incarnations,               \* inserted or removed, still to be reported
   hellos: 0 .. MaxHello,
   silent: BOOLEAN]                \* the peer died without closing

ProxierState ==
  [pc: {"idle", "locked", "starting", "running", "dropping", "ending"},
   id: StreamIds \cup {NoId},
   ch: Incarnations,               \* as for a push session
   silent: BOOLEAN]

WatcherState ==
  [pc: {"idle", "holding", "joining", "live", "leaving", "counting", "reporting"},
   id: StreamIds \cup {NoId},
   ch: 0 .. MaxChannels,
   kf: 0 .. MaxFrames,       \* the keyframe cloned with the entry
   pos: 0 .. MaxFrames,      \* next frame to receive is pos + 1
   started: BOOLEAN,         \* video_started
   sent: 0 .. MaxFrames,     \* history: last frame sent to the watcher
   none: BOOLEAN]            \* the count to be reported is 0

PusherIdle  == [pc |-> "idle", id |-> NoId, want |-> NoId, ch |-> 0,
                hellos |-> 0, silent |-> FALSE]
ProxierIdle == [pc |-> "idle", id |-> NoId, ch |-> 0, silent |-> FALSE]
WatcherIdle == [pc |-> "idle", id |-> NoId, ch |-> 0, kf |-> 0, pos |-> 0,
                started |-> FALSE, sent |-> 0, none |-> FALSE]

TypeOK ==
  /\ streams \in [StreamIds -> 0 .. MaxChannels]
  /\ created \in 0 .. MaxChannels
  /\ log \in [Channels -> Seq(FrameKinds)]
  /\ \A c \in Channels : Len(log[c]) <= MaxFrames
  /\ lastKey \in [Channels -> 0 .. MaxFrames]
  /\ maker \in [Channels -> Pushers \cup Proxiers \cup {NoId}]
  /\ begun \in [Incarnations -> Nat]
  /\ ended \in [Incarnations -> Nat]
  /\ owed \in [StreamIds -> BOOLEAN]
  /\ allowed \subseteq StreamIds
  /\ tokens \subseteq StreamIds
  /\ teardown \in [StreamIds -> {"none", "revoke", "cut", "report"}]
  /\ cut \in [StreamIds -> Incarnations]
  /\ pusher \in [Pushers -> PusherState]
  /\ proxier \in [Proxiers -> ProxierState]
  /\ watcher \in [Watchers -> WatcherState]

Init ==
  /\ streams = [id \in StreamIds |-> 0]
  /\ created = 0
  /\ log = [c \in Channels |-> <<>>]
  /\ lastKey = [c \in Channels |-> 0]
  /\ maker = [c \in Channels |-> NoId]
  /\ begun = [c \in Incarnations |-> 0]
  /\ ended = [c \in Incarnations |-> 0]
  /\ owed = [id \in StreamIds |-> FALSE]
  /\ allowed = {}
  /\ tokens = {}
  /\ teardown = [id \in StreamIds |-> "none"]
  /\ cut = [id \in StreamIds |-> 0]
  /\ pusher = [p \in Pushers |-> PusherIdle]
  /\ proxier = [x \in Proxiers |-> ProxierIdle]
  /\ watcher = [w \in Watchers |-> WatcherIdle]

-----------------------------------------------------------------------------
(* The stream table (RelayState).                                          *)

Exists(id) == streams[id] # 0

\* insert: a fresh channel takes the place of whatever entry there was.
Insert(id, task) ==
  /\ created < MaxChannels
  /\ created' = created + 1
  /\ streams' = [streams EXCEPT ![id] = created + 1]
  /\ maker' = [maker EXCEPT ![created + 1] = task]
  /\ owed' = [owed EXCEPT ![id] = FALSE]
  /\ UNCHANGED <<log, lastKey, begun, ended>>

Remove(id) ==
  /\ streams' = [streams EXCEPT ![id] = 0]
  /\ owed' = IF Exists(id) THEN [owed EXCEPT ![id] = FALSE] ELSE owed
  /\ UNCHANGED <<chanVars, begun, ended>>

\* Mutant of MustReport: StreamEnded is emitted whatever remove returned.
MustReportAlways(id) == id \in StreamIds

\* What remove returns: its callers then emit StreamEnded, once the lock of
\* the table is released.
MustReport(id) == Exists(id)

EmitStarted(c) ==
  /\ begun' = [begun EXCEPT ![c] = @ + 1]
  /\ UNCHANGED <<streams, chanVars, ended, owed>>

EmitEnded(c) ==
  /\ ended' = [ended EXCEPT ![c] = @ + 1]
  /\ UNCHANGED <<streams, chanVars, begun, owed>>

\* forward: nothing happens when there is no entry.
Forward(id, kind) ==
  LET c == streams[id] IN
  IF Exists(id)
  THEN /\ Len(log[c]) < MaxFrames
       /\ log' = [log EXCEPT ![c] = Append(@, kind)]
       /\ lastKey' = IF kind = "key"
                     THEN [lastKey EXCEPT ![c] = Len(log[c]) + 1]
                     ELSE lastKey
  ELSE UNCHANGED <<log, lastKey>>

-----------------------------------------------------------------------------
(* A push session (handle_push_loop).                                      *)

PushHello(p, id) ==
  /\ pusher[p].pc \in {"idle", "streaming"}
  /\ ~pusher[p].silent
  /\ pusher[p].hellos < MaxHello
  /\ pusher' = [pusher EXCEPT ![p].pc = "gate", ![p].want = id,
                              ![p].hellos = @ + 1]
  /\ UNCHANGED <<streams, chanVars, eventVars, kernelVars, proxier, watcher>>

\* is_allowed: only a cross-device pusher presents a token.
IsAllowed(p, id) == \/ p \in LocalPushers /\ id \in allowed
                    \/ p \notin LocalPushers /\ id \in tokens

\* Mutant of PushGate: a rejected session is told so and then kept.
PushGateLingers(p) ==
  /\ pusher[p].pc = "gate"
  /\ pusher' = [pusher EXCEPT ![p].pc =
                  IF Controlled => IsAllowed(p, pusher[p].want) THEN "lookup" ELSE "rejected"]
  /\ UNCHANGED <<streams, chanVars, eventVars, kernelVars, proxier, watcher>>

\* The rejected session is closed and its task returns: nothing else is undone.
PushGate(p) ==
  /\ pusher[p].pc = "gate"
  /\ IF Controlled => IsAllowed(p, pusher[p].want)
     THEN pusher' = [pusher EXCEPT ![p].pc = "lookup"]
     ELSE pusher' = [pusher EXCEPT ![p] = PusherIdle]
  /\ UNCHANGED <<streams, chanVars, eventVars, kernelVars, proxier, watcher>>

PushLookup(p) ==
  /\ pusher[p].pc = "lookup"
  /\ IF Exists(pusher[p].want)
     THEN pusher' = [pusher EXCEPT ![p] = PusherIdle]
     ELSE pusher' = [pusher EXCEPT ![p].pc = "insert"]
  /\ UNCHANGED <<streams, chanVars, eventVars, kernelVars, proxier, watcher>>

PushInsert(p) ==
  /\ pusher[p].pc = "insert"
  /\ Insert(pusher[p].want, p)
  /\ pusher' = [pusher EXCEPT ![p].pc = "starting", ![p].id = pusher[p].want,
                              ![p].want = NoId, ![p].ch = created + 1]
  /\ UNCHANGED <<kernelVars, proxier, watcher>>

\* StreamStarted, once the entry is in the table for everyone to see.
PushAnnounce(p) ==
  /\ pusher[p].pc = "starting"
  /\ EmitStarted(pusher[p].ch)
  /\ pusher' = [pusher EXCEPT ![p].pc = "streaming", ![p].ch = 0]
  /\ UNCHANGED <<kernelVars, proxier, watcher>>

PushFrame(p, kind) ==
  /\ pusher[p].pc = "streaming"
  /\ ~pusher[p].silent
  /\ Forward(pusher[p].id, kind)
  /\ UNCHANGED <<streams, created, maker, eventVars, kernelVars, pusher,
                 proxier, watcher>>

\* The loop is left: the stream is removed by its id, whoever inserted it.
PushExit(p) ==
  /\ Remove(pusher[p].id)
  /\ pusher' = [pusher EXCEPT ![p] =
       IF MustReport(pusher[p].id)
       THEN [pusher[p] EXCEPT !.pc = "ending", !.ch = streams[pusher[p].id]]
       ELSE PusherIdle]
  /\ UNCHANGED <<kernelVars, proxier, watcher>>

\* Bye, end of the connection or a receive error.
PushBye(p) ==
  /\ pusher[p].pc = "streaming"
  /\ ~pusher[p].silent
  /\ PushExit(p)

\* The peer is killed or the network drops it: no message and no close.
PushSilence(p) ==
  /\ pusher[p].pc = "streaming"
  /\ ~pusher[p].silent
  /\ pusher' = [pusher EXCEPT ![p].silent = TRUE]
  /\ UNCHANGED <<streams, chanVars, eventVars, kernelVars, proxier, watcher>>

\* Mutant of PushTimeout: the task returns on the timeout without cleaning up.
PushTimeoutForgets(p) ==
  /\ pusher[p].pc = "streaming"
  /\ pusher[p].silent
  /\ pusher' = [pusher EXCEPT ![p] = PusherIdle]
  /\ UNCHANGED <<streams, chanVars, eventVars, kernelVars, proxier, watcher>>

\* PUSH_SILENCE_TIMEOUT.
PushTimeout(p) ==
  /\ pusher[p].pc = "streaming"
  /\ pusher[p].silent
  /\ PushExit(p)

\* StreamEnded, after the removal; the task is over.
PushReport(p) ==
  /\ pusher[p].pc = "ending"
  /\ EmitEnded(pusher[p].ch)
  /\ pusher' = [pusher EXCEPT ![p] = PusherIdle]
  /\ UNCHANGED <<kernelVars, proxier, watcher>>

-----------------------------------------------------------------------------
(* A proxied stream (start_proxy, proxy_uplink, remove_proxy).             *)

\* The ids in the proxies table.
ProxyTable == {proxier[x].id : x \in {y \in Proxiers : proxier[y].pc = "running"}}

\* start_proxy holds the proxies lock from its checks until it has emitted
\* StreamStarted.
ProxiesLocked == \E x \in Proxiers : proxier[x].pc \in {"locked", "starting"}

ProxyCheck(x, id) ==
  /\ proxier[x].pc = "idle"
  /\ ~ProxiesLocked
  /\ id \notin ProxyTable
  /\ ~Exists(id)
  /\ proxier' = [proxier EXCEPT ![x].pc = "locked", ![x].id = id]
  /\ UNCHANGED <<streams, chanVars, eventVars, kernelVars, pusher, watcher>>

ProxyInsert(x) ==
  /\ proxier[x].pc = "locked"
  /\ Insert(proxier[x].id, x)
  /\ proxier' = [proxier EXCEPT ![x].pc = "starting", ![x].ch = created + 1]
  /\ UNCHANGED <<kernelVars, pusher, watcher>>

ProxyAnnounce(x) ==
  /\ proxier[x].pc = "starting"
  /\ EmitStarted(proxier[x].ch)
  /\ proxier' = [proxier EXCEPT ![x].pc = "running", ![x].ch = 0]
  /\ UNCHANGED <<kernelVars, pusher, watcher>>

\* The uplink task runs as soon as the entry is in the table.
ProxyFrame(x, kind) ==
  /\ proxier[x].pc \in {"starting", "running"}
  /\ ~proxier[x].silent
  /\ Forward(proxier[x].id, kind)
  /\ UNCHANGED <<streams, created, maker, eventVars, kernelVars, pusher,
                 proxier, watcher>>

\* The upstream connection dies without a close.
ProxySilence(x) ==
  /\ proxier[x].pc \in {"starting", "running"}
  /\ ~proxier[x].silent
  /\ proxier' = [proxier EXCEPT ![x].silent = TRUE]
  /\ UNCHANGED <<streams, chanVars, eventVars, kernelVars, pusher, watcher>>

\* Mutant of ProxyUnregister: the uplink only leaves the proxies table.
ProxyUnregisterOnly(x) ==
  /\ proxier[x].pc = "running"
  /\ ~ProxiesLocked
  /\ proxier' = [proxier EXCEPT ![x] = ProxierIdle]
  /\ UNCHANGED <<streams, chanVars, eventVars, kernelVars, pusher, watcher>>

\* remove_proxy, first half: the connection failed, closed or timed out.
ProxyUnregister(x) ==
  /\ proxier[x].pc = "running"
  /\ ~ProxiesLocked
  /\ proxier' = [proxier EXCEPT ![x].pc = "dropping"]
  /\ UNCHANGED <<streams, chanVars, eventVars, kernelVars, pusher, watcher>>

\* remove_proxy, second half, after the proxies lock is released.
ProxyRemove(x) ==
  /\ proxier[x].pc = "dropping"
  /\ Remove(proxier[x].id)
  /\ proxier' = [proxier EXCEPT ![x] =
       IF MustReport(proxier[x].id)
       THEN [proxier[x] EXCEPT !.pc = "ending", !.ch = streams[proxier[x].id]]
       ELSE ProxierIdle]
  /\ UNCHANGED <<kernelVars, pusher, watcher>>

ProxyReport(x) ==
  /\ proxier[x].pc = "ending"
  /\ EmitEnded(proxier[x].ch)
  /\ proxier' = [proxier EXCEPT ![x] = ProxierIdle]
  /\ UNCHANGED <<kernelVars, pusher, watcher>>

-----------------------------------------------------------------------------
(* A watch session (handle_watch).                                         *)

Subscribed == {"joining", "live", "leaving"}

Receivers(c) == {w \in Watchers : watcher[w].ch = c /\ watcher[w].pc \in Subscribed}

\* Mutant of Open: a watch task keeps its clone of the entry, and so a sender.
OpenWhileWatched(c) == \/ \E id \in StreamIds : streams[id] = c
                       \/ Receivers(c) # {}

\* A channel is open while the table or a task still holds its sender.
Open(c) == \/ \E id \in StreamIds : streams[id] = c
           \/ \E w \in Watchers : watcher[w].pc = "holding" /\ watcher[w].ch = c

\* get clones the entry, keyframe and sender together.
WatchLookup(w, id) ==
  /\ watcher[w].pc = "idle"
  /\ Exists(id)
  /\ watcher' = [watcher EXCEPT ![w] =
       [pc |-> "holding", id |-> id, ch |-> streams[id], kf |-> lastKey[streams[id]],
        pos |-> 0, started |-> FALSE, sent |-> 0, none |-> FALSE]]
  /\ UNCHANGED <<streams, chanVars, eventVars, kernelVars, pusher, proxier>>

\* subscribe, then drop(entry).
WatchSubscribe(w) ==
  /\ watcher[w].pc = "holding"
  /\ watcher' = [watcher EXCEPT ![w].pc = "joining",
                                ![w].pos = Len(log[watcher[w].ch])]
  /\ UNCHANGED <<streams, chanVars, eventVars, kernelVars, pusher, proxier>>

\* drop(rx): owed when it was the last receiver of the id's current channel.
OwedAfterDrop(w) ==
  LET id == watcher[w].id IN
  IF watcher[w].ch = streams[id] /\ Receivers(watcher[w].ch) = {w}
  THEN [owed EXCEPT ![id] = TRUE]
  ELSE owed

\* Mutant of WatchReplay: the keyframe is read after the subscription.
WatchReplayNewest(w) ==
  LET kf == lastKey[watcher[w].ch] IN
  /\ watcher[w].pc = "joining"
  /\ watcher' = [watcher EXCEPT ![w].pc = "live", ![w].started = kf # 0,
                                ![w].sent = kf]
  /\ UNCHANGED <<streams, chanVars, eventVars, kernelVars, pusher, proxier>>

\* The cached keyframe, when there is one, goes first.
WatchReplay(w) ==
  LET kf == watcher[w].kf IN
  /\ watcher[w].pc = "joining"
  /\ watcher' = [watcher EXCEPT ![w].pc = "live", ![w].started = kf # 0,
                                ![w].sent = kf]
  /\ UNCHANGED <<streams, chanVars, eventVars, kernelVars, pusher, proxier>>

\* Mutant of WatchReplayFails: the early return reports nothing.
WatchReplayFailsSilently(w) ==
  /\ watcher[w].pc = "joining"
  /\ watcher[w].kf # 0
  /\ owed' = OwedAfterDrop(w)
  /\ watcher' = [watcher EXCEPT ![w] = WatcherIdle]
  /\ UNCHANGED <<streams, chanVars, begun, ended, kernelVars, pusher, proxier>>

\* It could not be sent: the receiver is dropped and 0 will be reported,
\* whatever the number of other watchers.
WatchReplayFails(w) ==
  /\ watcher[w].pc = "joining"
  /\ watcher[w].kf # 0
  /\ owed' = OwedAfterDrop(w)
  /\ watcher' = [watcher EXCEPT ![w].pc = "reporting", ![w].none = TRUE]
  /\ UNCHANGED <<streams, chanVars, begun, ended, kernelVars, pusher, proxier>>

Behind(w) == Len(log[watcher[w].ch]) - watcher[w].pos

\* Mutant of WatchLag: the loop goes on as if it had missed nothing.
WatchLagUnaware(w) ==
  /\ watcher[w].pc = "live"
  /\ Behind(w) > Capacity
  /\ watcher' = [watcher EXCEPT ![w].pos = Len(log[watcher[w].ch]) - Capacity]
  /\ UNCHANGED <<streams, chanVars, eventVars, kernelVars, pusher, proxier>>

\* RecvError::Lagged: the receiver resumes at the oldest frame still held.
WatchLag(w) ==
  /\ watcher[w].pc = "live"
  /\ Behind(w) > Capacity
  /\ watcher' = [watcher EXCEPT ![w].started = FALSE,
                                ![w].pos = Len(log[watcher[w].ch]) - Capacity]
  /\ UNCHANGED <<streams, chanVars, eventVars, kernelVars, pusher, proxier>>

NextKind(w) == log[watcher[w].ch][watcher[w].pos + 1]

CanReceive(w) == watcher[w].pc = "live" /\ Behind(w) \in 1 .. Capacity

\* A video frame that is neither keyframe nor config waits for one.
MustSkip(w) == NextKind(w) = "delta" /\ ~watcher[w].started

WatchSkip(w) ==
  /\ CanReceive(w)
  /\ MustSkip(w)
  /\ watcher' = [watcher EXCEPT ![w].pos = @ + 1]
  /\ UNCHANGED <<streams, chanVars, eventVars, kernelVars, pusher, proxier>>

WatchDeliver(w) ==
  LET n == watcher[w].pos + 1
      kind == NextKind(w) IN
  /\ CanReceive(w)
  /\ ~MustSkip(w)
  /\ watcher' = [watcher EXCEPT
       ![w].pos = n,
       ![w].started = @ \/ kind \in {"key", "config"},
       ![w].sent = n]
  /\ UNCHANGED <<streams, chanVars, eventVars, kernelVars, pusher, proxier>>

\* The session is dead: the loop is left on the failed send.
WatchDeliverFails(w) ==
  /\ CanReceive(w)
  /\ ~MustSkip(w)
  /\ watcher' = [watcher EXCEPT ![w].pc = "leaving"]
  /\ UNCHANGED <<streams, chanVars, eventVars, kernelVars, pusher, proxier>>

\* RecvError::Closed, once everything still in the channel was received.
WatchClosed(w) ==
  /\ watcher[w].pc = "live"
  /\ Behind(w) = 0
  /\ ~Open(watcher[w].ch)
  /\ watcher' = [watcher EXCEPT ![w].pc = "leaving"]
  /\ UNCHANGED <<streams, chanVars, eventVars, kernelVars, pusher, proxier>>

WatchDrop(w) ==
  /\ watcher[w].pc = "leaving"
  /\ owed' = OwedAfterDrop(w)
  /\ watcher' = [watcher EXCEPT ![w].pc = "counting"]
  /\ UNCHANGED <<streams, chanVars, begun, ended, kernelVars, pusher, proxier>>

\* The receivers of the stream that has this id now, 0 when there is none.
WatchCount(w) ==
  LET c == streams[watcher[w].id] IN
  /\ watcher[w].pc = "counting"
  /\ watcher' = [watcher EXCEPT ![w].pc = "reporting",
                                ![w].none = (c = 0 \/ Receivers(c) = {})]
  /\ UNCHANGED <<streams, chanVars, eventVars, kernelVars, pusher, proxier>>

WatchReport(w) ==
  /\ watcher[w].pc = "reporting"
  /\ owed' = IF watcher[w].none
             THEN [owed EXCEPT ![watcher[w].id] = FALSE]
             ELSE owed
  /\ watcher' = [watcher EXCEPT ![w] = WatcherIdle]
  /\ UNCHANGED <<streams, chanVars, begun, ended, kernelVars, pusher, proxier>>

-----------------------------------------------------------------------------
(* The kernel: a session's id is authorised when the session is built; a   *)
(* teardown drops the share token, then calls revoke_stream, which takes   *)
(* two locks one after the other.                                          *)

Authorize(id) ==
  /\ Controlled
  /\ teardown[id] = "none"
  /\ id \notin allowed
  /\ allowed' = allowed \cup {id}
  /\ UNCHANGED <<streams, chanVars, eventVars, tokens, teardown, cut, pusher,
                 proxier, watcher>>

IssueToken(id) ==
  /\ Controlled
  /\ teardown[id] = "none"
  /\ id \in allowed
  /\ tokens' = tokens \cup {id}
  /\ UNCHANGED <<streams, chanVars, eventVars, allowed, teardown, cut, pusher,
                 proxier, watcher>>

TeardownSession(id) ==
  /\ teardown[id] = "none"
  /\ id \in allowed
  /\ tokens' = tokens \ {id}
  /\ teardown' = [teardown EXCEPT ![id] = "revoke"]
  /\ UNCHANGED <<streams, chanVars, eventVars, allowed, cut, pusher, proxier,
                 watcher>>

RevokeAuthorization(id) ==
  /\ teardown[id] = "revoke"
  /\ allowed' = allowed \ {id}
  /\ teardown' = [teardown EXCEPT ![id] = "cut"]
  /\ UNCHANGED <<streams, chanVars, eventVars, tokens, cut, pusher, proxier,
                 watcher>>

RevokeStream(id) ==
  /\ teardown[id] = "cut"
  /\ Remove(id)
  /\ teardown' = [teardown EXCEPT ![id] = IF MustReport(id) THEN "report" ELSE "none"]
  /\ cut' = [cut EXCEPT ![id] = streams[id]]
  /\ UNCHANGED <<allowed, tokens, pusher, proxier, watcher>>

RevokeReport(id) ==
  /\ teardown[id] = "report"
  /\ EmitEnded(cut[id])
  /\ teardown' = [teardown EXCEPT ![id] = "none"]
  /\ cut' = [cut EXCEPT ![id] = 0]
  /\ UNCHANGED <<allowed, tokens, pusher, proxier, watcher>>

-----------------------------------------------------------------------------
PushStep(p) ==
  \/ \E id \in StreamIds : PushHello(p, id)
  \/ PushGate(p) \/ PushLookup(p) \/ PushInsert(p) \/ PushAnnounce(p)
  \/ \E kind \in Kinds : PushFrame(p, kind)
  \/ PushBye(p) \/ PushSilence(p) \/ PushTimeout(p) \/ PushReport(p)

ProxyStep(x) ==
  \/ \E id \in StreamIds : ProxyCheck(x, id)
  \/ ProxyInsert(x) \/ ProxyAnnounce(x)
  \/ \E kind \in Kinds : ProxyFrame(x, kind)
  \/ ProxySilence(x) \/ ProxyUnregister(x) \/ ProxyRemove(x) \/ ProxyReport(x)

\* What a watch task does once it was asked for a stream that exists.
WatchTask(w) ==
  \/ WatchSubscribe(w) \/ WatchReplay(w) \/ WatchReplayFails(w)
  \/ WatchLag(w) \/ WatchSkip(w) \/ WatchDeliver(w) \/ WatchDeliverFails(w)
  \/ WatchClosed(w) \/ WatchDrop(w) \/ WatchCount(w) \/ WatchReport(w)

KernelStep(id) ==
  \/ Authorize(id) \/ IssueToken(id) \/ TeardownSession(id)
  \/ RevokeAuthorization(id) \/ RevokeStream(id) \/ RevokeReport(id)

Next ==
  \/ \E p \in Pushers : PushStep(p)
  \/ \E x \in Proxiers : ProxyStep(x)
  \/ \E w \in Watchers : WatchTask(w) \/ \E id \in StreamIds : WatchLookup(w, id)
  \/ \E id \in StreamIds : KernelStep(id)

\* A watch task that can run does run: the runtime schedules it, and a send
\* on its session completes or fails.  The timer of a silent session fires.
\* An event is emitted right after the lock is released, without an await.
\* Nothing makes a peer send, close or die.
Fairness ==
  /\ \A w \in Watchers : WF_vars(WatchTask(w))
  /\ \A p \in Pushers : /\ WF_vars(PushAnnounce(p))
                        /\ WF_vars(PushTimeout(p))
                        /\ WF_vars(PushReport(p))
  /\ \A id \in StreamIds : WF_vars(RevokeReport(id))
  /\ \A x \in Proxiers : /\ WF_vars(ProxyInsert(x))
                         /\ WF_vars(ProxyAnnounce(x))
                         /\ WF_vars(ProxyRemove(x))
                         /\ WF_vars(ProxyReport(x))
                         /\ WF_vars(proxier[x].silent /\ ProxyUnregister(x))

Spec == Init /\ [][Next]_vars /\ Fairness

-----------------------------------------------------------------------------
(* Properties.                                                             *)

\* In this step the live watcher w is sent a frame of this kind.
Sends(w, kind) ==
  /\ watcher[w].pc = "live"
  /\ watcher'[w].pc = "live"
  /\ watcher'[w].sent # watcher[w].sent
  /\ log[watcher[w].ch][watcher'[w].sent] = kind

\* A watcher never receives a frame older than, or the same as, one it was
\* already sent: the keyframe replayed on joining comes before everything the
\* subscription yields, although lookup and subscription are separate steps.
\* Whatever a live watcher takes from the channel, to send it or pass it over,
\* is newer than all it was sent.
SentInOrder ==
  [][\A w \in Watchers :
       LET old == watcher[w]  new == watcher'[w] IN
       new.pc = "live" =>
         \/ new.sent > old.sent
         \/ new.sent = old.sent /\ (new.pos = old.pos \/ new.pos > old.sent)]_vars

\* A delta frame is sent only next to the frame before it, the one exception
\* being the first frames after the replayed keyframe: a watcher that lagged
\* is never resumed in the middle of a group of pictures.
NoSilentGap ==
  [][\A w \in Watchers :
       LET n == watcher'[w].sent IN
       Sends(w, "delta") => \/ watcher[w].sent = n - 1
                            \/ watcher[w].kf # 0 /\ watcher[w].sent = watcher[w].kf]_vars

\* The task is running for this id, and removes the id from the table when it
\* ends.
RunsFor(task, id) ==
  \/ task \in Pushers /\ pusher[task].pc \in {"starting", "streaming"}
                       /\ pusher[task].id = id
  \/ task \in Proxiers /\ proxier[task].pc \in {"starting", "running", "dropping"}
                       /\ proxier[task].id = id

\* Every entry of the table belongs to the task that inserted it, which is
\* still running for this id: no stream outlives its source.  (For push
\* sessions that send one Hello; a second one makes handle_push_loop forget
\* the first stream.)
EveryStreamOwned ==
  \A id \in StreamIds : Exists(id) => RunsFor(maker[streams[id]], id)

\* The task has inserted channel c and not emitted its StreamStarted yet.
Starting(task, c) ==
  \/ task \in Pushers /\ pusher[task].pc = "starting" /\ pusher[task].ch = c
  \/ task \in Proxiers /\ proxier[task].pc = "starting" /\ proxier[task].ch = c

\* However revoke_stream, the end of a push and the end of a proxy race to
\* remove a stream, each StreamEnded is about a stream that one of them has
\* taken out of the table, no two about the same one, and none about a stream
\* that is still there.  Its StreamStarted was emitted once before, unless the
\* task that inserted it has been overtaken on the way from the table to the
\* event: in the code the end of a stream can be announced before its start.
EndedAtMostOnce ==
  /\ ended[0] = 0
  /\ \A c \in Channels :
       ended[c] # 0 => /\ ended[c] = 1
                       /\ \A id \in StreamIds : streams[id] # c
                       /\ begun[c] = 1 \/ Starting(maker[c], c)

\* A StreamEnded comes after the StreamStarted of its stream.  (No run checks
\* this: insert and emit are two steps, and a teardown comes in between.)
EndFollowsStart == \A c \in Channels : ended[c] # 0 => begun[c] # 0

\* When the last watcher of a stream has gone, a WatchersChanged(0) has been
\* emitted since or some watch task is about to emit it: the kernel's reaping
\* of unwatched shares starts from that event.
LastLeaveReported ==
  \A id \in StreamIds :
    owed[id] /\ Receivers(streams[id]) = {} =>
      \E w \in Watchers :
        /\ watcher[w].id = id
        /\ \/ watcher[w].pc = "counting"
           \/ watcher[w].pc = "reporting" /\ watcher[w].none

\* A watcher whose stream has been removed or replaced leaves its loop: it
\* does not hang on a channel nobody will send on.
WatcherReleased ==
  \A w \in Watchers :
    watcher[w].pc = "live" /\ ~(\E id \in StreamIds : streams[id] = watcher[w].ch)
      ~> watcher[w].pc # "live"

Dead(task) == \/ task \in Pushers /\ pusher[task].silent
              \/ task \in Proxiers /\ proxier[task].silent

\* When the source of a stream dies without closing its connection, the
\* silence timeout takes the stream down and its watchers are let go.
DeadSourceReleasesWatchers ==
  \A w \in Watchers :
    watcher[w].pc = "live" /\ Dead(maker[watcher[w].ch]) ~> watcher[w].pc # "live"

\* A session teardown leaves no stream of that id behind: without an
\* authorisation or a token only a proxy can be in the table.
RevokedStreamGone ==
  \A id \in StreamIds :
    Controlled /\ Exists(id) /\ id \notin allowed /\ teardown[id] = "none"
      => maker[streams[id]] \in Proxiers

=============================================================================
