# Formal models of stross

stross shares the media, files and text of devices on a local network. A node
runs a *kernel* (sessions, endpoints, shares), a *relay* (a table of live
streams that some tasks push into and others watch), a *negotiator* (HTTP
endpoint that grants subscriptions) and *channels* (full duplex connections for
text and files); devices find each other over multicast DNS. This directory holds TLA+ models of the parts whose
correctness depends on the order in which concurrent tasks run, the TLC runs
that check them, and TLAPS proofs. `PROJECT.json` maps every definition to the
lines it models; paths below are relative to `src/crates/stross-kernel/src/`
unless they start with `src/`.

## 1. Inventory

| Component | State | Operations | What is hard | What makes it correct |
|---|---|---|---|---|
| Relay data plane (`relay/state.rs`, `relay/data_plane.rs`) | stream table in 16 mutex shards, broadcast channel and cached keyframe of each stream, proxies table, allowed ids, token validator | `handle_push_loop`, `handle_watch`, `start_proxy`, `proxy_uplink`, `remove_proxy`, `authorize_stream`, `revoke_stream` | every push, watch and proxy is a task of its own; lookups, insertions and removals lock separately; peers die without closing | it implements the directory its users rely on; no stream outlives its source; ends reported once; watchers never resume inside a group of pictures, are released and their departure is reported |
| Share lifecycle (`kernel/endpoint_api.rs`, `share_service.rs`, `session_api.rs`, `streams.rs`, `kernel/mod.rs`, `engine.rs`, `sender.rs`) | active shares, sessions, engines, endpoint state and subscribers | grant, `on_subscribed`, `start_stream`, `reap_stream`, `reap_if_unwatched`, unsubscribe, publish, unpublish | one id is torn down and built again by handlers, timers and the event task at once | authorisation and session agree; every capture can be stopped; ended and unwatched shares are cleaned up |
| Node channel (`channel/session.rs`, over `src/crates/stross-transport/src/ws.rs`) | inbound and outbound transfers, temporary files, closed flag | `send_file`, `cancel_transfer`, `close`, receive loop | two sessions, each with a receive loop, upload tasks and callers; loss, cancel and close at any moment | complete means saved, and whole; one outcome; no temporary file is lost track of; closing settles |
| Channel manager (`channel/manager.rs`) | sessions by peer, under one async lock | `register_session`, `close_session`, `get_session` | both ends dial; the lock is held across an awaited close | an open session is in its table; lookups are answered |
| Negotiator (`negotiator/mod.rs`) | pending requests, trust list (also on disk) | `handle_request`, `respond`, timeout, `remember`, `load` | a user's answer races the timeout and the client's departure; two answers write the trust list at once | nobody is granted what neither the policy nor the user allowed; every waiting client is answered; the file follows the list |
| QUIC link (`src/crates/stross-transport/src/quic.rs`, `quic_peer_loop` and its tasks) | sessions by id, announced opens, accepted streams, relay tasks | register, open, route answers, pair, refuse, close | announcements and streams arrive separately; one control stream for all sessions; the link breaks | streams are paired with their announcements; what a session published goes with it; sessions are answered |
| Jitter buffer (`src/crates/stross-pick`) | slots, cursor, newest number, waiting for a keyframe | `push`, `poll` | sequence wrap-around, late and repeated frames, holes | output in order, groups whole, nothing newer passed over, no standstill |
| File stream (`file_xfer.rs`, `sender.rs`) | file read and sent, queue, temporary file | `push_file`, `client_loop`, `receive_file_session` | late and slow watchers, files that change while read, stop overtaking the queue | what is reported as received is the file; a receiver in time is served |
| Playback (`src/crates/stross-endpoint/src/playback`) | queue, decoder process, stamps, scheduler | `push`, writer, reader, pacer, `stop` | four threads and a process that may die; full queues everywhere | stamps belong to the decoder at work; delay is bounded; stopping ends everything |
| mDNS (`src/crates/mdns`, a fork kept here) and scan (`src/crates/stross-discovery`) | registered services, probes, cache with lifetimes, listeners | announce, goodbye, answer, browse, refresh, evict, probe, tie, conflict | lost, late and reordered packets, records that expire one by one, names contested in mid-probe | what a listener knows is in the cache; ghosts go; names are unique and were asked for |
| Receive links and resident relay, registry, peers, control plane, GUI, CLI, codecs, capture | see `PROJECT.json` | | | |

How they interact: a subscriber's HTTP request goes to the negotiator, which
calls the kernel (`compose_grant`, `notify_subscribed`); the kernel authorises
the id in the relay, registers the share and lets the endpoint spawn a push;
the push connects to the relay as any client would, over WebSocket or a shared
QUIC link; the subscriber watches the stream and gives its frames to a jitter
buffer and a playback session, or writes them to a file; the relay reports
`StreamStarted`, `StreamEnded` and `WatchersChanged` over a broadcast channel to
the kernel's event task, which ends shares again.

## 2. Modules

| Module | Models | Grain of a step |
|---|---|---|
| `StreamDirectory` | abstract: what a relay promises its users | one promise kept |
| `Relay` | stream table, push, proxy and watch tasks, authorisation | up to the release of one lock, or to the next await |
| `RelayDirectory` | the refinement mapping from `Relay` to `StreamDirectory` | |
| `MCRelay` | symmetry sets for TLC | |
| `RelayProofs` | types, three invariants and two action properties of `Relay`, and that it implements `StreamDirectory` | |
| `ShareLifecycle` | the kernel's handling of one endpoint's share | as `Relay` |
| `ShareProofs` | type correctness and two safety properties of it | |
| `Channel` | both sessions of a channel with the connection between them | up to an await, or the release of a lock that another task needs |
| `ChannelProofs` | types and the four safety invariants of it | |
| `ChannelManager` | the tables of two nodes, their links and sessions | as above |
| `Negotiator` | requests, the pending table, the user's answers, the trust list and its file | as above; writing the file is two steps |
| `KernelProofs` | types and safety invariants of `Negotiator` and `ChannelManager` | |
| `QuicLink`, `MCQuic` | one QUIC connection with its sessions and the relay's tasks; its instance | one message, one lock, one task step |
| `QuicProofs` | types and the pairing of `QuicLink` | |
| `JitterBuffer` | the reordering buffer of one track and its driver | one packet with the poll after it |
| `FileTransfer` | pump, push client, relay and receivers of a file stream | one frame |
| `FileTransferProofs` | types and the two safety invariants of `FileTransfer` | |
| `Playback` | the video track of a playback session | one frame, one flag, one wait |
| `ReceivingProofs` | types, invariants and one action property of `JitterBuffer`, types and the invariant of `Playback` | |
| `MdnsBrowser` | a registering device and a browsing daemon | one packet, one command, one second |
| `MdnsProbing`, `MCMdns` | nodes that claim the same names; their order and what they want | one packet, a quarter of a second |
| `MdnsProofs` | types, an invariant and an action property of `MdnsBrowser`, types and an action property of `MdnsProbing` | |

### Relay

A stream entry is its broadcast channel, numbered by insertion, so that an id
that is removed and inserted again is a new incarnation. `log` is everything
broadcast on a channel, and a watcher's `pos` its place in it; being more than
`Capacity` behind is `RecvError::Lagged`. `Insert`, `Remove` and `Forward` are
the operations under a shard's mutex and steps by themselves. The event follows
in another step of the same task, when the lock is released (`PushAnnounce`,
`PushReport`, `ProxyAnnounce`, `ProxyReport`, `RevokeReport`); in between the task
holds the channel the event is about (`ch`, `cut`), and everybody else may act.
The callers of `remove` are `PushExit`, `ProxyRemove` and `RevokeStream`; for a
stream pushed over QUIC also `quic_peer_loop` and `quic_push_stream`
(`data_plane.rs:241`, 397), which do as `PushExit` and `PushReport` do and are in
`QuicLink`, without the events. The gate, the lookup and the insertion of a
push (`PushGate`, `PushLookup`, `PushInsert`) are separate steps as in
`handle_push_loop`; `start_proxy` holds the proxies lock from its check until it
has emitted (`ProxyCheck` to `ProxyAnnounce`), while the uplink it spawned already
forwards. `handle_watch` is the sequence `WatchLookup`,
`WatchSubscribe`, `WatchReplay` (or `WatchReplayFails`), then the loop, then
`WatchDrop`, `WatchCount`, `WatchReport`. `maker`, `sent` and `owed` are history
variables. A peer that dies without a close is `PushSilence` or `ProxySilence`,
and only the 10 s timeout ends its stream.

### ShareLifecycle

The stream id of an endpoint is derived from it, so all shares of an endpoint
meet in the same table entries; the module follows one id. Each subscribing
device is the thread of its own HTTP handler; the relay's event task, the owner
and up to `TimerThreads` delayed reaps are further threads, and `pc` says where
each one is. Pushes are numbered by the request that caused them. The relay is
abstracted to the push whose stream it has, who watches, and the queue of its
events. `reap_stream` is eight steps, one per table it locks. `acts` counts what
comes from outside, requests, stops by the owner and steps that fail, and bounds it.

### Channel

The two ends run the same code. Each has a receive loop (`loop`), an upload task
per file (`upload`), callers of `cancel_transfer` (`user`) and `close`
(`closer`). `queue[s]` is what is on its way to `s`. The WebSocket is modelled
as far as the sessions can tell: a write waits while the buffers towards the
other end are full (`Room`), close needs the lock that the receive loop holds
while it waits (`CloseStream`), a lost connection delivers an end of stream to
both, a vanished device nothing to anybody. A chunk is one unit of data or none:
an empty file is one empty chunk, and a file that has shrunk since its size was
announced ends in one. `altered` remembers the files that were not as long as
announced, `spoiled` the downloads of which something is not on the disk, whether
the write failed and was noticed (and the chunk skipped) or only the flush did,
whose error is dropped. Neither end compares what arrived with the size announced;
`SavedIsWhole` says what a file in place holds all the same, with these two as its
exceptions. The bytes are counted, not compared.

### Negotiator

`handler[r]` is where `handle_request` is for request r, `user[u]` where a call
of `respond` is; they meet in the pending table, which gives an entry to whoever
takes it out first, and in the oneshot channel (`answer`). The timer and the
removal of the entry are two steps (`TimerFires`, `GiveUp`), so that an answer
may be taken up just after the time has run out: the grant is then made, and the
device has been told of a timeout. `HangUp` drops the handler where it awaits and
leaves its entry behind, as the code does. `remember` holds the lock of the trust
list from `Remember` to `WriteTrust` (`TrustLocked`), and opening the file
empties it (`OpenTrust`): after a stop in between, `Restart` loads an empty list.
`target` is the visibility of the endpoint asked for when the handler read it.
`allowed`, `denied`, `remembered` and `stale` are history variables.

### StreamDirectory and RelayDirectory

`StreamDirectory` says what users of a relay rely on, without tasks, locks,
channels or caches: an id has at most one current stream, a reader is attached to
one incarnation and gets a growing selection of its frames, a start and an end
are announced once each, some time after they happened and in either order, and a
reader of a stream that is gone is let go. `RelayDirectory` maps `Relay` to it:
incarnations are broadcast channels, a watch session holds its seat from the
lookup that clones the entry until its departure is reported, and what is still to
be announced is what the tasks between their step on the table and their event
carry (`Fresh`, `Gone`). `KeepsDirectory` is the whole abstract
specification, with its fairness, as a property of `Relay`; it is violated, for
example, if the entry that a watch cloned kept a sender alive (`OpenWhileWatched`).

### ChannelManager

Two nodes, so a table is one entry. Each link has an end (`<<link, node>>`) with
a session on either side; `close[e]` holds the two possible callers of close,
the table's owner and the receive loop. Whoever closes first waits until it can tell
the peer (`"send"`, `CloseTells`), which it cannot while the connection is `Jam`med
(both receive loops wait to write, `Locked` in `Channel`), and
then for the reading half (`"stream"`), which the receive loop holds until
it has read the end of the connection. `lock[n]` is the mutex of the table, held
by `register_session` and `close_session` across both waits. So a connection that is
jammed, or whose peer is gone without a word, keeps the table locked (`HeldUp`) if it
is closed before it breaks: `LookupAnswered` says that nothing else does, and section
6 lists the lookups that are never answered. Which one of two
simultaneous connections survives is not defined by the code: both may replace
each other (see section 6).

### QuicLink

A session opens a stream and announces it under the link's `open` mutex
(`RegisterLocked`, `Register`); both travel separately, and the relay's peer loop
pairs them in order of arrival (`Pair`). Answers return on the control stream and
are routed by stream id (`Route`), an error to every session, as in the code.
`task[s]` is what the relay runs for a session: a push is admitted or refused, a
watch serves. A session ends by `Stop`, by the loss of the link, or because its
media stream ended. The insertion of a push is one step here; `Relay` takes it
apart.

### JitterBuffer

`out` is what the player was given, `slots` the buffer, `next` the cursor. A
source of `MaxFrames` frames numbered from `First` (just below the wrap-around)
sends key and delta frames; the network may lose, repeat and delay within
`Window`. `Arrive` is `push` followed by the `poll` loop of the driver;
`Skip` is the branch that gives a hole up, with its two forms for video and
audio. The wait before that is any length between the bounds of the adaptive
window, so the estimate that chooses it is not modelled. The buffer is written for
the numbers of the source; `StreamChannel`, its only driver, numbers every packet
anew as it arrives. `renumbered`, chosen at the start, says which: the buffer knows a
packet by its place, in the source or among the arrivals, and `InOrder`,
`GroupsWhole` and `NewestKept` are about places, so that they say what the buffer
makes of the numbers it is given. What that is worth in the order of the source is
another matter once they are those of the arrivals (see section 6).

### FileTransfer

`push_file` reads what is there (`real`) of what it announced (`size`); the client
sends what is queued before its `Bye`; a read returns up to `Chunk` units, so that
in a file that grew a chunk may pass the announced length; the relay broadcasts to
those who joined and lets slow watchers lose frames; a receiver writes into a temporary
file named after the second it started in. Its disk may fail where it makes, writes,
flushes or renames the file (`DiskFails`); `missed` marks it. `content` records which unit of which file is at
which place on disk, so that "whole" compares the file, not its length.

### Playback

`session` is the user, who pushes frames, stops or drops the session. The writer
takes a frame, restarts the decoder at a keyframe if there is none or `resync` is
set (`WriterTakes`, `WriterRestarts`), writes it (`WriterFeeds`) and only then
queues its stamp (`WriterStamps`); the reader gives each picture the oldest stamp.
The pacer is `PacerEmits`, `PacerWaits`, `PacerReceives`; the scheduler's `push`
with its anchor is in the last, `Watermarked` is `drop_over_watermark`. The
decoder is external: a pipe in and out, and it may die. A stamp is the number of
the frame it was made for. Left out: `MAX_QUEUE_LEN` (120 pictures are never
held within the delay), frame sizes, statistics, the path without pacing.

### MdnsBrowser and MdnsProbing

`MdnsBrowser` follows one instance between a device that registers it without
probing, as Stross does, and a daemon that browses: PTR, SRV and address record
with a lifetime each, the versions of the SRV record standing for its port. Ticks
are seconds; a packet in `net` may be lost or arrive late, and out of order if
`MaxNet` lets several be under way. `Evict`
is the whole eviction pass with the events it sends, `Refresh` the whole refresh
pass, `Deliver` the handling of a response. `MdnsProbing` has the nodes themselves
compete: three probes a quarter of a second apart, ties by the order of the
records, defence of an announced name, and renaming of the service and of the
host. Which names a node wants is a constant (`Wanted`), so that two nodes may meet on
the name of a service, of a host, or of both. `asks` counts the probes sent for the
present name. A probe has two clocks, as in the code: when it ends (`left`) and when it
asks next (`next`); a lost tie sets both, `update_hostname` only the first (`Restarted`).

## 3. Runs

| Run | Question | Instance | States |
|---|---|---|---|
| `relay` | does the relay implement its directory, with every entry owned and dead sources noticed? | 1 local pusher, 1 proxy, 1 watcher, 2 incarnations, gated | 368,416 |
| `relay_watch` | what do watchers get, and is their departure reported? | 2 watchers, 2 incarnations, 3 frames over a buffer of 1 | 8.23 M |
| `share` | authorisations, sessions, engines, and cleaning up, under overlapping shares | 1 device, 1 timer thread, 1 watch, 1 unsubscription; 2 requests, or 1 and a stop by the owner or a failure | 1.19 M |
| `channel` | a transfer under cancel, close, loss and a vanished device | 1 file of 0 to 2 chunks from one end, 1 cancellation by either, the file may change its length | 846,861 |
| `negotiator` | are answers, timeouts, restarts and the trust file consistent? | 2 devices, 2 requests, 2 answering calls, 1 restart | 204,439 |
| `manager` | do tables and sessions agree when both ends dial? | 2 links, one fragile, either may jam, 1 mortal device, 1 close, 1 lookup | 236,990 |
| `quic` | pairing, removal and answers on one link | 2 pushes, one refusable, 1 watch, the link may break | 281,256 |
| `jitter` | order, groups, progress over a lossy network | numbers mod 12, either of the source from 10 or of the arrivals from 0, 2 slots, 4 frames, 1 repetition, window 3 | 90,804 |
| `file` | is a received file the file? | 1 file of 0 to 2 units read 2 at a time, 2 receivers, backlog 1, queue 2, connections may break and disks fail | 246,977 |
| `playback` | stamps, delay and stopping | 3 frames of any kind, all queues of 1, 1 fault, 1 tick | 510,139 |
| `browser` | what a listener knows while records expire, with packets lost and late | lifetimes 5 and 3, 2 versions, 1 packet under way | 832,174 |
| `probing` | two nodes claim the same two names | 2 nodes, 1 lost packet, 1 withdrawal | 184,264 |

*Why the bounds suffice.* The races are between two tasks on one id, or one
task and the successor of another, so two tasks of a kind and two incarnations
show them; a buffer of one frame with three frames makes lag, skipping and
replay all happen, before and after a keyframe; one file of two chunks has a
first, a last and an only chunk. In `jitter` four frames from 9 modulo 12 cross
the wrap-around, and with two slots a frame can be overwritten. In `playback`,
queues of one are full at once, the third frame is beyond the delay of one tick
and its distance from an unstamped picture beyond the jump. In `browser` the SRV
record expires before the PTR record and after it, with and without a refresh in
between, and both versions can be cached together; with one packet under way none
overtakes another. (With `MaxNet = 2`, where they do, the three properties hold as
well, in 2,856,154 states; that takes more than the five minutes kept for a run.) `probing` loses one packet;
with two lost, uniqueness fails, as the protocol allows. `share` has one device that
may ask twice: a teardown meets the session of the second request between
`authorize` and `insert`, and two pushes of the id connect and enrol at once;
that authorisations and engines keep for any number of devices, requests and threads
is proved. Symmetry is used for interchangeable watchers, in runs without liveness
only. `CHECK_DEADLOCK FALSE` is set where all bounded inputs may be used up
(frames, incarnations, requests, files), which is a legitimate end; `browser`
never ends and is checked for deadlock.

*Fairness.* Tasks that can run do run, since the tokio runtime and the operating
system schedule every ready task and thread; an armed timer fires. No fairness is
assumed for anything a peer, a user or the network does: no device is obliged to
send, join, leave or answer, no frame or packet to arrive, no link to live. Two
assumptions are about others: a decoder that is alive goes on with its input
(`Playback`), and packets of another track keep coming (`JitterBuffer`: the buffer
has no timer of its own and is polled when packets arrive). Strong fairness is
used where a lock is handed out in order (`LookedUp` in `ChannelManager`) and for
the passes that the mDNS daemon's timer alternates with packets (`Refresh`, `Tick`
in `MdnsBrowser`). `ShareLifecycle` asks for less than the rest: some thread that can
run does (`GoesOn`), which is enough where every input is bounded.

*Type invariants.* Each module has one (`TypeOK`, `ManagerTypeOK`, `PlaybackTypeOK`,
`ProbingTypeOK`), it was checked by TLC while the module was written, and all are
proved. None is among the runs' properties.

*What each property catches* is stated above it in its module, and every property
of a run has a mutant in the same module, a plausible slip in the code (a forgotten
early return, a swapped order, a dropped cleanup) under which TLC finds it violated.

## 4. Proofs

The theorems hold for every value of the constants that the assumption of the
module admits (`ConstantsAssumption` or one named for the module): the types of the
constants, that a channel and a manager have two ends, that queues and buffers
have room for one element, and for the jitter buffer that the numbers are a
multiple of the slots and more than twice what can be under way. Two more
hypotheses are stated in the theorems that need them: `MaxHello <= 1` and `HalfTurn`.
Components that share a module of proofs are proved separately; no theorem is about two.

**Relay** (`RelayProofs`).

* `TypeCorrect`: the inductive invariant `TypeInv` adds to the types what keeps
  the indices in range: a running task has an id, and a watcher's position is
  within its channel's log. One lemma per kind of task (`PushType`, `ProxyType`,
  `WatchType`, `KernelType`), resting on one lemma per table operation.
* `EndedAtMostOnceHolds`: needs `News`. Between its step on the table and its
  event a task holds the channel the event is about, to start (`Starting`) or to
  end (`Ender`). `News` says that nobody else holds it to the same end, that it has
  not been announced, and that a channel somebody is about to declare ended is out
  of the table; and that every insertion was announced or is about to be.
  `NextIsNewsStep` sorts all steps by what they do to table, events and holders.
* `LastLeaveReportedHolds`: needs `Linked`, that a channel belongs to one id, in
  the table and in every watcher; without it a watcher of one id might be the
  last receiver of another.
* `SentInOrderHolds` (action property): needs `Ordered`, that the keyframe
  cloned with the entry is not beyond the point where the subscription starts.
  This is the reason why looking up first and subscribing later is safe.
* `NoSilentGapHolds` (action property): needs `NoGap`, that a watcher which has
  started was last sent the frame at its position or the cached keyframe. A
  watcher that lagged is not started any more, hence waits for a keyframe.
* `EveryStreamOwnedHolds`: under the assumption `MaxHello <= 1`, one Hello per
  push session, which is what `RelayClient` does. Needs `Owned`, that a session
  that has left the idle state has sent that Hello. For a second Hello the property
  is false.
* `RefinesDirectory`: the initial states and the steps of the refinement to
  `StreamDirectory`, through the mapping of `RelayDirectory`, from `TypeInv`,
  `Ordered` and `News`. One lemma per kind of step: inserting begins an incarnation,
  taking out ends it, each event announces one or the other, a frame sent to a
  watcher is a delivery, leaving is a release, everything else is a stutter. The
  liveness half of `KeepsDirectory`, that stranded readers are let go and events
  come, is TLC's.

**Share lifecycle** (`ShareProofs`). Types, `AuthorizationOwnedHolds` and
`RunningIsEnrolledHolds`. Both properties are inductive given the types. The
first holds because authorising and revoking frame the session's insertion and
removal in the same order, so that the thread that took the one step still stands
before the other; the second because an engine is entered and taken out under
one lock with the push it names.

**Negotiator** (`KernelProofs`). Types and the three safety invariants.
`GrantedIsAllowedHolds` needs `AllowedInv`: trust list, file and what is about to
be written hold only remembered devices, and a request on its way to a grant is
permitted already. `PendingIsAwaitedHolds` needs `AwaitedInv`: an entry that
somebody has taken, or a request with an answer, never comes back to the table,
so a handler may return without clearing it. `DiskFollowsHolds` needs `DiskInv`,
the exclusion of two writers.

**Channel** (`ChannelProofs`), for any number of files, chunks and cancellations
by either end. All four properties concern the same transfer seen from four
places, and one count ties them together: the *token* of a transfer, the right to
become a file of the receiver. It is with the upload that has not sent its offer,
in the offer under way, with the receive loop that took it, in the table of
downloads or in the file in place, and `OneToken` says that there is at most one.
It keeps an id from being offered, decided or saved twice.

* `SavedIsWholeHolds`: `TransferInv` follows a transfer from the offer to the file:
  ids not yet given out are fresh (`Fresh`), an answer under way means that the
  offer is not (`AnsweredOnce`), chunks are sent only after an answer
  (`StartedDecided`), and chunks written, chunks under way and chunks read add up
  to the offset of the upload, the last one behind all others, at the announced
  size unless the file changed its length (`Flows`). The count matters where a
  write fails: the rest of the chunks arrives all the same.
* `TempOwnedHolds`: `Owners`, an unclosed session's temporary file is in the table
  or in the hands of the receive loop between two locks.
* `CompletedIsSavedHolds`: `AckInv` adds that an acknowledgement, under way or
  received, exists only after the rename (`ConfirmedSaved`) and that an upload that
  is reported complete has had it (`CompletedDone`).
* `OneOutcomeHolds`: `OutcomeInv` adds what a cancellation has taken away. Whoever
  cancels has removed the entry (`Calls`), a cancellation under way towards a
  receiver finds the token gone (`RecalledLost`), and a failed upload has left the
  table for good (`FailedEnded`). Like the property, the last two are about
  transfers in one direction.

**Channel manager** (`KernelProofs`). Types (`ManagerTypeCorrect`) and `OpenIsListedHolds`, for any
number of connections, failures and calls. The property is inductive given the
types, because an entry changes only in the step that marks the session it named
as closed (`Handed`): the close itself is awaited, but by then nobody may take the
old session for an open one.

**QUIC link** (`QuicProofs`). Types and `PairedHolds`, for any number of sessions
and ids. Needs `Matched`: as long as the connection is up, the announcements that
are not paired, those read and those on the control stream in between other
messages, are one by one those of the streams that are not paired, in the same
order, with at most one stream over, of the session that has opened and not
announced yet. That session holds the `open` mutex; without it two announcements
could change places against their streams.

**File stream** (`FileTransferProofs`), for any files, receivers, chunk, queue and
backlog sizes. `FileInv` has two halves. For the sender: what the receivers of a
file were and will be sent is one chain, the description, chunks that follow each
other, and Bye (`Chained`), as long as what the pump has counted (`Counted`), and
complete if nothing failed (`Pumped`). For each receiver: it has counted no more
than the chain says, and just as much if it missed nothing (`Placed`); if it
counted right, every unit is at its place (`Written`); and it gives up only for one
of the listed reasons (`Served`). `Named` keeps the files of two receivers apart
unless they started in the same second. `OnTimeIsServedHolds` cost a correction: with
chunks of two units the property, as first stated, was false for a file that grows
while it is read (section 6), and the run now has such chunks.

**Jitter buffer** (`ReceivingProofs`), for every number of slots, frames, copies and
numbers, whether they are those of the source or of the arrivals. `InOrderHolds`,
`GroupsWholeHolds` and `NewestKeptHolds` assume `HalfTurn`: there are at most half as many
frames and arrivals as there are numbers.
Half a turn is as far as the proof reaches, 2^31 packets of the code's 32-bit numbers:
within half a turn wrapped comparison agrees with the order of the places. Beyond it
TLC finds `NewestKept` violated: a frame more than half a turn ahead of the cursor
is taken for one that was played. A stream that outlives half a turn without such
a gap is covered by no theorem. The inductive invariant `OrderInv` names the highest frame that came and
the place `c` of the cursor (`Cursor`), says that the slots hold frames up to the
highest under their own numbers, and that what was played ended before
`c` (`Delivered`); with the highest frame as a ghost, modular arithmetic is needed
only where a packet is compared with the cursor (`Mod...`, `Num...`, `Turn`). The loops
of `poll` and `Skip` choose the nearest frame; that a least one exists (`Least`) is
derived from the library's fact on minima under a well-founded relation, as its
induction theorems themselves are out of reach.

**Playback** (`ReceivingProofs`), for queues of any length, any delay and any
number of decoders. `PlaybackPaced` has two halves, and so has its invariant.
`FeedInv` is about the way of a frame into the decoder and back: frames are handled
in the order they were pushed (`FramesInOrder`), nothing that is still to be fed is
older than the frame the decoder began with (`Begins`), no stamp is older than that
frame or newer than one still to be fed (`StampsOld`), and the stamp at a place of
the list is of the frame at that place in the pipe or of an older one, where only
the frame fed last may be without (`PipeStamped`). The last is the heart: a stamp
is queued after its frame was written, so it may lag behind its picture but not
overtake it; and a restart empties the list, so none is left for the next decoder.
`ShowInv` says that pictures, once out of the reader, stay as they are, and that
whatever the pacer holds is due within the delay, although the anchor may be taken
anew at any of them.

**Browsing** (`MdnsProofs`), for every lifetime, number of versions and packets
under way. `ShownIsCachedHolds` and `RemovedIsGoneHolds` come from `BrowserInv`:
besides the types that the cache holds each version of the SRV record at most once
(`Cache`), and `Told`, that nothing is shown when nobody browses and that what is
shown as resolved has its PTR record and an SRV record. What a step tells the
listener is settled once for all callers (`ResolveIs`); then there is one lemma per
action. That a set of lifetimes or of versions has a least element (`LeastOf`) is
derived from the library's well-foundedness of finite subsets.

**Probing** (`MdnsProofs`), for any nodes, any names they want and any packets
lost. `NeverUnaskedHolds` is what survives of "asked for three times" when nodes
may share some names and not others: the host's name was asked for three times, the
service's own at least once. `Probes` says of each node that its record of a kind
is in the probe of its present name and in no other, that a record is active only
if its name was asked for, and that the probe with the record is on time
(`OnTime`): for a host, the queries sent and those that fit in between the next one
and the end are three at least; for a service, the probe does not end before it has
asked once. The `probing` run checks `ProbedThrice`, which is stronger, of the
nodes it holds for; `NeverUnasked` is its part that holds of all. More is not true
of a service: when `Wanted` was introduced TLC refuted `ProbedThrice`, and
`UniqueNames` with it, for nodes that share one name and not the other (section 6).
The attempt also changed the model: each answer of a response now draws its own
delay, as in the code.

*Model-checked only.*

* All liveness properties, and with them the fairness half of `KeepsDirectory`:
  leads-to under fairness needs `ENABLED`, which is beyond the prover.
* `StreamLeaves` and `Answered` of `QuicLink`, for the same reason.
* `UniqueNames` and `ProbedThrice` of `MdnsProbing`: they hold of nodes that want the
  same two names, with one packet lost, and TLC checks that for two nodes. For
  arbitrary names both are false (section 6), and uniqueness also with two lost packets.
* What a recursive definition computes for every input (induction over data). No
  module uses RECURSIVE operators, which the SMT backend cannot take.

## 5. Not modelled, and why

The map covers about 14% of the implementation's lines. The greater part of the
rest is not of the kind these models are good for: the GUI and CLI, the parsing
and formatting of packets (`dns_parser.rs`, `webrtc.rs`, `srt.rs`, the NAL
splitter), enumeration of network interfaces, capture devices and pixel
conversion, views, settings and start-up. The `not_modelled` and `partly` rows of
`PROJECT.json` give the reason for each component. Inside the modelled ones:

* Log and event texts, display counts, access codes, statistics, the numbering of
  text messages; a kernel event task that lags 64 events behind (it ends);
  shutdown.
* The relay's removal of a stream and its event are one step for
  `ShareLifecycle`, as is the insertion of a push for `QuicLink`; `Relay` has the
  finer grain.
* Receive links and the resident relay (`kernel/receive.rs`, `kernel/anchor.rs`,
  `receiver.rs`). Reading them showed: a receiver's stop flag is looked at between
  packets only, so without traffic it stays a watcher; of two overlapping starts
  of a link one receiver is left running and unlisted; `set_discoverable` reads the
  flag before it takes the anchor's lock, and `start_relay_fixed` tests, awaits and
  sets, so two relays may be started, or one advertised that was switched off.
* Cancellation of `recv_control` or `recv_media` in the middle of a QUIC frame
  (they run inside `select!`), and the link registry: `link_for` returns a link
  that is dead as long as some session still holds it.
* Hostname queries, subtypes, interfaces that come and go and the packet format of
  the mDNS library.
* The audio track of playback: the same writer and reader without stamps or pacing.

## 6. Where code and comments part

None of these is a run. Each is an operator of the named module that TLC refutes
when a configuration asks for it, or a remark from reading.

* `MdnsProbing.UniqueNames`, with three nodes, `Wanted <- MCCrossed`, `MaxName =
  3`, one registration each and nothing else (violated after 180,000 states): a
  conflict between two responders is said to be resolved
  (`src/crates/mdns/src/lib.rs:119`). A name is defended only for services that are
  announced (`service_daemon.rs:3515`, 3541, 3603), and a conflict is looked for
  only among the probes (3280). A node whose host name passed its probe while its
  service is not announced yet does not answer for the host name; another node
  takes it, and both are announced on it and stay so. No packet is lost, but there
  must be a third node, which holds the service back.
* `MdnsProbing.ProbedThrice`, with the same and `MaxLost = 1` (440,000 states): a
  probe is three queries, a quarter of a second apart (`service_info.rs:1042`).
  When the host is renamed, `update_hostname` restarts the probe of the service by
  setting `start_time` (1344) and not `next_send`; if the probe lost a tie within
  the last quarter of a second and waits for the rest of the second, its end comes
  before its next query, and the service is announced having asked once. With the
  winner's announcement lost, under the winner's name.
* `Relay.EndFollowsStart` (violated within 438 states): a teardown that comes
  between the insertion of a push and its event emits `StreamEnded` first; the
  kernel then sees the end of a stream it has not heard of, and after it the start
  of one that is gone (`relay/data_plane.rs:616`, 622; `relay/state.rs:237`).
* `Relay.RevokedStreamGone`: revoking a stream is said to tear down a push that is
  under way; a push between gate and insertion escapes (`relay/state.rs:233`,
  `relay/data_plane.rs:596`).
* `ShareLifecycle.SessionAuthorized`: "authorise first, then register the session"
  is meant to exclude a session that cannot push; a teardown of the previous
  session revokes the new one's authorisation (`kernel/session_api.rs:109`, 192).
* `ShareLifecycle.StoppedIsSilent`: stopping a share is said to stop its stream; a
  push not yet begun gets a session of its own and streams on
  (`kernel/endpoint_api.rs:252`, `kernel/streams.rs:104`).
* `ShareLifecycle.UnjoinedShareStops`: a share that nobody joins is said to stop; if
  its push failed, it does not (`kernel/endpoint_api.rs:207`,
  `kernel/share_service.rs:100`).
* `Channel.DuplexNeverLocks` (with `Senders = {a, b}`, `MaxFiles = 2`): the split
  locks are said to exclude that sending and receiving block each other; two receive
  loops that answer over full connections do (`src/crates/stross-transport/src/ws.rs:135`).
  Closing does not help, as `close` has to write first: two ends that are `Locked` stay
  so until the connection breaks. `ClosedSettles` names them as an exception, which the
  run, with one end sending, never uses.
* `Channel.CompletedIsWhole`: a file that shrinks after its size was announced ends with
  an empty last chunk, and a failure of the last flush is dropped; the receiver compares
  neither with the size, renames and acknowledges, and the sender reports a truncated
  file as complete (`channel/session.rs:246`, 608-640).
* `ChannelManager.LookupAlwaysAnswered`: `register_session` and `close_session` await
  `close` with the table locked (`channel/manager.rs:70`, 173). If the connection is
  jammed or its peer vanished without a word, `close` does not return until the
  connection breaks, and no session of the node can be looked up, registered or closed.
* `ChannelManager.DialConnects`: of two devices that dial each other at once, each
  may close the connection the other keeps, and none is left (`channel/manager.rs:51`).
* `JitterBuffer.SourceInOrder` and `SourceGroupsWhole` (with `renumbered`, as deployed):
  `StreamChannel` numbers frames as they arrive, so the buffer never sees a loss, a copy
  or a reordering, although "a hole means realign, against a garbled picture" is why it
  is there (`src/crates/stross-pick/src/registry.rs:61`, 83-94; `buffer.rs:276`). Late and
  repeated frames are played where they arrive, and a video group goes on over a loss.
* `FileTransfer.SavedIsOwn`: the temporary file is named after process and second;
  two receivers that start together mix their files (`file_xfer.rs:192`).
* `FileTransfer.OnTimeIsServed` excepts a file that grew after its length was
  announced: the chunk that passes the length is not marked as the last, and a
  receiver refuses a file longer than announced, although the pump sent no wrong
  byte (`file_xfer.rs`, `push_file` and `receive_file_session`).
* `Negotiator.Restart`: the trust file is emptied before it is written, so a stop in
  between loses every trusted device, and `load` takes the empty file for an empty list
  (`negotiator/mod.rs:133`). The devices are asked for again; nothing is granted by it.
* `Negotiator.PendingIsAwaited` excepts the entries of devices that hung up: the handler
  is dropped where it waits, and its entry stays in the pending table until a user
  answers it (`negotiator/mod.rs:548`).
* `MdnsBrowser.RemovedNotReturned`: the scan takes the first field of
  `ServiceRemoved` for the full name, but it is the service type, so a removed
  device is still returned (`src/crates/stross-discovery/src/mdns.rs`, `browse`).
* `MdnsBrowser.CachedIsShown`: a later scan is said to return cached devices at
  once; one that is in the cache but was reported to an earlier listener is not
  always reported again.
* `MdnsProbing`: the names a node holds as its own are not forgotten when the
  service is withdrawn, so the next registration is announced without a probe
  (seen with `MaxRegisters = 2`); Stross registers without probing anyway.
* mDNS on several interfaces: on a phone with many, the library probes a name for ever
  and never announces it, since a record built again does not match the active one's
  interface; `MdnsDiscovery` therefore turns probing off
  (`src/crates/stross-discovery/src/mdns.rs:114-121`). `Announced` is about one
  interface, where probing ends.
* `QuicLink`: an `Error` goes to every session of the link though the comment says
  that ready sessions ignore it: a refused push ends the others
  (`src/crates/stross-transport/src/quic.rs:252`, against lines 16-18).
* `QuicLink.Answered` excludes a watch whose link dies before the answer: the
  session itself keeps its event channel open and there is no timeout, so it waits
  for ever.
* `Playback.PacerLivesOn`: the pacer ends when its output is full, not only when it
  is closed, as its comment has it; the session then shows nothing more
  (`ffmpeg.rs:370`).
* `Playback.StampIsOwn`: a frame is written before its stamp is queued, so a picture
  may get stamp 0 and all later ones the stamp of the frame before; a configuration
  frame queues a stamp for which no picture comes (`ffmpeg.rs:258-263`).
* `Playback.HoleFree` (with `PipeCap = 2`): the flag set by a dropped frame is
  cleared by the restart at a keyframe queued before it, and the frames after the
  hole are decoded, which the comment in `push` says is avoided (`mod.rs:217`).

## 7. Plan

1. Proofs: `UniqueNames` of `MdnsProbing` under the hypotheses that the names wanted are
   the same and that one packet is lost; an order on the ties of both kinds is needed.
2. Receive links and the resident relay as a module of their own, over
   `StreamDirectory`.
3. `ShareLifecycle` over `StreamDirectory`, with a bounded event buffer.
