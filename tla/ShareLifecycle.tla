--------------------------- MODULE ShareLifecycle ---------------------------
(***************************************************************************)
(* The life of one endpoint's share inside the kernel (stross-kernel):     *)
(* devices subscribe and unsubscribe over HTTP (negotiator), the kernel    *)
(* builds a session, registers the share and spawns a push (on_subscribed, *)
(* start_stream), the relay's events and the delayed reaps end it again    *)
(* (attach_data_plane, reap_if_unwatched, reap_stream).                    *)
(*                                                                         *)
(* The stream id of an endpoint is derived from the endpoint, so every     *)
(* share of it uses the same id, called the id below; each of the kernel's *)
(* tables is reduced to its entry for the id.  Nothing relates the entries *)
(* of two ids.  Handlers, timers and the event task run in parallel; a     *)
(* step ends where a lock is released, and includes what the thread does   *)
(* before it on its own.  The number of subscribers shown is left out.     *)
(* It begins with the endpoint published and nothing shared.               *)
(*                                                                         *)
(* The relay is reduced to what the kernel sees of it (Relay models the    *)
(* inside): accepting a push is one step, and a push that ends removes the *)
(* stream of its id, whoever inserted it.                                  *)
(***************************************************************************)
EXTENDS Integers, Sequences, FiniteSets

CONSTANTS
  Nodes,         \* devices that subscribe
  TimerThreads,  \* bound: delayed reaps that run at the same time
  Loop,          \* the task that forwards the relay's events
  Owner,         \* the user who publishes and unpublishes the endpoint
  MaxActs,       \* bound: subscription requests, stops by the owner and failures, in all
  MaxJoins,      \* bound: watch connections ever made
  MaxLeaves      \* bound: times a device unsubscribes

ASSUME ConstantsAssumption ==
  /\ Nodes \cap TimerThreads = {}
  /\ Loop # Owner
  /\ {Loop, Owner} \cap (Nodes \cup TimerThreads) = {}
  /\ IsFiniteSet(Nodes)
  /\ MaxActs \in Nat
  /\ MaxJoins \in Nat
  /\ MaxLeaves \in Nat

VARIABLES
  pc,          \* thread -> the step it takes next
  acts,        \* number of requests, stops and failures so far
  joins,       \* number of watch connections so far
  leaves,      \* number of times a device has unsubscribed
  published,   \* the endpoint is published
  state,       \* EndpointState in the registry
  subscribers, \* subscriber_nodes in the registry
  share,       \* active_shares has an entry for the id
  session,     \* the session table has one
  allowed,     \* the relay accepts a push of the id
  engine,      \* the push registered in engines, 0 when none
  push,        \* the pushes, by the number of the request they serve
  stream,      \* the push whose stream the relay has, 0 when none
  granted,     \* the devices that hold a grant
  watching,    \* the devices that receive the stream
  leaving,     \* those whose watch has ended but is not reported yet
  events,      \* relay events on their way to the event task
  armed        \* delayed reaps still sleeping

counts == <<acts, joins, leaves>>
tables == <<share, session, allowed, engine>>
registry == <<published, state, subscribers>>
relay == <<stream, watching, leaving, events>>
vars == <<pc, counts, registry, tables, push, relay, granted, armed>>

Threads == Nodes \cup TimerThreads \cup {Loop, Owner}
Pushes  == 1 .. MaxActs

RequestSteps == {"ensure", "authorize", "insert", "note", "converge", "register",
                 "activate"}
ReapSteps    == {"find", "claim", "reset", "engine", "lookup", "session", "revoke", "cut"}
LoopSteps    == {"share", "sync"}

\* cut off: the relay refused the push, or its connection is gone.
PushState == [pc: {"none", "start", "connect", "capture", "running", "stopping",
                   "done"},
              own: BOOLEAN,     \* under the endpoint's id, not a fallback one
              live: BOOLEAN]    \* the relay accepted it and still reads from it

Event == {"ended", "watched", "unwatched"}

\* WatchersChanged with the number of devices in w.
WatchersChanged(w) == IF w = {} THEN "unwatched" ELSE "watched"

TypeOK ==
  /\ pc \in [Threads -> {"idle", "unpublish"}
                          \cup RequestSteps \cup ReapSteps \cup LoopSteps]
  /\ acts \in 0 .. MaxActs /\ joins \in 0 .. MaxJoins /\ leaves \in 0 .. MaxLeaves
  /\ published \in BOOLEAN /\ state \in {"idle", "active"}
  /\ subscribers \subseteq Nodes
  /\ share \in BOOLEAN /\ session \in BOOLEAN /\ allowed \in BOOLEAN
  /\ engine \in 0 .. MaxActs
  /\ push \in [Pushes -> PushState]
  /\ stream \in 0 .. MaxActs
  /\ granted \subseteq Nodes /\ watching \subseteq Nodes /\ leaving \subseteq Nodes
  /\ events \in Seq(Event)
  /\ armed \in Nat

Init ==
  /\ pc = [x \in Threads |-> "idle"]
  /\ acts = 0 /\ joins = 0 /\ leaves = 0
  /\ published = TRUE /\ state = "idle" /\ subscribers = {}
  /\ share = FALSE /\ session = FALSE /\ allowed = FALSE
  /\ engine = 0
  /\ push = [p \in Pushes |-> [pc |-> "none", own |-> TRUE, live |-> FALSE]]
  /\ stream = 0
  /\ granted = {} /\ watching = {} /\ leaving = {}
  /\ events = <<>> /\ armed = 0

\* A request, a stop or a failure, within the bound.
Act == acts < MaxActs /\ acts' = acts + 1

\* Thread x moves from one step to the next.
Goto(x, from, to) == pc[x] = from /\ pc' = [pc EXCEPT ![x] = to]

-----------------------------------------------------------------------------
(* A subscription request that is granted (compose_grant, then             *)
(* notify_subscribed).  The endpoint's manifest is looked up whether it is *)
(* published or not.                                                       *)

\* An active share is reused; otherwise a session is ensured.
Request(n) ==
  /\ Act
  /\ Goto(n, "idle", IF share THEN "note" ELSE "ensure")
  /\ UNCHANGED <<joins, leaves, registry, tables, push, relay, granted, armed>>

Ensure(n) ==
  /\ Goto(n, "ensure", IF session THEN "note" ELSE "authorize")
  /\ UNCHANGED <<counts, registry, tables, push, relay, granted, armed>>

\* build_session: the data plane first, then the session table.
Authorize(n) ==
  /\ Goto(n, "authorize", "insert")
  /\ allowed' = TRUE
  /\ UNCHANGED <<counts, registry, share, session, engine, push, relay,
                 granted, armed>>

InsertSession(n) ==
  /\ Goto(n, "insert", "note")
  /\ session' = TRUE
  /\ UNCHANGED <<counts, registry, share, allowed, engine, push, relay,
                 granted, armed>>

\* note_subscriber.
Note(n) ==
  /\ Goto(n, "note", "converge")
  /\ subscribers' = subscribers \cup {n}
  /\ UNCHANGED <<counts, published, state, tables, push, relay, granted,
                 armed>>

\* checked_strategy: an unsupported rule refuses the request, after the session.
Refuse(n) ==
  /\ Act
  /\ Goto(n, "note", "idle")
  /\ UNCHANGED <<joins, leaves, registry, tables, push, relay, granted, armed>>

\* A share that is active by now is not started a second time.
Converge(n) ==
  /\ IF share THEN Goto(n, "converge", "idle") /\ granted' = granted \cup {n}
              ELSE Goto(n, "converge", "register") /\ granted' = granted
  /\ UNCHANGED <<counts, registry, tables, push, relay, armed>>

\* note_share_active: the entry, then the endpoint's state, then the timer of
\* the join window.
Register(n) ==
  /\ Goto(n, "register", "activate")
  /\ share' = TRUE
  /\ UNCHANGED <<counts, registry, session, allowed, engine, push, relay,
                 granted, armed>>

\* The endpoint's share spawns its push, and the grant is answered.
Activate(n) ==
  /\ Goto(n, "activate", "idle")
  /\ state' = "active"
  /\ armed' = armed + 1
  /\ \E p \in Pushes :
       /\ push[p].pc = "none"
       /\ \A q \in 1 .. p - 1 : push[q].pc # "none"
       /\ push' = [push EXCEPT ![p].pc = "start"]
  /\ granted' = granted \cup {n}
  /\ UNCHANGED <<counts, published, subscribers, tables, relay>>

\* handle_unsubscribe: the last subscriber to go stops the share.
Unsubscribe(n) ==
  /\ n \in granted
  /\ leaves < MaxLeaves
  /\ leaves' = leaves + 1
  /\ subscribers' = subscribers \ {n}
  /\ Goto(n, "idle", IF subscribers' = {} THEN "find" ELSE "idle")
  /\ granted' = granted \ {n}
  /\ UNCHANGED <<acts, joins, published, state, tables, push, relay, armed>>

-----------------------------------------------------------------------------
(* The push (start_stream, SenderEngine, RelayClient).                     *)

\* The relay's remove, and the StreamEnded it emits; watchers are let go.
CutStream ==
  IF stream # 0
  THEN /\ stream' = 0
       /\ watching' = {}
       /\ leaving' = leaving \cup watching
       /\ events' = Append(events, "ended")
  ELSE UNCHANGED relay

\* The connection of push p ends: the relay removes the stream of its id.
PushGone(p) ==
  IF push[p].live /\ push[p].own THEN CutStream ELSE UNCHANGED relay

\* ensure_session: an id that has no session (any more) is replaced by a new one.
PushStart(p) ==
  /\ push[p].pc = "start"
  /\ push' = [push EXCEPT ![p].pc = "connect", ![p].own = session]
  /\ UNCHANGED <<pc, counts, registry, tables, relay, granted, armed>>

\* RelayClient::connect: it returns as soon as the relay has answered, and a
\* refusal ends the connection but is not reported as an error.
PushConnect(p) ==
  LET accepted == push[p].own => allowed /\ stream = 0 IN
  /\ push[p].pc = "connect"
  /\ push' = [push EXCEPT ![p].pc = "capture", ![p].live = accepted]
  /\ stream' = IF accepted /\ push[p].own THEN p ELSE stream
  /\ UNCHANGED <<pc, counts, registry, tables, watching, leaving, events,
                 granted, armed>>

\* The relay cannot be reached.
PushConnectFails(p) ==
  /\ Act
  /\ push[p].pc = "connect"
  /\ push' = [push EXCEPT ![p].pc = "done"]
  /\ UNCHANGED <<pc, joins, leaves, registry, tables, relay, granted, armed>>

\* The capture does not start: the connection is given up.
PushCaptureFails(p) ==
  /\ Act
  /\ push[p].pc = "capture"
  /\ PushGone(p)
  /\ push' = [push EXCEPT ![p].pc = "done", ![p].live = FALSE]
  /\ UNCHANGED <<pc, joins, leaves, registry, tables, granted, armed>>

\* One engine per id: the second one is dropped, and its connection with it.
PushEnroll(p) ==
  /\ push[p].pc = "capture"
  /\ IF push[p].own /\ engine # 0
     THEN /\ PushGone(p)
          /\ push' = [push EXCEPT ![p].pc = "done", ![p].live = FALSE]
          /\ engine' = engine
     ELSE /\ push' = [push EXCEPT ![p].pc = "running"]
          /\ engine' = IF push[p].own THEN p ELSE engine
          /\ UNCHANGED relay
  /\ UNCHANGED <<pc, counts, registry, share, session, allowed, granted,
                 armed>>

\* The capture or the connection ends by itself.  The end of a fallback's
\* stream stops its engine; that of the id is an event like any other.
PushDies(p) ==
  /\ Act
  /\ push[p].pc = "running"
  /\ push[p].live
  /\ PushGone(p)
  /\ push' = [push EXCEPT ![p].live = FALSE,
                          ![p].pc = IF push[p].own THEN "running" ELSE "stopping"]
  /\ UNCHANGED <<pc, joins, leaves, registry, tables, granted, armed>>

\* SenderEngine::stop, in a task of its own.
PushStop(p) ==
  /\ push[p].pc = "stopping"
  /\ PushGone(p)
  /\ push' = [push EXCEPT ![p].pc = "done", ![p].live = FALSE]
  /\ UNCHANGED <<pc, counts, registry, tables, granted, armed>>

-----------------------------------------------------------------------------
(* Watching the stream.                                                    *)

Watch(n) ==
  /\ n \in granted
  /\ n \notin watching \cup leaving
  /\ stream # 0
  /\ joins < MaxJoins
  /\ joins' = joins + 1
  /\ watching' = watching \cup {n}
  /\ events' = Append(events, WatchersChanged(watching'))
  /\ UNCHANGED <<pc, acts, leaves, registry, tables, push, stream, leaving, granted,
                 armed>>

WatchEnds(n) ==
  /\ n \in watching
  /\ watching' = watching \ {n}
  /\ leaving' = leaving \cup {n}
  /\ UNCHANGED <<pc, counts, registry, tables, push, stream, events,
                 granted, armed>>

\* The first keyframe cannot be sent: a count of 0 is reported, whoever watches.
WatchReplayFails(n) ==
  /\ Act
  /\ n \in watching
  /\ watching' = watching \ {n}
  /\ events' = Append(events, "unwatched")
  /\ UNCHANGED <<pc, joins, leaves, registry, tables, push, stream, leaving,
                 granted, armed>>

\* The count is that of the stream the id has now.
WatchReported(n) ==
  /\ n \in leaving
  /\ leaving' = leaving \ {n}
  /\ events' = Append(events, WatchersChanged(watching))
  /\ UNCHANGED <<pc, counts, registry, tables, push, stream, watching,
                 granted, armed>>

-----------------------------------------------------------------------------
(* The event task (attach_data_plane).                                     *)

\* Mutant: the end of a stream is only passed on.
LoopEndedIgnored ==
  /\ events # <<>> /\ Head(events) = "ended"
  /\ pc[Loop] = "idle"
  /\ events' = Tail(events)
  /\ UNCHANGED <<pc, counts, registry, tables, push, stream, watching,
                 leaving, granted, armed>>

\* StreamEnded: reap_stream.
LoopEnded ==
  /\ events # <<>> /\ Head(events) = "ended"
  /\ Goto(Loop, "idle", "claim")
  /\ events' = Tail(events)
  /\ UNCHANGED <<counts, registry, tables, push, stream, watching, leaving,
                 granted, armed>>

\* Mutant: the reap is armed when somebody watches.
LoopWatchersSwapped ==
  /\ events # <<>> /\ Head(events) # "ended"
  /\ Goto(Loop, "idle", "share")
  /\ armed' = IF Head(events) = "watched" /\ share THEN armed + 1 ELSE armed
  /\ events' = Tail(events)
  /\ UNCHANGED <<counts, registry, tables, push, stream, watching, leaving,
                 granted>>

\* WatchersChanged: no watcher left and the share registered, so look again
\* after share_stop_delay.
LoopWatchers ==
  /\ events # <<>> /\ Head(events) # "ended"
  /\ Goto(Loop, "idle", "share")
  /\ armed' = IF Head(events) = "unwatched" /\ share THEN armed + 1 ELSE armed
  /\ events' = Tail(events)
  /\ UNCHANGED <<counts, registry, tables, push, stream, watching, leaving,
                 granted>>

\* The number of subscribers shown follows, and the endpoint's state with it.
LoopShare ==
  /\ Goto(Loop, "share", IF share THEN "sync" ELSE "idle")
  /\ UNCHANGED <<counts, registry, tables, push, relay, granted, armed>>

LoopSync ==
  /\ Goto(Loop, "sync", "idle")
  /\ state' = "active"
  /\ UNCHANGED <<counts, published, subscribers, tables, push, relay,
                 granted, armed>>

-----------------------------------------------------------------------------
(* Delayed reaps (reap_if_unwatched) and the owner.                        *)

\* The timer of a delayed reap, or of the join window, runs out: only a stream
\* that exists and that nobody watches is reaped.
TimerFires(x) ==
  /\ armed > 0
  /\ armed' = armed - 1
  /\ Goto(x, "idle", IF stream # 0 /\ watching = {} THEN "claim" ELSE "idle")
  /\ UNCHANGED <<counts, registry, tables, push, relay, granted>>

Publish ==
  /\ pc[Owner] = "idle"
  /\ ~published
  /\ published' = TRUE
  /\ UNCHANGED <<pc, counts, state, subscribers, tables, push, relay,
                 granted, armed>>

UnpublishBegins ==
  /\ published
  /\ Act
  /\ Goto(Owner, "idle", IF share THEN "claim" ELSE "unpublish")
  /\ UNCHANGED <<joins, leaves, registry, tables, push, relay, granted, armed>>

\* The subscriber set is left as it is.
UnpublishEnds ==
  /\ Goto(Owner, "unpublish", "idle")
  /\ published' = FALSE
  /\ state' = "idle"
  /\ UNCHANGED <<counts, subscribers, tables, push, relay, granted, armed>>

\* stop_stream: every engine is stopped, whatever it serves.
StopAll ==
  /\ Act
  /\ \E p \in Pushes : push[p].pc = "running"
  /\ push' = [p \in Pushes |-> IF push[p].pc = "running" /\ (push[p].own => engine = p)
                               THEN [push[p] EXCEPT !.pc = "stopping"] ELSE push[p]]
  /\ engine' = 0
  /\ UNCHANGED <<pc, joins, leaves, registry, share, session, allowed, relay,
                 granted, armed>>

-----------------------------------------------------------------------------
(* Ending a share (ShareService::stop, reap_stream, force_teardown), by    *)
(* whichever thread.                                                       *)

\* Where a thread goes on when it has reaped.
After(x) == IF x = Owner THEN "unpublish" ELSE "idle"

\* stop: which stream does the endpoint share?
ReapFind(x) ==
  /\ Goto(x, "find", IF share THEN "claim" ELSE After(x))
  /\ UNCHANGED <<counts, registry, tables, push, relay, granted, armed>>

\* Only one thread takes the entry; the others go on with the rest.
ReapClaim(x) ==
  /\ Goto(x, "claim", IF share THEN "reset" ELSE "engine")
  /\ share' = FALSE
  /\ UNCHANGED <<counts, registry, session, allowed, engine, push, relay,
                 granted, armed>>

ReapReset(x) ==
  /\ Goto(x, "reset", "engine")
  /\ subscribers' = {}
  /\ state' = "idle"
  /\ UNCHANGED <<counts, published, tables, push, relay, granted, armed>>

\* Mutant: the engine is forgotten instead of stopped.
ReapEngineForgets(x) ==
  /\ Goto(x, "engine", "lookup")
  /\ engine' = 0
  /\ UNCHANGED <<counts, registry, share, session, allowed, push, relay,
                 granted, armed>>

ReapEngine(x) ==
  /\ Goto(x, "engine", "lookup")
  /\ push' = IF engine = 0 THEN push ELSE [push EXCEPT ![engine].pc = "stopping"]
  /\ engine' = 0
  /\ UNCHANGED <<counts, registry, share, session, allowed, relay, granted,
                 armed>>

ReapLookup(x) ==
  /\ Goto(x, "lookup", IF session THEN "session" ELSE After(x))
  /\ UNCHANGED <<counts, registry, tables, push, relay, granted, armed>>

\* Mutant: the teardown leaves the data plane alone.
ReapSessionOnly(x) ==
  /\ Goto(x, "session", After(x))
  /\ session' = FALSE
  /\ UNCHANGED <<counts, registry, share, allowed, engine, push, relay,
                 granted, armed>>

ReapSession(x) ==
  /\ Goto(x, "session", "revoke")
  /\ session' = FALSE
  /\ UNCHANGED <<counts, registry, share, allowed, engine, push, relay,
                 granted, armed>>

ReapRevoke(x) ==
  /\ Goto(x, "revoke", "cut")
  /\ allowed' = FALSE
  /\ UNCHANGED <<counts, registry, share, session, engine, push, relay,
                 granted, armed>>

ReapCut(x) ==
  /\ Goto(x, "cut", After(x))
  /\ CutStream
  /\ UNCHANGED <<counts, registry, tables, push, granted, armed>>

-----------------------------------------------------------------------------
Handler(n) ==
  \/ Ensure(n) \/ Authorize(n) \/ InsertSession(n) \/ Refuse(n)
  \/ Note(n) \/ Converge(n) \/ Register(n) \/ Activate(n)

PushTask(p) ==
  \/ PushStart(p) \/ PushConnect(p) \/ PushConnectFails(p)
  \/ PushCaptureFails(p) \/ PushEnroll(p) \/ PushStop(p)

EventTask == LoopEnded \/ LoopWatchers \/ LoopShare \/ LoopSync

Reap(x) ==
  \/ ReapFind(x) \/ ReapClaim(x) \/ ReapReset(x) \/ ReapEngine(x) \/ ReapLookup(x)
  \/ ReapSession(x) \/ ReapRevoke(x) \/ ReapCut(x)

Next ==
  \/ \E n \in Nodes : \/ Request(n) \/ Handler(n) \/ Unsubscribe(n)
                      \/ Watch(n) \/ WatchEnds(n) \/ WatchReplayFails(n)
                      \/ WatchReported(n)
  \/ \E p \in Pushes : PushTask(p) \/ PushDies(p)
  \/ EventTask
  \/ \E x \in TimerThreads : TimerFires(x)
  \/ Publish \/ UnpublishBegins \/ UnpublishEnds \/ StopAll
  \/ \E x \in Threads : Reap(x)

\* What goes on by itself: handlers, tasks and reaps run, timers expire.  Nothing
\* makes a device subscribe, watch or leave, a push die, or the owner act.
GoesOn ==
  \/ \E n \in Nodes : Handler(n) \/ WatchReported(n)
  \/ \E p \in Pushes : PushTask(p)
  \/ EventTask
  \/ \E x \in TimerThreads : TimerFires(x)
  \/ UnpublishEnds
  \/ \E x \in Threads : Reap(x)

\* Some thread that can run does.  With bounded inputs no thread can starve
\* another for ever, so this is all the fairness needed.
Fairness == WF_vars(GoesOn)

Spec == Init /\ [][Next]_vars /\ Fairness

-----------------------------------------------------------------------------
(* Properties.                                                             *)

\* An authorisation never outlives its session: whenever the relay still
\* accepts the id, there is a session, one is about to be inserted, or a
\* teardown is on its way to revoke it, whatever teardowns and new
\* subscriptions overlap (build_session against teardown_internal).
AuthorizationOwned ==
  allowed => \/ session
             \/ \E n \in Nodes : pc[n] = "insert"
             \/ \E x \in Threads : pc[x] = "revoke"

\* The kernel can always stop what captures under the endpoint's id: such a
\* push is the registered engine until somebody is stopping it, so two never
\* run at once and none is lost when reaps, StopAll and new pushes overlap
\* (start_stream against reap_stream and stop_stream).
RunningIsEnrolled ==
  \A p \in Pushes : push[p].pc = "running" /\ push[p].own => engine = p

\* When the relay reports the end of the id's stream, the kernel lets go of
\* the share, then of the engine, then of the session, whatever else goes on
\* (StreamEnded in attach_data_plane, reap_stream).
EndedIsReaped ==
  (\E i \in DOMAIN events : events[i] = "ended")
    ~> (~share /\ <>(engine = 0 /\ <>(~session)))

\* When the last watcher of a shared stream has gone, the stream ends or
\* somebody watches again (WatchersChanged{0}, the delay, reap_if_unwatched).
UnwatchedStops ==
  (share /\ stream # 0 /\ watching = {} /\ leaving # {})
    ~> (stream = 0 \/ watching # {})

\* A session is authorised for the relay as long as it exists ("authorise
\* first, then insert, so that there is no session that cannot push",
\* build_session).  Does not hold: a teardown that has removed the previous
\* session revokes what the new one was just given.
SessionAuthorized == session => allowed

\* Once everything has settled and the endpoint is not shared, none of its
\* pushes still streams ("stopping a share stops its stream",
\* stop_share_by_stream).  Does not hold: a push that starts after the stop
\* takes a session of its own, and nothing connects it with the endpoint.
StoppedIsSilent ==
  LET settled == /\ \A x \in Threads : pc[x] = "idle"
                 /\ events = <<>>
                 /\ \A p \in Pushes : push[p].pc \in {"none", "running", "done"}
  IN settled /\ ~share => \A p \in Pushes : ~push[p].live

\* A share that nobody joins does not stay (share_idle_delay: "stop when no
\* subscriber ever joins"), not even when its push has failed.  Does not hold:
\* reap_if_unwatched leaves alone a share whose stream does not exist.
UnjoinedShareStops ==
  (share /\ \A p \in Pushes : push[p].pc \in {"none", "done"}) ~> (~share \/ watching # {})

=============================================================================
