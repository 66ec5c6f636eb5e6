---------------------------- MODULE ShareProofs ----------------------------
(***************************************************************************)
(* Proofs about ShareLifecycle, for every number of devices, threads,      *)
(* requests, stops, failures and departures.                               *)
(***************************************************************************)
EXTENDS ShareLifecycle, TLAPS

Steps == {"idle", "unpublish"} \cup RequestSteps \cup ReapSteps \cup LoopSteps

\* A thread that moves on to one of the steps.
LEMMA GotoType ==
  ASSUME TypeOK, NEW x, NEW from, NEW to \in Steps, Goto(x, from, to)
  PROVE  pc' \in [Threads -> Steps]
BY DEF TypeOK, Goto, Steps

LEMMA NumbersType ==
  /\ MaxActs \in Nat /\ MaxJoins \in Nat /\ MaxLeaves \in Nat
  /\ Pushes \subseteq 0 .. MaxActs /\ 0 \in 0 .. MaxActs /\ 0 \notin Pushes
BY ConstantsAssumption DEF ConstantsAssumption, Pushes

LEMMA ActType ==
  ASSUME TypeOK, Act
  PROVE  acts' \in 0 .. MaxActs
BY NumbersType DEF Act, TypeOK

\* What the relay reports is an event, also after the stream is cut.
LEMMA EventsType ==
  ASSUME TypeOK
  PROVE  /\ \A e \in Event : Append(events, e) \in Seq(Event)
         /\ events # <<>> => Tail(events) \in Seq(Event)
         /\ \A w : WatchersChanged(w) \in Event
BY DEF TypeOK, WatchersChanged, Event

RelayOK ==
  /\ stream \in 0 .. MaxActs
  /\ watching \subseteq Nodes /\ leaving \subseteq Nodes
  /\ events \in Seq(Event)

LEMMA CutStreamType ==
  ASSUME TypeOK, CutStream \/ UNCHANGED relay
  PROVE  RelayOK'
<1>1. CASE UNCHANGED relay
  BY <1>1 DEF relay, TypeOK, RelayOK
<1>2. CASE stream # 0 /\ CutStream
  BY <1>2, NumbersType, EventsType DEF CutStream, Event, TypeOK, RelayOK
<1> QED
  BY <1>1, <1>2 DEF CutStream

\* Push p changes into something that is a push.
LEMMA PushChanges ==
  ASSUME TypeOK, NEW p \in Pushes, NEW v \in PushState,
         push' = [push EXCEPT ![p] = v]
  PROVE  push' \in [Pushes -> PushState]
BY DEF TypeOK

LEMMA TypeHandler ==
  ASSUME TypeOK, NEW n \in Nodes, Request(n) \/ Handler(n) \/ Unsubscribe(n)
  PROVE  TypeOK'
<1>1. CASE Request(n)
  <2>1. pc' \in [Threads -> Steps]
    BY <1>1, GotoType DEF Request, Steps, RequestSteps
  <2>2. acts' \in 0 .. MaxActs
    BY <1>1, ActType DEF Request
  <2> QED
    BY <1>1, <2>1, <2>2 DEF Request, TypeOK, Steps, registry, tables, relay
<1>2. CASE Ensure(n)
  <2>1. pc' \in [Threads -> Steps]
    BY <1>2, GotoType DEF Ensure, Steps, RequestSteps
  <2> QED
    BY <1>2, <2>1 DEF Ensure, TypeOK, Steps, counts, registry, tables, relay
<1>3. CASE Authorize(n)
  <2>1. pc' \in [Threads -> Steps]
    BY <1>3, GotoType DEF Authorize, Steps, RequestSteps
  <2>2. allowed' \in BOOLEAN
    BY <1>3, Zenon DEF Authorize
  <2> QED
    BY <1>3, <2>1, <2>2 DEF Authorize, TypeOK, Steps, counts, registry, relay
<1>4. CASE InsertSession(n)
  <2>1. pc' \in [Threads -> Steps]
    BY <1>4, GotoType DEF InsertSession, Steps, RequestSteps
  <2>2. session' \in BOOLEAN
    BY <1>4, Zenon DEF InsertSession
  <2> QED
    BY <1>4, <2>1, <2>2 DEF InsertSession, TypeOK, Steps, counts, registry, relay
<1>5. CASE Note(n)
  <2>1. pc' \in [Threads -> Steps]
    BY <1>5, GotoType DEF Note, Steps, RequestSteps
  <2> QED
    BY <1>5, <2>1 DEF Note, TypeOK, Steps, counts, tables, relay
<1>6. CASE Refuse(n)
  <2>1. pc' \in [Threads -> Steps]
    BY <1>6, GotoType DEF Refuse, Steps
  <2>2. acts' \in 0 .. MaxActs
    BY <1>6, ActType DEF Refuse
  <2> QED
    BY <1>6, <2>1, <2>2 DEF Refuse, TypeOK, Steps, registry, tables, relay
<1>7. CASE Converge(n)
  <2>1. pc' \in [Threads -> Steps] /\ granted' \subseteq Nodes
    BY <1>7, GotoType DEF Converge, Steps, RequestSteps, TypeOK
  <2> QED
    BY <1>7, <2>1 DEF Converge, TypeOK, Steps, counts, registry, tables, relay
<1>8. CASE Register(n)
  <2>1. pc' \in [Threads -> Steps]
    BY <1>8, GotoType DEF Register, Steps, RequestSteps
  <2>2. share' \in BOOLEAN
    BY <1>8, Zenon DEF Register
  <2> QED
    BY <1>8, <2>1, <2>2 DEF Register, TypeOK, Steps, counts, registry, relay
<1>9. CASE Activate(n)
  <2>1. pc' \in [Threads -> Steps]
    BY <1>9, GotoType DEF Activate, Steps
  <2>2. push' \in [Pushes -> PushState]
    BY <1>9 DEF Activate, TypeOK, PushState
  <2> QED
    BY <1>9, <2>1, <2>2 DEF Activate, TypeOK, Steps, counts, tables, relay
<1>10. CASE Unsubscribe(n)
  <2>1. pc' \in [Threads -> Steps]
    BY <1>10, GotoType DEF Unsubscribe, Steps, ReapSteps
  <2>2. leaves' \in 0 .. MaxLeaves
    BY <1>10, NumbersType DEF Unsubscribe, TypeOK
  <2> QED
    BY <1>10, <2>1, <2>2 DEF Unsubscribe, TypeOK, Steps, tables, relay
<1> QED
  BY <1>1, <1>2, <1>3, <1>4, <1>5, <1>6, <1>7, <1>8, <1>9, <1>10 DEF Handler

LEMMA TypePush ==
  ASSUME TypeOK, NEW p \in Pushes, PushTask(p) \/ PushDies(p)
  PROVE  TypeOK'
<1>0. /\ UNCHANGED <<pc, joins, leaves, registry, share, session, allowed, granted, armed>>
      /\ UNCHANGED acts \/ Act
      /\ \/ CutStream \/ UNCHANGED relay
         \/ stream' \in {p, stream} /\ UNCHANGED <<watching, leaving, events>>
      /\ engine' \in {p, engine}
  BY DEF PushTask, PushDies, PushStart, PushConnect, PushConnectFails,
     PushCaptureFails, PushEnroll, PushStop, PushGone, tables, counts
<1>1. RelayOK'
  BY <1>0, CutStreamType, NumbersType DEF TypeOK, RelayOK
<1>2. engine' \in 0 .. MaxActs
  BY <1>0, NumbersType DEF TypeOK
<1>3. push' \in [Pushes -> PushState]
  <2>0. /\ push \in [Pushes -> PushState]
        /\ session \in BOOLEAN /\ push[p].own \in BOOLEAN
    BY DEF TypeOK, PushState
  <2>1. CASE PushStart(p)
    BY <2>0, <2>1 DEF PushStart, PushState
  <2>2. CASE PushConnect(p)
    <3>1. (push[p].own => allowed /\ stream = 0) \in BOOLEAN
      OBVIOUS
    <3> QED
      BY <2>0, <2>2, <3>1 DEF PushConnect, PushState
  <2>3. CASE PushConnectFails(p)
    BY <2>0, <2>3 DEF PushConnectFails, PushState
  <2>4. CASE PushCaptureFails(p)
    BY <2>0, <2>4 DEF PushCaptureFails, PushState
  <2>5. CASE PushEnroll(p)
    BY <2>0, <2>5 DEF PushEnroll, PushState
  <2>6. CASE PushStop(p)
    BY <2>0, <2>6 DEF PushStop, PushState
  <2>7. CASE PushDies(p)
    BY <2>0, <2>7 DEF PushDies, PushState
  <2> QED
    BY <2>1, <2>2, <2>3, <2>4, <2>5, <2>6, <2>7 DEF PushTask
<1> QED
  BY <1>0, <1>1, <1>2, <1>3, ActType DEF TypeOK, RelayOK, registry

LEMMA TypeWatch ==
  ASSUME TypeOK, NEW n \in Nodes,
         Watch(n) \/ WatchEnds(n) \/ WatchReplayFails(n) \/ WatchReported(n)
  PROVE  TypeOK'
<1>0. /\ UNCHANGED <<pc, leaves, registry, tables, push, stream, granted, armed>>
      /\ UNCHANGED acts \/ Act
      /\ watching' \subseteq watching \cup {n} /\ leaving' \subseteq leaving \cup {n}
      /\ \/ events' = events
         \/ \E e \in Event : events' = Append(events, e)
  BY EventsType DEF Watch, WatchEnds, WatchReplayFails, WatchReported, counts, Event
<1>1. joins' \in 0 .. MaxJoins
  BY NumbersType DEF Watch, WatchEnds, WatchReplayFails, WatchReported, counts, TypeOK
<1>2. events' \in Seq(Event)
  BY <1>0, EventsType DEF TypeOK
<1> QED
  BY <1>0, <1>1, <1>2, ActType DEF TypeOK, registry, tables

LEMMA TypeKernel ==
  ASSUME TypeOK, \/ EventTask \/ \E x \in TimerThreads : TimerFires(x)
                 \/ Publish \/ UnpublishBegins \/ UnpublishEnds \/ StopAll
  PROVE  TypeOK'
<1>1. CASE LoopEnded
  BY <1>1, GotoType, EventsType
     DEF LoopEnded, TypeOK, Steps, ReapSteps, counts, registry, tables
<1>2. CASE LoopWatchers
  BY <1>2, GotoType, EventsType
     DEF LoopWatchers, TypeOK, Steps, LoopSteps, counts, registry, tables
<1>3. CASE LoopShare
  BY <1>3, GotoType DEF LoopShare, TypeOK, Steps, LoopSteps, counts, registry, tables, relay
<1>4. CASE LoopSync
  BY <1>4, GotoType DEF LoopSync, TypeOK, Steps, counts, tables, relay
<1>5. ASSUME NEW x \in TimerThreads, TimerFires(x) PROVE TypeOK'
  BY <1>5, GotoType DEF TimerFires, TypeOK, Steps, ReapSteps, counts, registry, tables, relay
<1>6. CASE Publish
  <2>1. published' \in BOOLEAN
    BY <1>6, Zenon DEF Publish
  <2> QED
    BY <1>6, <2>1 DEF Publish, TypeOK, counts, tables, relay
<1>7. CASE UnpublishBegins
  <2>1. acts' \in 0 .. MaxActs
    BY <1>7, ActType DEF UnpublishBegins
  <2> QED
    BY <1>7, <2>1, GotoType
       DEF UnpublishBegins, TypeOK, Steps, ReapSteps, registry, tables, relay
<1>8. CASE UnpublishEnds
  <2>1. published' \in BOOLEAN
    BY <1>8, Zenon DEF UnpublishEnds
  <2> QED
    BY <1>8, <2>1, GotoType DEF UnpublishEnds, TypeOK, Steps, counts, tables, relay
<1>9. CASE StopAll
  <2>1. acts' \in 0 .. MaxActs
    BY <1>9, ActType DEF StopAll
  <2>2. push' \in [Pushes -> PushState]
    BY <1>9 DEF StopAll, TypeOK, PushState
  <2> QED
    BY <1>9, <2>1, <2>2, NumbersType DEF StopAll, TypeOK, registry, relay
<1> QED
  BY <1>1, <1>2, <1>3, <1>4, <1>5, <1>6, <1>7, <1>8, <1>9 DEF EventTask

LEMMA TypeReap ==
  ASSUME TypeOK, NEW x \in Threads, Reap(x)
  PROVE  TypeOK'
<1>0. After(x) \in Steps /\ \A s \in ReapSteps : s \in Steps
  BY DEF After, Steps
<1>1. \E from, to : to \in Steps /\ Goto(x, from, to)
  BY <1>0 DEF Reap, ReapFind, ReapClaim, ReapReset, ReapEngine, ReapLookup, ReapSession,
     ReapRevoke, ReapCut, ReapSteps
<1>2. pc' \in [Threads -> Steps]
  BY <1>1, GotoType
<1>3. UNCHANGED <<counts, published, granted, armed>>
  BY DEF Reap, ReapFind, ReapClaim, ReapReset, ReapEngine, ReapLookup, ReapSession,
     ReapRevoke, ReapCut, registry
<1>4. subscribers' \in {subscribers, {}} /\ state' \in {state, "idle"}
  BY DEF Reap, ReapFind, ReapClaim, ReapReset, ReapEngine, ReapLookup, ReapSession,
     ReapRevoke, ReapCut, registry
<1>5. share' \in BOOLEAN /\ session' \in BOOLEAN /\ allowed' \in BOOLEAN
  BY Zenon DEF TypeOK, Reap, ReapFind, ReapClaim, ReapReset, ReapEngine, ReapLookup,
     ReapSession, ReapRevoke, ReapCut, tables
<1>6. engine' \in 0 .. MaxActs
  BY NumbersType DEF TypeOK, Reap, ReapFind, ReapClaim, ReapReset, ReapEngine, ReapLookup,
     ReapSession, ReapRevoke, ReapCut, tables
<1>7. push' \in [Pushes -> PushState]
  <2>1. CASE ReapEngine(x) /\ engine # 0
    <3>1. engine \in Pushes
      BY <2>1, NumbersType DEF TypeOK, Pushes
    <3> QED
      BY <2>1, <3>1 DEF ReapEngine, TypeOK, PushState
  <2>2. CASE ~(ReapEngine(x) /\ engine # 0)
    BY <2>2 DEF TypeOK, Reap, ReapFind, ReapClaim, ReapReset, ReapEngine, ReapLookup,
       ReapSession, ReapRevoke, ReapCut
  <2> QED
    BY <2>1, <2>2
<1>8. RelayOK'
  BY CutStreamType DEF Reap, ReapFind, ReapClaim, ReapReset, ReapEngine, ReapLookup,
     ReapSession, ReapRevoke, ReapCut
<1> QED
  BY <1>2, <1>3, <1>4, <1>5, <1>6, <1>7, <1>8 DEF TypeOK, RelayOK, Steps, counts

LEMMA TypeInit == Init => TypeOK
<1> SUFFICES ASSUME Init PROVE TypeOK
  OBVIOUS
<1>1. pc \in [Threads -> Steps]
  BY DEF Init, Steps
<1>2. /\ published \in BOOLEAN /\ share \in BOOLEAN
      /\ session \in BOOLEAN /\ allowed \in BOOLEAN
  BY Zenon DEF Init
<1>3. push \in [Pushes -> PushState]
  BY DEF Init, PushState
<1>4. /\ acts \in 0 .. MaxActs /\ joins \in 0 .. MaxJoins /\ leaves \in 0 .. MaxLeaves
      /\ engine \in 0 .. MaxActs /\ stream \in 0 .. MaxActs
  BY NumbersType DEF Init
<1> QED
  BY <1>1, <1>2, <1>3, <1>4 DEF Init, TypeOK, Steps

LEMMA TypeStep == TypeOK /\ [Next]_vars => TypeOK'
<1> SUFFICES ASSUME TypeOK, [Next]_vars PROVE TypeOK'
  OBVIOUS
<1>1. CASE UNCHANGED vars
  BY <1>1 DEF vars, counts, registry, tables, relay, TypeOK
<1> QED
  BY <1>1, TypeHandler, TypePush, TypeWatch, TypeKernel, TypeReap DEF Next

\* Every variable keeps its type.
THEOREM TypeCorrect == Spec => []TypeOK
BY TypeInit, TypeStep, PTL DEF Spec

-----------------------------------------------------------------------------
(* Two steps give the id its authorisation and its session, and two take   *)
(* them away, in the same order: so between any two of them the thread     *)
(* that took the first still stands before the second.                     *)

\* A step that touches neither table, nor a thread that is between the two.
AuthorizationKept ==
  /\ allowed' = allowed /\ (session => session')
  /\ \A x \in Threads : pc[x] \in {"insert", "revoke"} => pc'[x] = pc[x]

LEMMA AuthorizationKeptStep ==
  ASSUME AuthorizationOwned, AuthorizationKept
  PROVE  AuthorizationOwned'
BY DEF AuthorizationOwned, AuthorizationKept, Threads

\* A thread that is not between the two moves on.
LEMMA OthersStay ==
  ASSUME TypeOK, NEW x, NEW from, NEW to, Goto(x, from, to)
  PROVE  /\ \A y \in Threads \ {x} : pc'[y] = pc[y]
         /\ x \in Threads => pc'[x] = to
         /\ from \notin {"insert", "revoke"} =>
              \A y \in Threads : pc[y] \in {"insert", "revoke"} => pc'[y] = pc[y]
BY DEF TypeOK, Goto

LEMMA AuthorizationHandler ==
  ASSUME TypeOK, AuthorizationOwned, NEW n \in Nodes,
         Request(n) \/ Handler(n) \/ Unsubscribe(n)
  PROVE  AuthorizationOwned'
<1>1. CASE Authorize(n)
  BY <1>1, OthersStay DEF Authorize, AuthorizationOwned, Threads
<1>2. CASE InsertSession(n)
  BY <1>2 DEF InsertSession, AuthorizationOwned
<1>3. CASE \/ Request(n) \/ Ensure(n) \/ Note(n) \/ Refuse(n) \/ Converge(n)
           \/ Register(n) \/ Activate(n) \/ Unsubscribe(n)
  <2>1. allowed' = allowed /\ session' = session
    BY <1>3 DEF Request, Ensure, Note, Refuse, Converge, Register, Activate, Unsubscribe,
       tables
  <2>2. \E from, to : from \notin {"insert", "revoke"} /\ Goto(n, from, to)
    BY <1>3 DEF Request, Ensure, Note, Refuse, Converge, Register, Activate, Unsubscribe
  <2> QED
    BY <2>1, <2>2, OthersStay, AuthorizationKeptStep DEF AuthorizationKept
<1> QED
  BY <1>1, <1>2, <1>3 DEF Handler

LEMMA AuthorizationReap ==
  ASSUME TypeOK, AuthorizationOwned, NEW x \in Threads, Reap(x)
  PROVE  AuthorizationOwned'
<1>1. CASE ReapSession(x)
  BY <1>1, OthersStay DEF ReapSession, AuthorizationOwned
<1>2. CASE ReapRevoke(x)
  BY <1>2 DEF ReapRevoke, AuthorizationOwned
<1>3. CASE \/ ReapFind(x) \/ ReapClaim(x) \/ ReapReset(x) \/ ReapEngine(x)
           \/ ReapLookup(x) \/ ReapCut(x)
  <2>1. allowed' = allowed /\ session' = session
    BY <1>3 DEF ReapFind, ReapClaim, ReapReset, ReapEngine, ReapLookup, ReapCut, tables
  <2>2. \E from, to : from \notin {"insert", "revoke"} /\ Goto(x, from, to)
    BY <1>3 DEF ReapFind, ReapClaim, ReapReset, ReapEngine, ReapLookup, ReapCut
  <2> QED
    BY <2>1, <2>2, OthersStay, AuthorizationKeptStep DEF AuthorizationKept
<1> QED
  BY <1>1, <1>2, <1>3 DEF Reap

LEMMA AuthorizationStep ==
  ASSUME TypeOK, AuthorizationOwned, [Next]_vars
  PROVE  AuthorizationOwned'
<1>1. CASE UNCHANGED vars
  BY <1>1, AuthorizationKeptStep DEF vars, tables, AuthorizationKept
<1>2. ASSUME NEW n \in Nodes,
             Watch(n) \/ WatchEnds(n) \/ WatchReplayFails(n) \/ WatchReported(n)
      PROVE  AuthorizationKept
  BY <1>2 DEF Watch, WatchEnds, WatchReplayFails, WatchReported, tables, AuthorizationKept
<1>3. ASSUME NEW p \in Pushes, PushTask(p) \/ PushDies(p)
      PROVE  AuthorizationKept
  BY <1>3 DEF PushTask, PushDies, PushStart, PushConnect, PushConnectFails,
     PushCaptureFails, PushEnroll, PushStop, tables, AuthorizationKept
<1>4. CASE Publish \/ StopAll
  BY <1>4, AuthorizationKeptStep DEF Publish, StopAll, tables, AuthorizationKept
<1>5. ASSUME \/ EventTask \/ (\E x \in TimerThreads : TimerFires(x))
             \/ UnpublishBegins \/ UnpublishEnds
      PROVE  AuthorizationKept
  <2>1. allowed' = allowed /\ session' = session
    BY <1>5 DEF EventTask, LoopEnded, LoopWatchers, LoopShare, LoopSync, TimerFires,
       UnpublishBegins, UnpublishEnds, tables
  <2>2. \E x, from, to : from \notin {"insert", "revoke"} /\ Goto(x, from, to)
    BY <1>5 DEF EventTask, LoopEnded, LoopWatchers, LoopShare, LoopSync, TimerFires,
       UnpublishBegins, UnpublishEnds
  <2> QED
    BY <2>1, <2>2, OthersStay DEF AuthorizationKept
<1> QED
  BY <1>1, <1>2, <1>3, <1>4, <1>5, AuthorizationHandler, AuthorizationReap,
     AuthorizationKeptStep DEF Next

\* However teardowns and new subscriptions overlap, the relay never accepts
\* the id for good without a session.
THEOREM AuthorizationOwnedHolds == Spec => []AuthorizationOwned
<1>1. Init => AuthorizationOwned
  BY DEF Init, AuthorizationOwned
<1>2. TypeOK /\ AuthorizationOwned /\ [Next]_vars => AuthorizationOwned'
  BY AuthorizationStep
<1> QED
  BY <1>1, <1>2, TypeInit, TypeStep, PTL DEF Spec

-----------------------------------------------------------------------------
(* The engine table has one entry for the id, taken and given up under its *)
(* lock together with the push it names.                                   *)

LEMMA EnrolledPush ==
  ASSUME TypeOK, RunningIsEnrolled, NEW p \in Pushes, PushTask(p) \/ PushDies(p)
  PROVE  RunningIsEnrolled'
<1>0. /\ push \in [Pushes -> PushState]
      /\ \A q \in Pushes \ {p} : push'[q] = push[q]
  BY DEF TypeOK, PushTask, PushDies, PushStart, PushConnect, PushConnectFails,
     PushCaptureFails, PushEnroll, PushStop
<1>1. CASE PushEnroll(p) /\ push[p].own /\ engine = 0
  <2>1. \A q \in Pushes : ~(push[q].pc = "running" /\ push[q].own)
    BY <1>1, NumbersType DEF RunningIsEnrolled
  <2>2. engine' = p
    BY <1>1 DEF PushEnroll
  <2> QED
    BY <1>0, <2>1, <2>2 DEF RunningIsEnrolled
<1>2. CASE ~(PushEnroll(p) /\ push[p].own /\ engine = 0)
  <2>1. engine' = engine
    BY <1>2 DEF PushTask, PushDies, PushStart, PushConnect, PushConnectFails,
       PushCaptureFails, PushEnroll, PushStop, tables
  <2>2. push'[p].pc = "running" /\ push'[p].own => push[p].pc = "running" /\ push[p].own
    <3>1. CASE PushEnroll(p)
      BY <1>0, <1>2, <3>1 DEF PushEnroll, PushState
    <3>2. CASE PushDies(p)
      BY <1>0, <3>2 DEF PushDies, PushState
    <3>3. CASE \/ PushStart(p) \/ PushConnect(p) \/ PushConnectFails(p)
               \/ PushCaptureFails(p) \/ PushStop(p)
      BY <1>0, <3>3 DEF PushStart, PushConnect, PushConnectFails, PushCaptureFails,
         PushStop, PushState
    <3> QED
      BY <3>1, <3>2, <3>3 DEF PushTask
  <2> QED
    BY <1>0, <2>1, <2>2 DEF RunningIsEnrolled
<1> QED
  BY <1>1, <1>2

LEMMA EnrolledStep ==
  ASSUME TypeOK, RunningIsEnrolled, [Next]_vars
  PROVE  RunningIsEnrolled'
<1>0. push \in [Pushes -> PushState]
  BY DEF TypeOK
<1>1. CASE UNCHANGED <<push, engine>>
  BY <1>1 DEF RunningIsEnrolled
<1>2. CASE StopAll
  <2>1. \A p \in Pushes : push'[p].pc = "running" => ~push'[p].own
    BY <1>0, <1>2 DEF StopAll, RunningIsEnrolled, PushState
  <2> QED
    BY <2>1 DEF RunningIsEnrolled
<1>3. ASSUME NEW n \in Nodes, Activate(n) PROVE RunningIsEnrolled'
  <2>1. PICK p \in Pushes : push' = [push EXCEPT ![p].pc = "start"]
    BY <1>3 DEF Activate
  <2>2. engine' = engine
    BY <1>3 DEF Activate, tables
  <2> QED
    BY <1>0, <2>1, <2>2 DEF RunningIsEnrolled, PushState
<1>4. ASSUME NEW x \in Threads, ReapEngine(x) PROVE RunningIsEnrolled'
  <2>1. \A p \in Pushes : ~(push'[p].pc = "running" /\ push'[p].own)
    BY <1>0, <1>4, NumbersType DEF ReapEngine, RunningIsEnrolled, PushState
  <2> QED
    BY <2>1 DEF RunningIsEnrolled
<1>5. ASSUME NEW n \in Nodes,
             \/ Request(n) \/ Ensure(n) \/ Authorize(n) \/ InsertSession(n) \/ Refuse(n)
             \/ Note(n) \/ Converge(n) \/ Register(n) \/ Unsubscribe(n)
             \/ Watch(n) \/ WatchEnds(n) \/ WatchReplayFails(n) \/ WatchReported(n)
      PROVE  UNCHANGED <<push, engine>>
  BY <1>5 DEF Request, Ensure, Authorize, InsertSession, Refuse, Note, Converge, Register,
     Unsubscribe, Watch, WatchEnds, WatchReplayFails, WatchReported, tables
<1>6. ASSUME \/ EventTask \/ (\E x \in TimerThreads : TimerFires(x))
             \/ Publish \/ UnpublishBegins \/ UnpublishEnds
      PROVE  UNCHANGED <<push, engine>>
  BY <1>6 DEF EventTask, LoopEnded, LoopWatchers, LoopShare, LoopSync, TimerFires, Publish,
     UnpublishBegins, UnpublishEnds, tables
<1>7. ASSUME NEW x \in Threads,
             \/ ReapFind(x) \/ ReapClaim(x) \/ ReapReset(x) \/ ReapLookup(x)
             \/ ReapSession(x) \/ ReapRevoke(x) \/ ReapCut(x)
      PROVE  UNCHANGED <<push, engine>>
  BY <1>7 DEF ReapFind, ReapClaim, ReapReset, ReapLookup, ReapSession, ReapRevoke, ReapCut,
     tables
<1>8. CASE UNCHANGED vars
  BY <1>1, <1>8 DEF vars, tables
<1> QED
  BY <1>1, <1>2, <1>3, <1>4, <1>5, <1>6, <1>7, <1>8, EnrolledPush DEF Next, Handler, Reap

\* A capture under the endpoint's id is always the registered engine: reaps,
\* StopAll and new pushes never lose one, nor do two run at once.
THEOREM RunningIsEnrolledHolds == Spec => []RunningIsEnrolled
<1>1. Init => RunningIsEnrolled
  BY DEF Init, RunningIsEnrolled
<1>2. TypeOK /\ RunningIsEnrolled /\ [Next]_vars => RunningIsEnrolled'
  BY EnrolledStep
<1> QED
  BY <1>1, <1>2, TypeInit, TypeStep, PTL DEF Spec

=============================================================================
