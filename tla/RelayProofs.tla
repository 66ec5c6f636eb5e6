---------------------------- MODULE RelayProofs ----------------------------
(***************************************************************************)
(* Proofs about Relay, for every number of ids, sessions, channels and     *)
(* frames and every channel capacity: types, then the safety properties,   *)
(* each from the types and the strengthening that makes it inductive, then *)
(* that Relay implements StreamDirectory.                                  *)
(***************************************************************************)
EXTENDS RelayDirectory, TLAPS

(* TypeOK together with what it leaves open and every step relies on: a    *)
(* task past its first message knows which stream it works on, and a       *)
(* receiver never stands beyond the end of its channel.                    *)

TableOK ==
  /\ streams \in [StreamIds -> 0 .. MaxChannels]
  /\ created \in 0 .. MaxChannels
  /\ log \in [Channels -> Seq(FrameKinds)]
  /\ \A c \in Channels : Len(log[c]) <= MaxFrames
  /\ lastKey \in [Channels -> 0 .. MaxFrames]
  /\ maker \in [Channels -> Pushers \cup Proxiers \cup {NoId}]
  /\ begun \in [Incarnations -> Nat]
  /\ ended \in [Incarnations -> Nat]
  /\ owed \in [StreamIds -> BOOLEAN]
  /\ \A id \in StreamIds : streams[id] <= created

KernelOK ==
  /\ allowed \subseteq StreamIds
  /\ tokens \subseteq StreamIds
  /\ teardown \in [StreamIds -> {"none", "revoke", "cut", "report"}]
  /\ cut \in [StreamIds -> Incarnations]

PusherOK ==
  /\ pusher \in [Pushers -> PusherState]
  /\ \A p \in Pushers :
       /\ pusher[p].pc \in {"gate", "lookup", "insert"} => pusher[p].want \in StreamIds
       /\ pusher[p].pc \in {"starting", "streaming"} => pusher[p].id \in StreamIds

ProxierOK ==
  /\ proxier \in [Proxiers -> ProxierState]
  /\ \A x \in Proxiers : proxier[x].pc # "idle" => proxier[x].id \in StreamIds

WatcherOK ==
  /\ watcher \in [Watchers -> WatcherState]
  /\ \A w \in Watchers : watcher[w].pc # "idle" =>
       /\ watcher[w].id \in StreamIds
       /\ watcher[w].ch \in Channels
       /\ watcher[w].pos <= Len(log[watcher[w].ch])

TypeInv == TableOK /\ KernelOK /\ PusherOK /\ ProxierOK /\ WatcherOK

LogsGrow == \A c \in Channels : Len(log[c]) <= Len(log'[c])

LEMMA InsertType ==
  ASSUME TableOK, NEW id \in StreamIds, NEW task \in Pushers \cup Proxiers,
         Insert(id, task)
  PROVE  TableOK' /\ LogsGrow
<1>1. /\ created \in Nat /\ created + 1 \in 1 .. MaxChannels
      /\ created' = created + 1
  BY ConstantsAssumption DEF ConstantsAssumption, Insert, TableOK
<1>2. /\ streams' \in [StreamIds -> 0 .. MaxChannels]
      /\ \A i \in StreamIds : streams'[i] <= created'
  BY <1>1, ConstantsAssumption DEF ConstantsAssumption, Insert, TableOK
<1>3. maker' \in [Channels -> Pushers \cup Proxiers \cup {NoId}]
  BY <1>1 DEF Insert, TableOK, Channels
<1>4. /\ owed' \in [StreamIds -> BOOLEAN]
      /\ UNCHANGED <<log, lastKey, begun, ended>>
  BY DEF Insert, TableOK
<1>5. LogsGrow
  BY <1>4 DEF LogsGrow, TableOK
<1> QED
  BY <1>1, <1>2, <1>3, <1>4, <1>5, ConstantsAssumption DEF ConstantsAssumption, TableOK

LEMMA RemoveType ==
  ASSUME TableOK, NEW id \in StreamIds, Remove(id)
  PROVE  TableOK' /\ LogsGrow
<1>1. LogsGrow
  BY DEF Remove, LogsGrow, TableOK, chanVars
<1>2. streams' = [streams EXCEPT ![id] = 0]
  BY DEF Remove
<1>3. /\ streams' \in [StreamIds -> 0 .. MaxChannels]
      /\ \A i \in StreamIds : streams'[i] <= created
  BY <1>2, ConstantsAssumption DEF ConstantsAssumption, TableOK
<1>4. owed' \in [StreamIds -> BOOLEAN]
  BY DEF Remove, TableOK
<1> QED
  BY <1>1, <1>3, <1>4 DEF Remove, TableOK, chanVars

LEMMA EmitType ==
  ASSUME TableOK, NEW c \in Incarnations, EmitStarted(c) \/ EmitEnded(c)
  PROVE  TableOK' /\ LogsGrow
<1>1. begun' \in [Incarnations -> Nat] /\ ended' \in [Incarnations -> Nat]
  <2>1. begun \in [Incarnations -> Nat] /\ ended \in [Incarnations -> Nat]
    BY DEF TableOK
  <2>2. CASE EmitStarted(c)
    BY <2>1, <2>2 DEF EmitStarted
  <2>3. CASE EmitEnded(c)
    BY <2>1, <2>3 DEF EmitEnded
  <2> QED
    BY <2>2, <2>3
<1>2. UNCHANGED <<streams, chanVars, owed>>
  BY DEF EmitStarted, EmitEnded
<1> QED
  BY <1>1, <1>2 DEF TableOK, LogsGrow, chanVars

LEMMA ForwardType ==
  ASSUME TableOK, NEW id \in StreamIds, NEW kind \in Kinds, Forward(id, kind),
         UNCHANGED <<streams, created, maker, eventVars>>
  PROVE  TableOK' /\ LogsGrow
<1> DEFINE c == streams[id]
<1>1. CASE ~Exists(id)
  BY <1>1 DEF Forward, TableOK, LogsGrow, eventVars, Channels
<1>2. CASE Exists(id)
  <2>1. c \in Channels
    BY <1>2, ConstantsAssumption DEF ConstantsAssumption, Exists, TableOK, Channels
  <2>2. log[c] \in Seq(FrameKinds) /\ kind \in FrameKinds
    BY <2>1, ConstantsAssumption DEF ConstantsAssumption, TableOK
  <2>3. /\ Append(log[c], kind) \in Seq(FrameKinds)
        /\ Len(Append(log[c], kind)) = Len(log[c]) + 1
        /\ Len(log[c]) \in Nat
    BY <2>2
  <2>4. /\ Len(log[c]) < MaxFrames
        /\ log' = [log EXCEPT ![c] = Append(@, kind)]
        /\ \/ lastKey' = [lastKey EXCEPT ![c] = Len(log[c]) + 1]
           \/ lastKey' = lastKey
    BY <1>2 DEF Forward
  <2>5. log' \in [Channels -> Seq(FrameKinds)]
    BY <2>1, <2>3, <2>4 DEF TableOK
  <2>6. \A d \in Channels : Len(log'[d]) = IF d = c THEN Len(log[c]) + 1 ELSE Len(log[d])
    BY <2>1, <2>3, <2>4 DEF TableOK
  <2>7. lastKey' \in [Channels -> 0 .. MaxFrames]
    <3>1. Len(log[c]) + 1 \in 0 .. MaxFrames
      BY <2>3, <2>4, ConstantsAssumption DEF ConstantsAssumption
    <3> QED
      BY <2>1, <2>4, <3>1 DEF TableOK
  <2>8. \A d \in Channels : Len(log[d]) \in Nat
    BY DEF TableOK
  <2> QED
    BY <2>1, <2>3, <2>4, <2>5, <2>6, <2>7, <2>8, ConstantsAssumption
       DEF ConstantsAssumption, TableOK, LogsGrow, eventVars
<1> QED
  BY <1>1, <1>2

-----------------------------------------------------------------------------
(* Type correctness, one lemma per kind of task.                           *)

LEMMA WatchersKeepUp ==
  ASSUME WatcherOK, LogsGrow, TableOK, TableOK', UNCHANGED watcher
  PROVE  WatcherOK'
<1>1. \A c \in Channels : Len(log[c]) \in Nat /\ Len(log'[c]) \in Nat
  BY DEF TableOK
<1>2. \A w \in Watchers : watcher[w].pos \in Nat
  BY ConstantsAssumption DEF ConstantsAssumption, WatcherOK, WatcherState
<1> QED
  BY <1>1, <1>2 DEF WatcherOK, LogsGrow

LEMMA PushType ==
  ASSUME TypeInv, NEW p \in Pushers, PushStep(p)
  PROVE  TypeInv' /\ LogsGrow
<1> USE DEF TypeInv
<1>0. \A c \in Channels : Len(log[c]) <= Len(log[c])
  BY DEF TableOK
<1>1. pusher \in [Pushers -> PusherState]
  BY DEF PusherOK
<1>2. PusherIdle \in PusherState
  BY ConstantsAssumption DEF ConstantsAssumption, PusherIdle, PusherState, Incarnations
<1>3. CASE \E id \in StreamIds : PushHello(p, id)
  <2> PICK id \in StreamIds : PushHello(p, id)
    BY <1>3
  <2>1. PusherOK'
    BY <1>1, ConstantsAssumption
       DEF ConstantsAssumption, PushHello, PusherOK, PusherState
  <2> QED
    BY <1>0, <2>1, WatchersKeepUp
       DEF PushHello, TableOK, KernelOK, ProxierOK, WatcherOK, LogsGrow,
           chanVars, eventVars, kernelVars
<1>4. CASE PushGate(p) \/ PushLookup(p) \/ PushSilence(p)
  <2>1. ASSUME pusher' = [pusher EXCEPT ![p] = PusherIdle] PROVE PusherOK'
    BY <1>2, <2>1 DEF PusherOK, PusherIdle
  <2>2. ASSUME PushGate(p), pusher' = [pusher EXCEPT ![p].pc = "lookup"] PROVE PusherOK'
    BY <1>1, <2>2 DEF PushGate, PusherOK, PusherState
  <2>3. ASSUME PushLookup(p), pusher' = [pusher EXCEPT ![p].pc = "insert"] PROVE PusherOK'
    BY <1>1, <2>3 DEF PushLookup, PusherOK, PusherState
  <2>4. ASSUME PushSilence(p) PROVE PusherOK'
    BY <1>1, <2>4 DEF PushSilence, PusherOK, PusherState
  <2>5. PusherOK'
    BY <1>4, <2>1, <2>2, <2>3, <2>4 DEF PushGate, PushLookup
  <2> QED
    BY <1>0, <1>4, <2>5
       DEF PushGate, PushLookup, PushSilence, TableOK, KernelOK, ProxierOK,
           WatcherOK, LogsGrow, chanVars, eventVars, kernelVars
<1>5. CASE PushInsert(p)
  <2>1. pusher[p].want \in StreamIds
    BY <1>5 DEF PushInsert, PusherOK
  <2>2. TableOK' /\ LogsGrow
    BY <1>5, <2>1, InsertType DEF PushInsert
  <2>3. PusherOK'
    <3>0. created + 1 \in Incarnations
      BY <1>5, ConstantsAssumption
         DEF ConstantsAssumption, PushInsert, Insert, TableOK, Incarnations
    <3>1. [pusher[p] EXCEPT !.pc = "starting", !.id = pusher[p].want, !.want = NoId,
                            !.ch = created + 1] \in PusherState
      BY <1>1, <2>1, <3>0 DEF PusherState
    <3>2. pusher' = [pusher EXCEPT ![p] =
                       [pusher[p] EXCEPT !.pc = "starting", !.id = pusher[p].want,
                                         !.want = NoId, !.ch = created + 1]]
      BY <1>5 DEF PushInsert
    <3>3. pusher'[p].pc = "starting" /\ pusher'[p].id \in StreamIds
      BY <1>1, <2>1, <3>2 DEF PusherState
    <3> QED
      BY <1>1, <3>1, <3>2, <3>3 DEF PusherOK
  <2> QED
    BY <1>5, <2>2, <2>3, WatchersKeepUp DEF PushInsert, KernelOK, ProxierOK, kernelVars
<1>6. CASE \E kind \in Kinds : PushFrame(p, kind)
  <2> PICK kind \in Kinds : PushFrame(p, kind)
    BY <1>6
  <2>1. pusher[p].id \in StreamIds
    BY DEF PushFrame, PusherOK
  <2>2. TableOK' /\ LogsGrow
    BY <2>1, ForwardType DEF PushFrame
  <2> QED
    BY <2>2, WatchersKeepUp DEF PushFrame, KernelOK, PusherOK, ProxierOK, kernelVars
<1>7. CASE PushBye(p) \/ PushTimeout(p)
  <2>1. pusher[p].id \in StreamIds /\ PushExit(p)
    BY <1>7 DEF PushBye, PushTimeout, PusherOK
  <2>2. TableOK' /\ LogsGrow
    BY <2>1, RemoveType DEF PushExit
  <2>3. PusherOK'
    <3> DEFINE n == IF MustReport(pusher[p].id)
                    THEN [pusher[p] EXCEPT !.pc = "ending", !.ch = streams[pusher[p].id]]
                    ELSE PusherIdle
    <3>1. streams[pusher[p].id] \in Incarnations
      BY <2>1 DEF TableOK, Incarnations
    <3>2. n \in PusherState /\ n.pc \in {"ending", "idle"}
      BY <1>1, <1>2, <3>1 DEF PusherState, PusherIdle
    <3>3. pusher' = [pusher EXCEPT ![p] = n]
      BY <2>1 DEF PushExit
    <3> HIDE DEF n
    <3> QED
      BY <1>1, <3>2, <3>3 DEF PusherOK
  <2> QED
    BY <2>1, <2>2, <2>3, WatchersKeepUp DEF PushExit, KernelOK, ProxierOK, kernelVars
<1>8. CASE PushAnnounce(p)
  <2>1. pusher[p].ch \in Incarnations /\ pusher[p].id \in StreamIds
    BY <1>1, <1>8 DEF PushAnnounce, PusherOK, PusherState
  <2>2. TableOK' /\ LogsGrow
    BY <1>8, <2>1, EmitType DEF PushAnnounce
  <2>3. PusherOK'
    <3>0. pusher[p] \in PusherState /\ 0 \in Incarnations
      BY <1>1, ConstantsAssumption DEF ConstantsAssumption, Incarnations
    <3>1. [pusher[p] EXCEPT !.pc = "streaming", !.ch = 0] \in PusherState
      BY <3>0 DEF PusherState
    <3>2. pusher' = [pusher EXCEPT ![p] = [pusher[p] EXCEPT !.pc = "streaming", !.ch = 0]]
      BY <1>8 DEF PushAnnounce
    <3>3. pusher'[p].pc = "streaming" /\ pusher'[p].id \in StreamIds
      BY <1>1, <2>1, <3>2 DEF PusherState
    <3> QED
      BY <1>1, <3>1, <3>2, <3>3 DEF PusherOK
  <2> QED
    BY <1>8, <2>2, <2>3, WatchersKeepUp DEF PushAnnounce, KernelOK, ProxierOK, kernelVars
<1>9. CASE PushReport(p)
  <2>1. pusher[p].ch \in Incarnations
    BY <1>1 DEF PusherState
  <2>2. TableOK' /\ LogsGrow
    BY <1>9, <2>1, EmitType DEF PushReport
  <2>3. PusherOK'
    BY <1>1, <1>2, <1>9 DEF PushReport, PusherOK, PusherIdle
  <2> QED
    BY <1>9, <2>2, <2>3, WatchersKeepUp DEF PushReport, KernelOK, ProxierOK, kernelVars
<1> QED
  BY <1>3, <1>4, <1>5, <1>6, <1>7, <1>8, <1>9 DEF PushStep

LEMMA ProxyType ==
  ASSUME TypeInv, NEW x \in Proxiers, ProxyStep(x)
  PROVE  TypeInv' /\ LogsGrow
<1> USE DEF TypeInv
<1>0. \A c \in Channels : Len(log[c]) <= Len(log[c])
  BY DEF TableOK
<1>1. proxier \in [Proxiers -> ProxierState]
  BY DEF ProxierOK
<1>2. ProxierIdle \in ProxierState
  BY ConstantsAssumption DEF ConstantsAssumption, ProxierIdle, ProxierState, Incarnations
<1>3. CASE \E id \in StreamIds : ProxyCheck(x, id)
  <2> PICK id \in StreamIds : ProxyCheck(x, id)
    BY <1>3
  <2>1. ProxierOK'
    BY <1>1 DEF ProxyCheck, ProxierOK, ProxierState
  <2> QED
    BY <1>0, <2>1
       DEF ProxyCheck, TableOK, KernelOK, PusherOK, WatcherOK, LogsGrow,
           chanVars, eventVars, kernelVars
<1>4. CASE ProxySilence(x) \/ ProxyUnregister(x)
  <2>1. ProxierOK'
    <3>1. CASE ProxySilence(x)
      BY <1>1, <3>1 DEF ProxySilence, ProxierOK, ProxierState
    <3>2. CASE ProxyUnregister(x)
      BY <1>1, <3>2 DEF ProxyUnregister, ProxierOK, ProxierState
    <3> QED
      BY <1>4, <3>1, <3>2
  <2> QED
    BY <1>0, <1>4, <2>1
       DEF ProxySilence, ProxyUnregister, TableOK, KernelOK, PusherOK,
           WatcherOK, LogsGrow, chanVars, eventVars, kernelVars
<1>5. CASE ProxyInsert(x)
  <2>1. proxier[x].id \in StreamIds
    BY <1>5 DEF ProxyInsert, ProxierOK
  <2>2. TableOK' /\ LogsGrow
    BY <1>5, <2>1, InsertType DEF ProxyInsert
  <2>3. ProxierOK'
    <3>1. created + 1 \in Incarnations
      BY <1>5, ConstantsAssumption
         DEF ConstantsAssumption, ProxyInsert, Insert, TableOK, Incarnations
    <3> QED
      BY <1>1, <1>5, <2>1, <3>1 DEF ProxyInsert, ProxierOK, ProxierState
  <2> QED
    BY <1>5, <2>2, <2>3, WatchersKeepUp DEF ProxyInsert, KernelOK, PusherOK, kernelVars
<1>6. CASE \E kind \in Kinds : ProxyFrame(x, kind)
  <2> PICK kind \in Kinds : ProxyFrame(x, kind)
    BY <1>6
  <2>1. proxier[x].id \in StreamIds
    BY DEF ProxyFrame, ProxierOK
  <2>2. TableOK' /\ LogsGrow
    BY <2>1, ForwardType DEF ProxyFrame
  <2> QED
    BY <2>2, WatchersKeepUp DEF ProxyFrame, KernelOK, PusherOK, ProxierOK, kernelVars
<1>7. CASE ProxyRemove(x)
  <2>1. proxier[x].id \in StreamIds
    BY <1>7 DEF ProxyRemove, ProxierOK
  <2>2. TableOK' /\ LogsGrow
    BY <1>7, <2>1, RemoveType DEF ProxyRemove
  <2>3. ProxierOK'
    <3> DEFINE n == IF MustReport(proxier[x].id)
                    THEN [proxier[x] EXCEPT !.pc = "ending", !.ch = streams[proxier[x].id]]
                    ELSE ProxierIdle
    <3>1. streams[proxier[x].id] \in Incarnations
      BY <2>1 DEF TableOK, Incarnations
    <3>2. n \in ProxierState /\ (n.pc = "idle" \/ n.id \in StreamIds)
      BY <1>1, <1>2, <2>1, <3>1 DEF ProxierState, ProxierIdle
    <3>3. proxier' = [proxier EXCEPT ![x] = n]
      BY <1>7 DEF ProxyRemove
    <3> HIDE DEF n
    <3> QED
      BY <1>1, <3>2, <3>3 DEF ProxierOK
  <2> QED
    BY <1>7, <2>2, <2>3, WatchersKeepUp DEF ProxyRemove, KernelOK, PusherOK, kernelVars
<1>8. CASE ProxyAnnounce(x)
  <2>1. proxier[x].ch \in Incarnations /\ proxier[x].id \in StreamIds
    BY <1>1, <1>8 DEF ProxyAnnounce, ProxierOK, ProxierState
  <2>2. TableOK' /\ LogsGrow
    BY <1>8, <2>1, EmitType DEF ProxyAnnounce
  <2>3. ProxierOK'
    <3>1. 0 \in Incarnations
      BY ConstantsAssumption DEF ConstantsAssumption, Incarnations
    <3> QED
      BY <1>1, <1>8, <2>1, <3>1 DEF ProxyAnnounce, ProxierOK, ProxierState
  <2> QED
    BY <1>8, <2>2, <2>3, WatchersKeepUp DEF ProxyAnnounce, KernelOK, PusherOK, kernelVars
<1>9. CASE ProxyReport(x)
  <2>1. proxier[x].ch \in Incarnations
    BY <1>1 DEF ProxierState
  <2>2. TableOK' /\ LogsGrow
    BY <1>9, <2>1, EmitType DEF ProxyReport
  <2>3. ProxierOK'
    BY <1>1, <1>2, <1>9 DEF ProxyReport, ProxierOK, ProxierIdle
  <2> QED
    BY <1>9, <2>2, <2>3, WatchersKeepUp DEF ProxyReport, KernelOK, PusherOK, kernelVars
<1> QED
  BY <1>3, <1>4, <1>5, <1>6, <1>7, <1>8, <1>9 DEF ProxyStep

LEMMA KernelType ==
  ASSUME TypeInv, NEW id \in StreamIds, KernelStep(id)
  PROVE  TypeInv' /\ LogsGrow
<1> USE DEF TypeInv
<1>0. \A c \in Channels : Len(log[c]) <= Len(log[c])
  BY DEF TableOK
<1>1. CASE Authorize(id) \/ IssueToken(id) \/ TeardownSession(id) \/ RevokeAuthorization(id)
  <2>1. KernelOK'
    BY <1>1 DEF Authorize, IssueToken, TeardownSession, RevokeAuthorization, KernelOK
  <2> QED
    BY <1>0, <1>1, <2>1
       DEF Authorize, IssueToken, TeardownSession, RevokeAuthorization, TableOK,
           PusherOK, ProxierOK, WatcherOK, LogsGrow, chanVars, eventVars
<1>2. CASE RevokeStream(id)
  <2>1. TableOK' /\ LogsGrow
    BY <1>2, RemoveType DEF RevokeStream
  <2>2. KernelOK'
    BY <1>2 DEF RevokeStream, KernelOK, TableOK, Incarnations
  <2> QED
    BY <1>2, <2>1, <2>2, WatchersKeepUp DEF RevokeStream, PusherOK, ProxierOK
<1>3. CASE RevokeReport(id)
  <2>1. cut[id] \in Incarnations /\ 0 \in Incarnations
    BY ConstantsAssumption DEF ConstantsAssumption, KernelOK, Incarnations
  <2>2. TableOK' /\ LogsGrow
    BY <1>3, <2>1, EmitType DEF RevokeReport
  <2>3. KernelOK'
    BY <1>3, <2>1 DEF RevokeReport, KernelOK
  <2> QED
    BY <1>3, <2>2, <2>3, WatchersKeepUp DEF RevokeReport, PusherOK, ProxierOK
<1> QED
  BY <1>1, <1>2, <1>3 DEF KernelStep

\* The fields a step of a watch task may set, and what they must satisfy.
LEMMA WatcherUpdate ==
  ASSUME TypeInv, NEW w \in Watchers, NEW r \in WatcherState,
         watcher' = [watcher EXCEPT ![w] = r],
         r.pc # "idle" => /\ r.id \in StreamIds
                          /\ r.ch \in Channels
                          /\ r.pos <= Len(log[r.ch]),
         UNCHANGED log
  PROVE  WatcherOK'
BY DEF TypeInv, WatcherOK

LEMMA WatchType ==
  ASSUME TypeInv, NEW w \in Watchers,
         WatchTask(w) \/ \E id \in StreamIds : WatchLookup(w, id)
  PROVE  TypeInv' /\ LogsGrow
<1> DEFINE r == watcher[w]
           c == r.ch
<1>0. \A d \in Channels : Len(log[d]) \in 0 .. MaxFrames /\ log[d] \in Seq(FrameKinds)
  BY ConstantsAssumption DEF ConstantsAssumption, TypeInv, TableOK
<1>1. /\ r \in WatcherState
      /\ r.pc # "idle" => r.id \in StreamIds /\ c \in Channels /\ r.pos <= Len(log[c])
  BY DEF TypeInv, WatcherOK
<1>2. WatcherIdle \in WatcherState /\ WatcherIdle.pc = "idle"
  BY ConstantsAssumption DEF ConstantsAssumption, WatcherIdle, WatcherState
<1>3. /\ UNCHANGED <<streams, chanVars, begun, ended, kernelVars, pusher, proxier>>
      /\ owed' \in [StreamIds -> BOOLEAN]
  <2>1. OwedAfterDrop(w) \in [StreamIds -> BOOLEAN]
    BY DEF OwedAfterDrop, TypeInv, TableOK
  <2> QED
    BY <2>1 DEF WatchTask, WatchLookup, WatchSubscribe, WatchReplay,
       WatchReplayFails, WatchLag, WatchSkip, WatchDeliver, WatchDeliverFails,
       WatchClosed, WatchDrop, WatchCount, WatchReport, TypeInv, TableOK, eventVars
<1>4. WatcherOK'
  <2>1. ASSUME NEW id \in StreamIds, WatchLookup(w, id)
        PROVE  WatcherOK'
    <3> DEFINE n == [pc |-> "holding", id |-> id, ch |-> streams[id],
                     kf |-> lastKey[streams[id]], pos |-> 0, started |-> FALSE,
                     sent |-> 0, none |-> FALSE]
    <3>0. streams[id] # 0 /\ watcher' = [watcher EXCEPT ![w] = n]
      BY <2>1 DEF WatchLookup, Exists
    <3>1. streams[id] \in Channels
      BY <3>0, ConstantsAssumption DEF ConstantsAssumption, TypeInv, TableOK, Channels
    <3>2. lastKey[streams[id]] \in 0 .. MaxFrames
      BY <3>1 DEF TypeInv, TableOK
    <3>4. streams[id] \in 0 .. MaxChannels /\ 0 \in 0 .. MaxFrames
      BY ConstantsAssumption DEF ConstantsAssumption, TypeInv, TableOK
    <3>5. n \in WatcherState /\ n.pos = 0 /\ n.id = id /\ n.ch = streams[id]
      BY <3>2, <3>4 DEF WatcherState
    <3>6. 0 <= Len(log[streams[id]])
      BY <1>0, <3>1
    <3> HIDE DEF n
    <3> QED
      BY <1>3, <3>0, <3>1, <3>5, <3>6, WatcherUpdate DEF chanVars
  <2>2. CASE WatchSubscribe(w)
    <3> DEFINE n == [r EXCEPT !.pc = "joining", !.pos = Len(log[c])]
    <3>1. n \in WatcherState /\ n.id = r.id /\ n.ch = c /\ n.pos = Len(log[c])
      BY <1>0, <1>1, <2>2 DEF WatchSubscribe, WatcherState
    <3>2. watcher' = [watcher EXCEPT ![w] = n]
      BY <2>2 DEF WatchSubscribe
    <3>3. r.id \in StreamIds /\ c \in Channels /\ Len(log[c]) <= Len(log[c])
      BY <1>0, <1>1, <2>2 DEF WatchSubscribe
    <3> HIDE DEF n
    <3> QED
      BY <1>3, <3>1, <3>2, <3>3, WatcherUpdate DEF chanVars
  <2>3. CASE WatchLag(w)
    <3> DEFINE n == [r EXCEPT !.started = FALSE, !.pos = Len(log[c]) - Capacity]
    <3>0. r.pc = "live" /\ Len(log[c]) - r.pos > Capacity
      BY <2>3 DEF WatchLag, Behind
    <3>1. Len(log[c]) - Capacity \in 0 .. MaxFrames /\ Len(log[c]) - Capacity <= Len(log[c])
      <4>1. /\ c \in Channels /\ r.pos \in Nat
              /\ Capacity \in Nat /\ MaxFrames \in Nat
        BY <1>1, <3>0, ConstantsAssumption DEF ConstantsAssumption, WatcherState
      <4> QED
        BY <1>0, <3>0, <4>1
    <3>2. n \in WatcherState /\ n.id = r.id /\ n.ch = c /\ n.pos = Len(log[c]) - Capacity
      BY <1>1, <3>1 DEF WatcherState
    <3>3. watcher' = [watcher EXCEPT ![w] = n]
      BY <2>3 DEF WatchLag
    <3> QED
      BY <1>1, <1>3, <2>3, <3>1, <3>2, <3>3, WatcherUpdate DEF WatchLag, chanVars
  <2>4. CASE WatchSkip(w) \/ WatchDeliver(w)
    <3>1. /\ c \in Channels /\ r.id \in StreamIds
          /\ r.pos + 1 \in 0 .. MaxFrames /\ r.pos + 1 <= Len(log[c])
      <4>1. r.pc = "live" /\ Len(log[c]) - r.pos \in 1 .. Capacity
        BY <2>4 DEF WatchSkip, WatchDeliver, CanReceive, Behind
      <4>2. /\ c \in Channels /\ r.id \in StreamIds /\ r.pos \in Nat
            /\ Capacity \in Nat /\ MaxFrames \in Nat
        BY <1>1, <4>1, ConstantsAssumption DEF ConstantsAssumption, WatcherState
      <4> QED
        BY <1>0, <4>1, <4>2
    <3>2. CASE WatchSkip(w)
      <4> DEFINE n == [r EXCEPT !.pos = r.pos + 1]
      <4>1. n \in WatcherState /\ n.id = r.id /\ n.ch = c /\ n.pos = r.pos + 1
        BY <1>1, <3>1 DEF WatcherState
      <4>2. watcher' = [watcher EXCEPT ![w] = n]
        BY <3>2 DEF WatchSkip
      <4> QED
        BY <1>3, <3>1, <4>1, <4>2, WatcherUpdate DEF chanVars
    <3>3. CASE WatchDeliver(w)
      <4> DEFINE kind == NextKind(w)
                 st == r.started \/ kind \in {"key", "config"}
                 n == [r EXCEPT !.pos = r.pos + 1, !.started = st,
                                !.sent = r.pos + 1]
      <4>1. st \in BOOLEAN
        BY <1>1, <3>1 DEF WatcherState
      <4>2. n \in WatcherState /\ n.id = r.id /\ n.ch = c /\ n.pos = r.pos + 1
        BY <1>1, <3>1, <4>1 DEF WatcherState
      <4>3. watcher' = [watcher EXCEPT ![w] = n]
        BY <3>3 DEF WatchDeliver
      <4> QED
        BY <1>3, <3>1, <4>2, <4>3, WatcherUpdate DEF chanVars
    <3> QED
      BY <2>4, <3>2, <3>3
  <2>5. CASE WatchReplay(w)
    <3> DEFINE n == [r EXCEPT !.pc = "live", !.started = (r.kf # 0), !.sent = r.kf]
    <3>1. n \in WatcherState /\ n.id = r.id /\ n.ch = c /\ n.pos = r.pos
      BY <1>1 DEF WatcherState
    <3>2. watcher' = [watcher EXCEPT ![w] = n]
      BY <2>5 DEF WatchReplay
    <3> QED
      BY <1>1, <1>3, <2>5, <3>1, <3>2, WatcherUpdate DEF WatchReplay, chanVars
  <2>6. ASSUME NEW pc \in {"leaving", "counting"}, r.pc # "idle",
               watcher' = [watcher EXCEPT ![w].pc = pc]
        PROVE  WatcherOK'
    <3> DEFINE n == [r EXCEPT !.pc = pc]
    <3>1. n \in WatcherState /\ n.id = r.id /\ n.ch = c /\ n.pos = r.pos
      BY <1>1 DEF WatcherState
    <3> QED
      BY <1>1, <1>3, <2>6, <3>1, WatcherUpdate DEF chanVars
  <2>7. ASSUME NEW b \in BOOLEAN, r.pc # "idle",
               watcher' = [watcher EXCEPT ![w].pc = "reporting", ![w].none = b]
        PROVE  WatcherOK'
    <3> DEFINE n == [r EXCEPT !.pc = "reporting", !.none = b]
    <3>1. n \in WatcherState /\ n.id = r.id /\ n.ch = c /\ n.pos = r.pos
      BY <1>1 DEF WatcherState
    <3> QED
      BY <1>1, <1>3, <2>7, <3>1, WatcherUpdate DEF chanVars
  <2>8. CASE WatchDeliverFails(w) \/ WatchClosed(w) \/ WatchDrop(w)
    BY <2>6, <2>8 DEF WatchDeliverFails, WatchClosed, WatchDrop, CanReceive
  <2>9. CASE WatchReplayFails(w) \/ WatchCount(w)
    <3>1. CASE WatchReplayFails(w)
      BY <2>7, <3>1 DEF WatchReplayFails
    <3>2. CASE WatchCount(w)
      BY <2>7, <3>2 DEF WatchCount
    <3> QED
      BY <2>9, <3>1, <3>2
  <2>10. CASE WatchReport(w)
    BY <1>2, <1>3, <2>10, WatcherUpdate DEF WatchReport, chanVars
  <2> QED
    BY <2>1, <2>2, <2>3, <2>4, <2>5, <2>8, <2>9, <2>10 DEF WatchTask
<1>5. TableOK'
  BY <1>3 DEF TypeInv, TableOK, chanVars
<1>6. LogsGrow
  BY <1>0, <1>3 DEF LogsGrow, chanVars
<1> QED
  BY <1>3, <1>4, <1>5, <1>6 DEF TypeInv, KernelOK, PusherOK, ProxierOK, kernelVars

LEMMA TypeInvStep == TypeInv /\ [Next]_vars => TypeInv'
<1> SUFFICES ASSUME TypeInv, [Next]_vars PROVE TypeInv'
  OBVIOUS
<1>1. CASE Next
  BY <1>1, PushType, ProxyType, WatchType, KernelType DEF Next
<1>2. CASE UNCHANGED vars
  BY <1>2 DEF vars, chanVars, eventVars, kernelVars, TypeInv, TableOK, KernelOK,
              PusherOK, ProxierOK, WatcherOK
<1> QED
  BY <1>1, <1>2

LEMMA TypeInvInit == Init => TypeInv
<1> SUFFICES ASSUME Init PROVE TypeInv
  OBVIOUS
<1> USE ConstantsAssumption DEF ConstantsAssumption, Init
<1>1. TableOK
  BY DEF TableOK, Channels
<1>2. PusherOK
  BY DEF PusherOK, PusherState, PusherIdle, Incarnations
<1>3. ProxierOK
  BY DEF ProxierOK, ProxierState, ProxierIdle, Incarnations
<1>4. WatcherOK
  BY DEF WatcherOK, WatcherState, WatcherIdle
<1>5. KernelOK
  BY DEF KernelOK, Incarnations
<1> QED
  BY <1>1, <1>2, <1>3, <1>4, <1>5 DEF TypeInv

\* The types of every variable of the relay, whatever the bounds.
THEOREM TypeCorrect == Spec => []TypeOK
<1>1. TypeInv => TypeOK
  BY DEF TypeInv, TypeOK, TableOK, KernelOK, PusherOK, ProxierOK, WatcherOK
<1> QED
  BY <1>1, TypeInvInit, TypeInvStep, PTL DEF Spec

-----------------------------------------------------------------------------
(* Safety.                                                                 *)

(* The steps that touch the stream table do so through one of its three    *)
(* operations; every other step leaves it alone.                           *)

TableStep ==
  \/ \E id \in StreamIds : Remove(id) /\ UNCHANGED watcher
  \/ \E id \in StreamIds, t \in Pushers \cup Proxiers : Insert(id, t) /\ UNCHANGED watcher
  \/ UNCHANGED <<streams, created>>

LEMMA NextIsTableStep == TypeInv /\ [Next]_vars => TableStep
<1> SUFFICES ASSUME TypeInv, [Next]_vars PROVE TableStep
  OBVIOUS
<1> USE DEF TableStep
<1>1. ASSUME NEW p \in Pushers, PushStep(p) PROVE TableStep
  <2>1. CASE PushInsert(p)
    BY <2>1 DEF PushInsert, TypeInv, PusherOK
  <2>2. CASE PushBye(p) \/ PushTimeout(p)
    BY <2>2 DEF PushBye, PushTimeout, PushExit, PushAnnounce, PushReport, TypeInv, PusherOK
  <2>3. CASE ~PushInsert(p) /\ ~PushBye(p) /\ ~PushTimeout(p)
    BY <1>1, <2>3 DEF PushStep, PushHello, PushGate, PushLookup, PushAnnounce,
                      PushFrame, PushSilence, PushReport, EmitStarted, EmitEnded,
                      chanVars, eventVars
  <2> QED
    BY <2>1, <2>2, <2>3
<1>2. ASSUME NEW x \in Proxiers, ProxyStep(x) PROVE TableStep
  <2>1. CASE ProxyInsert(x)
    BY <2>1 DEF ProxyInsert, TypeInv, ProxierOK
  <2>2. CASE ProxyRemove(x)
    BY <2>2 DEF ProxyRemove, TypeInv, ProxierOK
  <2>3. CASE ~ProxyInsert(x) /\ ~ProxyRemove(x)
    BY <1>2, <2>3 DEF ProxyStep, ProxyCheck, ProxyAnnounce, ProxyFrame,
                      ProxySilence, ProxyUnregister, ProxyReport, EmitStarted,
                      EmitEnded, chanVars, eventVars
  <2> QED
    BY <2>1, <2>2, <2>3
<1>3. ASSUME NEW w \in Watchers,
             WatchTask(w) \/ \E id \in StreamIds : WatchLookup(w, id)
      PROVE  TableStep
  BY <1>3 DEF WatchTask, WatchLookup, WatchSubscribe, WatchReplay,
     WatchReplayFails, WatchLag, WatchSkip, WatchDeliver, WatchDeliverFails,
     WatchClosed, WatchDrop, WatchCount, WatchReport, chanVars, eventVars
<1>4. ASSUME NEW id \in StreamIds, KernelStep(id) PROVE TableStep
  <2>1. CASE RevokeStream(id)
    BY <2>1 DEF RevokeStream
  <2>2. CASE ~RevokeStream(id)
    BY <1>4, <2>2 DEF KernelStep, Authorize, IssueToken, TeardownSession,
                      RevokeAuthorization, RevokeReport, EmitEnded, chanVars, eventVars
  <2> QED
    BY <2>1, <2>2
<1>5. CASE UNCHANGED vars
  BY <1>5 DEF vars, chanVars, eventVars
<1> QED
  BY <1>1, <1>2, <1>3, <1>4, <1>5 DEF Next

-----------------------------------------------------------------------------
(* Starts and ends are announced once.  Between its step on the table and  *)
(* its event, a task holds the channel the event is about: Starting for an *)
(* insertion, Ender for a removal, where e names who removed it.           *)

Ender(e, c) ==
  \/ \E p \in Pushers : e = <<"push", p>> /\ pusher[p].pc = "ending" /\ pusher[p].ch = c
  \/ \E x \in Proxiers : e = <<"proxy", x>> /\ proxier[x].pc = "ending" /\ proxier[x].ch = c
  \/ \E id \in StreamIds : e = <<"revoke", id>> /\ teardown[id] = "report" /\ cut[id] = c

Tasks == Pushers \cup Proxiers

SameStarters == \A t \in Tasks : \A c : Starting(t, c)' <=> Starting(t, c)
SameEnders   == \A e, c : Ender(e, c)' <=> Ender(e, c)

Removal(id, e) ==
  /\ Remove(id)
  /\ SameStarters
  /\ \A f, c : Ender(f, c)' <=> Ender(f, c) \/ (Exists(id) /\ f = e /\ c = streams[id])

Insertion(id, t) ==
  /\ Insert(id, t)
  /\ SameEnders
  /\ \A u \in Tasks : \A c :
       Starting(u, c)' <=> Starting(u, c) \/ (u = t /\ c = created + 1)

Announcement(t, c) ==
  /\ Starting(t, c) /\ EmitStarted(c)
  /\ SameEnders
  /\ \A u \in Tasks : \A d : Starting(u, d)' <=> Starting(u, d) /\ u # t

Obituary(e, c) ==
  /\ Ender(e, c) /\ EmitEnded(c)
  /\ SameStarters
  /\ \A f, d : Ender(f, d)' <=> Ender(f, d) /\ f # e

Silent == UNCHANGED <<streams, created, maker, begun, ended>> /\ SameStarters /\ SameEnders

NewsStep ==
  \/ \E id \in StreamIds, e \in {"push", "proxy", "revoke"} \X (Tasks \cup StreamIds) :
       Removal(id, e)
  \/ \E id \in StreamIds, t \in Tasks : Insertion(id, t)
  \/ \E t \in Tasks, c \in Incarnations : Announcement(t, c)
  \/ \E e \in {"push", "proxy", "revoke"} \X (Tasks \cup StreamIds), c \in Incarnations :
       Obituary(e, c)
  \/ Silent

\* The news after a step of one push session, one proxy, one teardown.
LEMMA PusherNews ==
  ASSUME TypeInv, NEW p \in Pushers,
         \A q \in Pushers \ {p} : pusher'[q] = pusher[q],
         UNCHANGED <<proxier, teardown, cut>>
  PROVE  /\ \A t \in Tasks : \A c :
              Starting(t, c)' <=> IF t = p
                                  THEN pusher'[p].pc = "starting" /\ pusher'[p].ch = c
                                  ELSE Starting(t, c)
         /\ \A c : Starting(p, c) <=> pusher[p].pc = "starting" /\ pusher[p].ch = c
         /\ \A e, c :
              Ender(e, c)' <=> IF e = <<"push", p>>
                               THEN pusher'[p].pc = "ending" /\ pusher'[p].ch = c
                               ELSE Ender(e, c)
         /\ \A c : Ender(<<"push", p>>, c) <=> pusher[p].pc = "ending" /\ pusher[p].ch = c
<1>1. p \notin Proxiers
  BY ConstantsAssumption DEF ConstantsAssumption
<1>2. \A t \in Tasks : \A c :
        Starting(t, c)' <=> IF t = p
                            THEN pusher'[p].pc = "starting" /\ pusher'[p].ch = c
                            ELSE Starting(t, c)
  BY <1>1 DEF Starting, Tasks
<1>3. \A c : Starting(p, c) <=> pusher[p].pc = "starting" /\ pusher[p].ch = c
  BY <1>1 DEF Starting
<1>4. \A e, c :
        Ender(e, c)' <=> IF e = <<"push", p>>
                         THEN pusher'[p].pc = "ending" /\ pusher'[p].ch = c
                         ELSE Ender(e, c)
  BY DEF Ender
<1>5. \A c : Ender(<<"push", p>>, c) <=> pusher[p].pc = "ending" /\ pusher[p].ch = c
  BY DEF Ender
<1> QED
  BY <1>2, <1>3, <1>4, <1>5

LEMMA ProxierNews ==
  ASSUME TypeInv, NEW x \in Proxiers,
         \A y \in Proxiers \ {x} : proxier'[y] = proxier[y],
         UNCHANGED <<pusher, teardown, cut>>
  PROVE  /\ \A t \in Tasks : \A c :
              Starting(t, c)' <=> IF t = x
                                  THEN proxier'[x].pc = "starting" /\ proxier'[x].ch = c
                                  ELSE Starting(t, c)
         /\ \A c : Starting(x, c) <=> proxier[x].pc = "starting" /\ proxier[x].ch = c
         /\ \A e, c :
              Ender(e, c)' <=> IF e = <<"proxy", x>>
                               THEN proxier'[x].pc = "ending" /\ proxier'[x].ch = c
                               ELSE Ender(e, c)
         /\ \A c : Ender(<<"proxy", x>>, c) <=> proxier[x].pc = "ending" /\ proxier[x].ch = c
<1>1. x \notin Pushers
  BY ConstantsAssumption DEF ConstantsAssumption
<1>2. \A t \in Tasks : \A c :
        Starting(t, c)' <=> IF t = x
                            THEN proxier'[x].pc = "starting" /\ proxier'[x].ch = c
                            ELSE Starting(t, c)
  BY <1>1 DEF Starting, Tasks
<1>3. \A c : Starting(x, c) <=> proxier[x].pc = "starting" /\ proxier[x].ch = c
  BY <1>1 DEF Starting
<1>4. \A e, c :
        Ender(e, c)' <=> IF e = <<"proxy", x>>
                         THEN proxier'[x].pc = "ending" /\ proxier'[x].ch = c
                         ELSE Ender(e, c)
  BY DEF Ender
<1>5. \A c : Ender(<<"proxy", x>>, c) <=> proxier[x].pc = "ending" /\ proxier[x].ch = c
  BY DEF Ender
<1> QED
  BY <1>2, <1>3, <1>4, <1>5

LEMMA TeardownNews ==
  ASSUME TypeInv, NEW id \in StreamIds,
         \A i \in StreamIds \ {id} : teardown'[i] = teardown[i] /\ cut'[i] = cut[i],
         UNCHANGED <<pusher, proxier>>
  PROVE  /\ SameStarters
         /\ \A e, c :
              Ender(e, c)' <=> IF e = <<"revoke", id>>
                               THEN teardown'[id] = "report" /\ cut'[id] = c
                               ELSE Ender(e, c)
         /\ \A c : Ender(<<"revoke", id>>, c) <=> teardown[id] = "report" /\ cut[id] = c
<1>1. SameStarters
  BY DEF SameStarters, Starting
<1>2. \A e, c :
        Ender(e, c)' <=> IF e = <<"revoke", id>>
                         THEN teardown'[id] = "report" /\ cut'[id] = c
                         ELSE Ender(e, c)
  BY DEF Ender
<1>3. \A c : Ender(<<"revoke", id>>, c) <=> teardown[id] = "report" /\ cut[id] = c
  BY DEF Ender
<1> QED
  BY <1>1, <1>2, <1>3

LEMMA PushNewsStep ==
  ASSUME TypeInv, NEW p \in Pushers, PushStep(p)
  PROVE  NewsStep
<1> DEFINE e == <<"push", p>>
<1>0. /\ pusher \in [Pushers -> PusherState]
      /\ p \in Tasks /\ e \in {"push", "proxy", "revoke"} \X (Tasks \cup StreamIds)
  BY DEF TypeInv, PusherOK, Tasks
<1>1. /\ \A q \in Pushers \ {p} : pusher'[q] = pusher[q]
      /\ UNCHANGED <<proxier, teardown, cut>>
  BY <1>0 DEF PushStep, PushHello, PushGate, PushLookup, PushInsert, PushAnnounce,
     PushFrame, PushBye, PushSilence, PushTimeout, PushExit, PushReport, kernelVars
<1>news. /\ \A t \in Tasks : \A c :
               Starting(t, c)' <=> IF t = p
                                   THEN pusher'[p].pc = "starting" /\ pusher'[p].ch = c
                                   ELSE Starting(t, c)
         /\ \A c : Starting(p, c) <=> pusher[p].pc = "starting" /\ pusher[p].ch = c
         /\ \A f, c : Ender(f, c)' <=> IF f = e
                                      THEN pusher'[p].pc = "ending" /\ pusher'[p].ch = c
                                      ELSE Ender(f, c)
         /\ \A c : Ender(e, c) <=> pusher[p].pc = "ending" /\ pusher[p].ch = c
  BY <1>1, PusherNews
<1> HIDE DEF e
<1>2. CASE PushInsert(p)
  <2>1. /\ pusher[p].pc = "insert" /\ pusher[p].want \in StreamIds
        /\ Insert(pusher[p].want, p)
        /\ pusher'[p].pc = "starting" /\ pusher'[p].ch = created + 1
    BY <1>0, <1>2 DEF PushInsert, TypeInv, PusherOK, PusherState
  <2>2. Insertion(pusher[p].want, p)
    BY <1>1, <2>1, <1>news DEF Insertion, SameEnders
  <2> QED
    BY <1>0, <2>1, <2>2 DEF NewsStep
<1>3. CASE PushAnnounce(p)
  <2>1. /\ pusher[p].pc = "starting" /\ pusher[p].ch \in Incarnations
        /\ EmitStarted(pusher[p].ch) /\ pusher'[p].pc = "streaming"
    BY <1>0, <1>3 DEF PushAnnounce, PusherState
  <2>2. Announcement(p, pusher[p].ch)
    BY <1>1, <2>1, <1>news DEF Announcement, SameEnders
  <2> QED
    BY <1>0, <2>1, <2>2 DEF NewsStep
<1>4. CASE PushBye(p) \/ PushTimeout(p)
  <2>1. /\ pusher[p].pc = "streaming" /\ pusher[p].id \in StreamIds
        /\ Remove(pusher[p].id)
        /\ IF Exists(pusher[p].id)
           THEN pusher'[p].pc = "ending" /\ pusher'[p].ch = streams[pusher[p].id]
           ELSE pusher'[p].pc = "idle"
    <3>1. /\ pusher[p].pc = "streaming" /\ PushExit(p)
          /\ pusher[p].pc = "streaming" => pusher[p].id \in StreamIds
      BY <1>4 DEF PushBye, PushTimeout, TypeInv, PusherOK
    <3>2. /\ Remove(pusher[p].id)
          /\ pusher'[p] = IF Exists(pusher[p].id)
                          THEN [pusher[p] EXCEPT !.pc = "ending", !.ch = streams[pusher[p].id]]
                          ELSE PusherIdle
      BY <1>0, <3>1 DEF PushExit, MustReport
    <3>3. pusher[p] \in PusherState
      BY <1>0
    <3> QED
      BY <3>1, <3>2, <3>3 DEF PusherState, PusherIdle
  <2>2. SameStarters
    BY <1>1, <2>1, <1>news DEF SameStarters
  <2>3. \A f, c : Ender(f, c)' <=>
          Ender(f, c) \/ (Exists(pusher[p].id) /\ f = e /\ c = streams[pusher[p].id])
    <3>1. /\ \A f, c : Ender(f, c)' <=> IF f = e
                                       THEN pusher'[p].pc = "ending" /\ pusher'[p].ch = c
                                       ELSE Ender(f, c)
          /\ \A c : ~Ender(e, c)
      BY <1>1, <2>1, <1>news
    <3>2. /\ pusher'[p].pc = "ending" <=> Exists(pusher[p].id)
          /\ Exists(pusher[p].id) => pusher'[p].ch = streams[pusher[p].id]
      BY <2>1
    <3> QED
      BY <3>1, <3>2
  <2>4. Removal(pusher[p].id, e)
    BY <2>1, <2>2, <2>3 DEF Removal
  <2> QED
    BY <1>0, <2>1, <2>4 DEF NewsStep
<1>5. CASE PushReport(p)
  <2>1. /\ pusher[p].pc = "ending" /\ pusher[p].ch \in Incarnations
        /\ EmitEnded(pusher[p].ch) /\ pusher'[p].pc = "idle"
    BY <1>0, <1>5 DEF PushReport, PusherState, PusherIdle
  <2>2. Obituary(e, pusher[p].ch)
    BY <1>1, <2>1, <1>news DEF Obituary, SameStarters
  <2> QED
    BY <1>0, <2>1, <2>2 DEF NewsStep
<1>6. CASE \/ \E id \in StreamIds : PushHello(p, id)
           \/ PushGate(p) \/ PushLookup(p) \/ PushSilence(p)
           \/ \E kind \in Kinds : PushFrame(p, kind)
  <2>1. /\ UNCHANGED <<streams, created, maker, begun, ended>>
        /\ pusher[p].pc \notin {"starting", "ending"}
        /\ pusher'[p].pc \notin {"starting", "ending"}
    <3>1. CASE \E id \in StreamIds : PushHello(p, id)
      BY <1>0, <3>1 DEF PushHello, PusherState, chanVars, eventVars
    <3>2. CASE PushGate(p) \/ PushLookup(p)
      BY <1>0, <3>2 DEF PushGate, PushLookup, PusherState, PusherIdle, chanVars, eventVars
    <3>3. CASE PushSilence(p) \/ \E kind \in Kinds : PushFrame(p, kind)
      BY <1>0, <3>3 DEF PushSilence, PushFrame, PusherState, chanVars, eventVars
    <3> QED
      BY <1>6, <3>1, <3>2, <3>3
  <2>2. Silent
    BY <1>1, <2>1, <1>news DEF Silent, SameStarters, SameEnders
  <2> QED
    BY <2>2 DEF NewsStep
<1> QED
  BY <1>2, <1>3, <1>4, <1>5, <1>6 DEF PushStep

LEMMA ProxyNewsStep ==
  ASSUME TypeInv, NEW x \in Proxiers, ProxyStep(x)
  PROVE  NewsStep
<1> DEFINE e == <<"proxy", x>>
<1>0. /\ proxier \in [Proxiers -> ProxierState]
      /\ x \in Tasks /\ e \in {"push", "proxy", "revoke"} \X (Tasks \cup StreamIds)
  BY DEF TypeInv, ProxierOK, Tasks
<1>1. /\ \A y \in Proxiers \ {x} : proxier'[y] = proxier[y]
      /\ UNCHANGED <<pusher, teardown, cut>>
  BY <1>0 DEF ProxyStep, ProxyCheck, ProxyInsert, ProxyAnnounce, ProxyFrame,
     ProxySilence, ProxyUnregister, ProxyRemove, ProxyReport, kernelVars
<1>news. /\ \A t \in Tasks : \A c :
               Starting(t, c)' <=> IF t = x
                                   THEN proxier'[x].pc = "starting" /\ proxier'[x].ch = c
                                   ELSE Starting(t, c)
         /\ \A c : Starting(x, c) <=> proxier[x].pc = "starting" /\ proxier[x].ch = c
         /\ \A f, c : Ender(f, c)' <=> IF f = e
                                      THEN proxier'[x].pc = "ending" /\ proxier'[x].ch = c
                                      ELSE Ender(f, c)
         /\ \A c : Ender(e, c) <=> proxier[x].pc = "ending" /\ proxier[x].ch = c
  BY <1>1, ProxierNews
<1> HIDE DEF e
<1>2. CASE ProxyInsert(x)
  <2>1. /\ proxier[x].pc = "locked" /\ proxier[x].id \in StreamIds
        /\ Insert(proxier[x].id, x)
        /\ proxier'[x].pc = "starting" /\ proxier'[x].ch = created + 1
    BY <1>0, <1>2 DEF ProxyInsert, TypeInv, ProxierOK, ProxierState
  <2>2. Insertion(proxier[x].id, x)
    BY <1>1, <2>1, <1>news DEF Insertion, SameEnders
  <2> QED
    BY <1>0, <2>1, <2>2 DEF NewsStep
<1>3. CASE ProxyAnnounce(x)
  <2>1. /\ proxier[x].pc = "starting" /\ proxier[x].ch \in Incarnations
        /\ EmitStarted(proxier[x].ch) /\ proxier'[x].pc = "running"
    BY <1>0, <1>3 DEF ProxyAnnounce, ProxierState
  <2>2. Announcement(x, proxier[x].ch)
    BY <1>1, <2>1, <1>news DEF Announcement, SameEnders
  <2> QED
    BY <1>0, <2>1, <2>2 DEF NewsStep
<1>4. CASE ProxyRemove(x)
  <2>1. /\ proxier[x].pc = "dropping" /\ proxier[x].id \in StreamIds
        /\ Remove(proxier[x].id)
        /\ IF Exists(proxier[x].id)
           THEN proxier'[x].pc = "ending" /\ proxier'[x].ch = streams[proxier[x].id]
           ELSE proxier'[x].pc = "idle"
    BY <1>0, <1>4 DEF ProxyRemove, MustReport, TypeInv, ProxierOK,
       ProxierState, ProxierIdle
  <2>2. SameStarters
    BY <1>1, <2>1, <1>news DEF SameStarters
  <2>3. \A f, c : Ender(f, c)' <=>
          Ender(f, c) \/ (Exists(proxier[x].id) /\ f = e /\ c = streams[proxier[x].id])
    <3>1. /\ \A f, c : Ender(f, c)' <=> IF f = e
                                       THEN proxier'[x].pc = "ending" /\ proxier'[x].ch = c
                                       ELSE Ender(f, c)
          /\ \A c : ~Ender(e, c)
      BY <1>1, <2>1, <1>news
    <3>2. /\ proxier'[x].pc = "ending" <=> Exists(proxier[x].id)
          /\ Exists(proxier[x].id) => proxier'[x].ch = streams[proxier[x].id]
      BY <2>1
    <3> QED
      BY <3>1, <3>2
  <2>4. Removal(proxier[x].id, e)
    BY <2>1, <2>2, <2>3 DEF Removal
  <2> QED
    BY <1>0, <2>1, <2>4 DEF NewsStep
<1>5. CASE ProxyReport(x)
  <2>1. /\ proxier[x].pc = "ending" /\ proxier[x].ch \in Incarnations
        /\ EmitEnded(proxier[x].ch) /\ proxier'[x].pc = "idle"
    BY <1>0, <1>5 DEF ProxyReport, ProxierState, ProxierIdle
  <2>2. Obituary(e, proxier[x].ch)
    BY <1>1, <2>1, <1>news DEF Obituary, SameStarters
  <2> QED
    BY <1>0, <2>1, <2>2 DEF NewsStep
<1>6. CASE ProxySilence(x) \/ \E kind \in Kinds : ProxyFrame(x, kind)
  <2>1. /\ UNCHANGED <<streams, created, maker, begun, ended>>
        /\ proxier'[x].pc = proxier[x].pc /\ proxier'[x].ch = proxier[x].ch
    BY <1>0, <1>6 DEF ProxySilence, ProxyFrame, ProxierState, chanVars, eventVars
  <2>2. SameStarters
    BY <1>1, <2>1, <1>news DEF SameStarters
  <2>3. SameEnders
    BY <1>1, <2>1, <1>news DEF SameEnders
  <2> QED
    BY <2>1, <2>2, <2>3 DEF NewsStep, Silent
<1>7. CASE ProxyUnregister(x) \/ \E id \in StreamIds : ProxyCheck(x, id)
  <2>1. /\ UNCHANGED <<streams, created, maker, begun, ended>>
        /\ proxier[x].pc \notin {"starting", "ending"}
        /\ proxier'[x].pc \notin {"starting", "ending"}
    BY <1>0, <1>7 DEF ProxyUnregister, ProxyCheck, ProxierState, chanVars, eventVars
  <2>2. Silent
    BY <1>1, <2>1, <1>news DEF Silent, SameStarters, SameEnders
  <2> QED
    BY <2>2 DEF NewsStep
<1> QED
  BY <1>2, <1>3, <1>4, <1>5, <1>6, <1>7 DEF ProxyStep

LEMMA KernelNewsStep ==
  ASSUME TypeInv, NEW id \in StreamIds, KernelStep(id)
  PROVE  NewsStep
<1> DEFINE e == <<"revoke", id>>
<1>0. /\ teardown \in [StreamIds -> {"none", "revoke", "cut", "report"}]
      /\ cut \in [StreamIds -> Incarnations]
      /\ e \in {"push", "proxy", "revoke"} \X (Tasks \cup StreamIds)
  BY DEF TypeInv, KernelOK
<1>1. /\ \A i \in StreamIds \ {id} : teardown'[i] = teardown[i] /\ cut'[i] = cut[i]
      /\ UNCHANGED <<pusher, proxier>>
  BY <1>0 DEF KernelStep, Authorize, IssueToken, TeardownSession,
     RevokeAuthorization, RevokeStream, RevokeReport
<1>news. /\ SameStarters
         /\ \A f, c : Ender(f, c)' <=> IF f = e
                                      THEN teardown'[id] = "report" /\ cut'[id] = c
                                      ELSE Ender(f, c)
         /\ \A c : Ender(e, c) <=> teardown[id] = "report" /\ cut[id] = c
  BY <1>1, TeardownNews
<1> HIDE DEF e
<1>2. CASE RevokeStream(id)
  <2>1. /\ teardown[id] = "cut" /\ Remove(id) /\ cut'[id] = streams[id]
        /\ teardown'[id] = IF Exists(id) THEN "report" ELSE "none"
    BY <1>0, <1>2 DEF RevokeStream, MustReport
  <2>2. Removal(id, e)
    BY <1>1, <2>1, <1>news DEF Removal
  <2> QED
    BY <1>0, <2>2 DEF NewsStep
<1>3. CASE RevokeReport(id)
  <2>1. /\ teardown[id] = "report" /\ cut[id] \in Incarnations
        /\ EmitEnded(cut[id]) /\ teardown'[id] = "none"
    BY <1>0, <1>3 DEF RevokeReport
  <2>2. Obituary(e, cut[id])
    BY <1>1, <2>1, <1>news DEF Obituary
  <2> QED
    BY <1>0, <2>1, <2>2 DEF NewsStep
<1>4. CASE Authorize(id) \/ IssueToken(id) \/ TeardownSession(id) \/ RevokeAuthorization(id)
  <2>1. /\ UNCHANGED <<streams, created, maker, begun, ended>>
        /\ teardown[id] # "report" /\ teardown'[id] # "report"
    BY <1>0, <1>4 DEF Authorize, IssueToken, TeardownSession, RevokeAuthorization,
       chanVars, eventVars
  <2>2. Silent
    BY <1>1, <2>1, <1>news DEF Silent, SameEnders
  <2> QED
    BY <2>2 DEF NewsStep
<1> QED
  BY <1>2, <1>3, <1>4 DEF KernelStep

LEMMA NextIsNewsStep ==
  ASSUME TypeInv, [Next]_vars
  PROVE  NewsStep
<1>1. ASSUME UNCHANGED <<streams, created, maker, begun, ended, pusher, proxier,
                         teardown, cut>>
      PROVE  NewsStep
  BY <1>1 DEF NewsStep, Silent, SameStarters, SameEnders, Starting, Ender
<1>2. ASSUME NEW w \in Watchers,
             WatchTask(w) \/ \E id \in StreamIds : WatchLookup(w, id)
      PROVE  NewsStep
  BY <1>1, <1>2 DEF WatchTask, WatchLookup, WatchSubscribe, WatchReplay,
     WatchReplayFails, WatchLag, WatchSkip, WatchDeliver, WatchDeliverFails,
     WatchClosed, WatchDrop, WatchCount, WatchReport, chanVars, eventVars, kernelVars
<1>3. CASE UNCHANGED vars
  BY <1>1, <1>3 DEF vars, chanVars, eventVars, kernelVars
<1> QED
  BY <1>2, <1>3, PushNewsStep, ProxyNewsStep, KernelNewsStep DEF Next

\* What makes EndedAtMostOnce inductive: the start of every stream has been
\* announced, once, or its maker is about to; a stream that somebody is about
\* to declare ended is out of the table, has not been declared so, and nobody
\* else is about to.
News ==
  /\ \A t \in Tasks : \A c : Starting(t, c) =>
       c \in Channels /\ c <= created /\ maker[c] = t /\ begun[c] = 0
  /\ \A c \in Channels :
       /\ c <= created => begun[c] = 1 \/ Starting(maker[c], c)
       /\ c > created => begun[c] = 0 /\ ended[c] = 0
       /\ ended[c] \in {0, 1}
       /\ ended[c] = 1 => \A id \in StreamIds : streams[id] # c
  /\ \A e, c : Ender(e, c) =>
       /\ c \in Channels /\ c <= created /\ ended[c] = 0
       /\ \A id \in StreamIds : streams[id] # c
  /\ \A e, f, c : Ender(e, c) /\ Ender(f, c) => e = f
  /\ \A i, j \in StreamIds : streams[i] = streams[j] /\ streams[i] # 0 => i = j
  /\ ended[0] = 0

\* A maker that is still to announce its stream, and stays so in a step.
LEMMA StillStarting ==
  ASSUME NEW c,
         \A u \in Tasks : u = maker[c] /\ Starting(u, c) => maker'[c] = u /\ Starting(u, c)'
  PROVE  Starting(maker[c], c) => Starting(maker[c], c)'
<1> SUFFICES ASSUME NEW u, u = maker[c], Starting(u, c)
             PROVE  Starting(maker[c], c)'
  OBVIOUS
<1>1. u \in Tasks
  BY DEF Starting, Tasks
<1>2. maker'[c] = u /\ Starting(u, c)'
  BY <1>1
<1> QED
  BY <1>2 DEF Starting

LEMMA NewsKept ==
  ASSUME TypeInv, News, [Next]_vars
  PROVE  News'
<1>0. /\ streams \in [StreamIds -> 0 .. MaxChannels] /\ created \in Nat
      /\ MaxChannels \in Nat
      /\ \A id \in StreamIds : streams[id] <= created /\ streams[id] \in Nat
      /\ begun \in [Incarnations -> Nat] /\ ended \in [Incarnations -> Nat]
      /\ maker \in [Channels -> Pushers \cup Proxiers \cup {NoId}]
  BY ConstantsAssumption DEF ConstantsAssumption, TypeInv, TableOK
<1>1. \A c : c \in Channels <=> c \in Incarnations /\ c # 0
  BY <1>0 DEF Channels, Incarnations
<1>2. \A c \in Incarnations : c \in Nat
  BY <1>0 DEF Incarnations
<1>3. ASSUME NEW id \in StreamIds, NEW e, Removal(id, e)
      PROVE  News'
  <2>1. /\ UNCHANGED <<created, maker, begun, ended>>
        /\ streams' = [streams EXCEPT ![id] = 0]
    BY <1>3 DEF Removal, Remove, chanVars
  <2>2. /\ \A t \in Tasks : \A c : Starting(t, c)' <=> Starting(t, c)
        /\ \A f, c : Ender(f, c)' <=>
             Ender(f, c) \/ (streams[id] # 0 /\ f = e /\ c = streams[id])
    BY <1>3 DEF Removal, SameStarters, Exists
  <2>3. streams[id] # 0 =>
          /\ streams[id] \in Channels /\ streams[id] <= created
          /\ ended[streams[id]] = 0
          /\ \A f : ~Ender(f, streams[id])
          /\ \A i \in StreamIds : i # id => streams[i] # streams[id]
    BY <1>0 DEF News, Channels
  <2>4. \A i \in StreamIds : streams'[i] = IF i = id THEN 0 ELSE streams[i]
    BY <1>0, <2>1
  <2>5. \A c \in Channels : c # 0
    BY <1>1
  <2>6. \A t \in Tasks : \A c : Starting(t, c)' =>
          c \in Channels /\ c <= created' /\ maker'[c] = t /\ begun'[c] = 0
    BY <2>1, <2>2 DEF News
  <2>7. ASSUME NEW c \in Channels
        PROVE  /\ c <= created' => begun'[c] = 1 \/ Starting(maker[c], c)'
               /\ c > created' => begun'[c] = 0 /\ ended'[c] = 0
               /\ ended'[c] \in {0, 1}
               /\ ended'[c] = 1 => \A i \in StreamIds : streams'[i] # c
    <3>1. \A u \in Tasks : u = maker[c] /\ Starting(u, c) => maker'[c] = u /\ Starting(u, c)'
      BY <2>1, <2>2
    <3>2. Starting(maker[c], c) => Starting(maker[c], c)'
      BY <3>1, StillStarting
    <3> QED
      BY <2>1, <2>4, <2>5, <3>2 DEF News
  <2>8. \A f, c : Ender(f, c)' =>
          /\ c \in Channels /\ c <= created' /\ ended'[c] = 0
          /\ \A i \in StreamIds : streams'[i] # c
    BY <2>1, <2>2, <2>3, <2>4, <2>5 DEF News
  <2>9. \A f, g, c : Ender(f, c)' /\ Ender(g, c)' => f = g
    BY <2>2, <2>3 DEF News
  <2>10. \A i, j \in StreamIds : streams'[i] = streams'[j] /\ streams'[i] # 0 => i = j
    BY <2>4 DEF News
  <2> QED
    BY <2>1, <2>6, <2>7, <2>8, <2>9, <2>10 DEF News
<1>4. ASSUME NEW id \in StreamIds, NEW t \in Tasks, Insertion(id, t)
      PROVE  News'
  <2>1. /\ created' = created + 1 /\ created + 1 \in Channels
        /\ streams' = [streams EXCEPT ![id] = created + 1]
        /\ maker' = [maker EXCEPT ![created + 1] = t]
        /\ UNCHANGED <<begun, ended>>
    BY <1>0, <1>4 DEF Insertion, Insert, Channels
  <2>2. /\ \A u \in Tasks : \A c :
             Starting(u, c)' <=> Starting(u, c) \/ (u = t /\ c = created + 1)
        /\ \A f, c : Ender(f, c)' <=> Ender(f, c)
    BY <1>4 DEF Insertion, SameEnders
  <2>3. \A i \in StreamIds : streams'[i] = IF i = id THEN created + 1 ELSE streams[i]
    BY <1>0, <2>1
  <2>4. \A c \in Channels : maker'[c] = IF c = created + 1 THEN t ELSE maker[c]
    BY <1>0, <2>1
  <2>5. begun[created + 1] = 0 /\ ended[created + 1] = 0
    BY <1>0, <2>1 DEF News
  <2>6. \A u \in Tasks : \A c : Starting(u, c)' =>
          c \in Channels /\ c <= created' /\ maker'[c] = u /\ begun'[c] = 0
    <3> SUFFICES ASSUME NEW u \in Tasks, NEW c, Starting(u, c)'
                 PROVE  c \in Channels /\ c <= created' /\ maker'[c] = u /\ begun'[c] = 0
      OBVIOUS
    <3>1. CASE Starting(u, c)
      <4>1. c \in Channels /\ c <= created /\ maker[c] = u /\ begun[c] = 0
        BY <3>1 DEF News
      <4>2. c \in Nat /\ c # created + 1 /\ c <= created + 1
        BY <1>0, <1>1, <1>2, <4>1
      <4> QED
        BY <2>1, <2>4, <4>1, <4>2
    <3>2. CASE u = t /\ c = created + 1
      BY <1>0, <2>1, <2>4, <2>5, <3>2
    <3> QED
      BY <2>2, <3>1, <3>2
  <2>7. ASSUME NEW c \in Channels
        PROVE  /\ c <= created' => begun'[c] = 1 \/ Starting(maker[c], c)'
               /\ c > created' => begun'[c] = 0 /\ ended'[c] = 0
               /\ ended'[c] \in {0, 1}
               /\ ended'[c] = 1 => \A i \in StreamIds : streams'[i] # c
    <3>0. c \in Nat
      BY <1>1, <1>2
    <3>1. CASE c = created + 1
      BY <1>0, <2>1, <2>2, <2>4, <2>5, <3>1
    <3>2. CASE c # created + 1
      <4>1. c <= created' <=> c <= created
        BY <1>0, <2>1, <3>0, <3>2
      <4>2. \A u \in Tasks : u = maker[c] /\ Starting(u, c) => maker'[c] = u /\ Starting(u, c)'
        BY <2>2, <2>4, <3>2
      <4>3. Starting(maker[c], c) => Starting(maker[c], c)'
        BY <4>2, StillStarting
      <4>4. c > created' => c > created
        BY <1>0, <2>1, <3>0
      <4> QED
        BY <2>1, <2>3, <3>2, <4>1, <4>2, <4>3, <4>4 DEF News
    <3> QED
      BY <3>1, <3>2
  <2>8. \A f, c : Ender(f, c)' =>
          /\ c \in Channels /\ c <= created' /\ ended'[c] = 0
          /\ \A i \in StreamIds : streams'[i] # c
    <3> SUFFICES ASSUME NEW f, NEW c, Ender(f, c)
                 PROVE  /\ c \in Channels /\ c <= created' /\ ended'[c] = 0
                        /\ \A i \in StreamIds : streams'[i] # c
      BY <2>2
    <3>1. /\ c \in Channels /\ c <= created /\ ended[c] = 0
          /\ \A i \in StreamIds : streams[i] # c
      BY DEF News
    <3>2. c \in Nat /\ c # created + 1 /\ c <= created + 1
      BY <1>0, <1>1, <1>2, <3>1
    <3> QED
      BY <2>1, <2>3, <3>1, <3>2
  <2>9. \A f, g, c : Ender(f, c)' /\ Ender(g, c)' => f = g
    BY <2>2 DEF News
  <2>10. \A i, j \in StreamIds : streams'[i] = streams'[j] /\ streams'[i] # 0 => i = j
    <3>1. \A i \in StreamIds : streams[i] # created + 1
      BY <1>0
    <3> QED
      BY <2>3, <3>1 DEF News
  <2> QED
    BY <2>1, <2>6, <2>7, <2>8, <2>9, <2>10 DEF News
<1>5. ASSUME NEW t \in Tasks, NEW c \in Incarnations, Announcement(t, c)
      PROVE  News'
  <2>1. /\ UNCHANGED <<streams, created, maker, ended>>
        /\ begun' = [begun EXCEPT ![c] = @ + 1]
    BY <1>5 DEF Announcement, EmitStarted, chanVars
  <2>2. /\ \A u \in Tasks : \A d : Starting(u, d)' <=> Starting(u, d) /\ u # t
        /\ \A f, d : Ender(f, d)' <=> Ender(f, d)
    BY <1>5 DEF Announcement, SameEnders
  <2>3. c \in Channels /\ c <= created /\ maker[c] = t /\ begun[c] = 0
    BY <1>5 DEF Announcement, News
  <2>4. \A d \in Channels : begun'[d] = IF d = c THEN 1 ELSE begun[d]
    BY <1>0, <1>1, <2>1, <2>3
  <2>5. \A u \in Tasks : \A d : Starting(u, d)' =>
          d \in Channels /\ d <= created' /\ maker'[d] = u /\ begun'[d] = 0
    BY <2>1, <2>2, <2>3, <2>4 DEF News
  <2>6. \A d : Starting(t, d) => d = c
    <3>1. \A d : t \in Pushers /\ Starting(t, d) => pusher[t].ch = d
      BY ConstantsAssumption DEF ConstantsAssumption, Starting
    <3>2. \A d : t \in Proxiers /\ Starting(t, d) => proxier[t].ch = d
      BY ConstantsAssumption DEF ConstantsAssumption, Starting
    <3> QED
      BY <1>5, <3>1, <3>2 DEF Announcement, Tasks
  <2>7. ASSUME NEW d \in Channels
        PROVE  /\ d <= created' => begun'[d] = 1 \/ Starting(maker[d], d)'
               /\ d > created' => begun'[d] = 0 /\ ended'[d] = 0
               /\ ended'[d] \in {0, 1}
               /\ ended'[d] = 1 => \A i \in StreamIds : streams'[i] # d
    <3>1. CASE d = c
      BY <1>0, <1>2, <2>1, <2>3, <2>4, <3>1 DEF News
    <3>2. CASE d # c
      <4>1. \A u \in Tasks : u = maker[d] /\ Starting(u, d) => maker'[d] = u /\ Starting(u, d)'
        BY <2>1, <2>2, <2>6, <3>2
      <4>2. Starting(maker[d], d) => Starting(maker[d], d)'
        BY <4>1, StillStarting
      <4> QED
        BY <2>1, <2>4, <3>2, <4>2 DEF News
    <3> QED
      BY <3>1, <3>2
  <2> QED
    BY <2>1, <2>2, <2>5, <2>7 DEF News
<1>6. ASSUME NEW e, NEW c \in Incarnations, Obituary(e, c)
      PROVE  News'
  <2>1. /\ UNCHANGED <<streams, created, maker, begun>>
        /\ ended' = [ended EXCEPT ![c] = @ + 1]
    BY <1>6 DEF Obituary, EmitEnded, chanVars
  <2>2. /\ \A u \in Tasks : \A d : Starting(u, d)' <=> Starting(u, d)
        /\ \A f, d : Ender(f, d)' <=> Ender(f, d) /\ f # e
    BY <1>6 DEF Obituary, SameStarters
  <2>3. /\ c \in Channels /\ c <= created /\ ended[c] = 0
        /\ \A i \in StreamIds : streams[i] # c
        /\ \A f : Ender(f, c) => f = e
    BY <1>6 DEF Obituary, News
  <2>4. \A d \in Incarnations : ended'[d] = IF d = c THEN 1 ELSE ended[d]
    BY <1>0, <2>1, <2>3
  <2>5. ended'[0] = 0
    BY <1>0, <1>1, <2>1, <2>3 DEF News, Incarnations
  <2>6. ASSUME NEW d \in Channels
        PROVE  /\ d <= created' => begun'[d] = 1 \/ Starting(maker[d], d)'
               /\ d > created' => begun'[d] = 0 /\ ended'[d] = 0
               /\ ended'[d] \in {0, 1}
               /\ ended'[d] = 1 => \A i \in StreamIds : streams'[i] # d
    <3>0. \A u \in Tasks : u = maker[d] /\ Starting(u, d) => maker'[d] = u /\ Starting(u, d)'
      BY <2>1, <2>2
    <3>1. Starting(maker[d], d) => Starting(maker[d], d)'
      BY <3>0, StillStarting
    <3>2. d \in Incarnations /\ d \in Nat
      BY <1>1, <1>2
    <3>3. ~(c > created)
      BY <1>0, <1>2, <2>3
    <3> QED
      BY <2>1, <2>3, <2>4, <3>1, <3>2, <3>3 DEF News
  <2>7. \A f, d : Ender(f, d)' =>
          /\ d \in Channels /\ d <= created' /\ ended'[d] = 0
          /\ \A i \in StreamIds : streams'[i] # d
    <3> SUFFICES ASSUME NEW f, NEW d, Ender(f, d), f # e
                 PROVE  /\ d \in Channels /\ d <= created' /\ ended'[d] = 0
                        /\ \A i \in StreamIds : streams'[i] # d
      BY <2>2
    <3>1. d # c /\ d \in Incarnations
      BY <1>1, <2>3 DEF News
    <3> QED
      BY <2>1, <2>4, <3>1 DEF News
  <2> QED
    BY <2>1, <2>2, <2>5, <2>6, <2>7 DEF News
<1>7. CASE Silent
  <2>1. /\ UNCHANGED <<streams, created, maker, begun, ended>>
        /\ \A t \in Tasks : \A c : Starting(t, c)' <=> Starting(t, c)
        /\ \A f, d : Ender(f, d)' <=> Ender(f, d)
    BY <1>7 DEF Silent, SameStarters, SameEnders
  <2>2. ASSUME NEW d \in Channels
        PROVE  Starting(maker[d], d) => Starting(maker[d], d)'
    <3>1. \A u \in Tasks : u = maker[d] /\ Starting(u, d) => maker'[d] = u /\ Starting(u, d)'
      BY <2>1
    <3> QED
      BY <3>1, StillStarting
  <2> QED
    BY <2>1, <2>2 DEF News
<1> QED
  BY <1>3, <1>4, <1>5, <1>6, <1>7, NextIsNewsStep DEF NewsStep

LEMMA NewsInit == Init => News
<1> SUFFICES ASSUME Init PROVE News
  OBVIOUS
<1>1. /\ \A p \in Pushers : pusher[p].pc = "idle"
      /\ \A x \in Proxiers : proxier[x].pc = "idle"
      /\ \A id \in StreamIds : teardown[id] = "none" /\ streams[id] = 0
  BY DEF Init, PusherIdle, ProxierIdle
<1>2. /\ \A t \in Tasks : \A c : ~Starting(t, c)
      /\ \A e, c : ~Ender(e, c)
  BY <1>1 DEF Starting, Ender
<1>3. \A c \in Incarnations : begun[c] = 0 /\ ended[c] = 0
  BY DEF Init
<1>4. /\ 0 \in Incarnations
      /\ \A c \in Channels : c \in Incarnations /\ c # 0 /\ ~(c <= created)
  BY ConstantsAssumption DEF ConstantsAssumption, Incarnations, Channels, Init
<1> QED
  BY <1>1, <1>2, <1>3, <1>4 DEF News

\* Each StreamEnded is about a stream that was removed, one for each at most,
\* whatever the number of tasks that race to remove it and to report it; and
\* its StreamStarted has been emitted or is on its way.
THEOREM EndedAtMostOnceHolds == Spec => []EndedAtMostOnce
<1>1. TypeInv /\ News => EndedAtMostOnce
  <2> SUFFICES ASSUME TypeInv, News PROVE EndedAtMostOnce
    OBVIOUS
  <2>1. \A c \in Channels : c \in Nat /\ created \in Nat
    BY ConstantsAssumption DEF ConstantsAssumption, Channels, TypeInv, TableOK
  <2>2. \A c \in Channels : ended[c] # 0 => ended[c] = 1 /\ c <= created
    BY <2>1 DEF News
  <2> QED
    BY <2>2 DEF News, EndedAtMostOnce
<1>2. TypeInv /\ News /\ [Next]_vars => News'
  BY NewsKept
<1> QED
  BY <1>1, <1>2, NewsInit, TypeInvInit, TypeInvStep, PTL DEF Spec

-----------------------------------------------------------------------------
(* The last watcher to leave is reported.  What makes it inductive is that *)
(* a channel belongs to one stream id, in the table and in every watcher:  *)
(* a watcher that leaves then never empties the channel of another id.     *)

Linked ==
  /\ \A i, j \in StreamIds : streams[i] = streams[j] /\ streams[i] # 0 => i = j
  /\ \A w \in Watchers : watcher[w].pc # "idle" =>
       /\ watcher[w].ch <= created
       /\ \A id \in StreamIds : streams[id] = watcher[w].ch => id = watcher[w].id

LEMMA LinkedStep ==
  ASSUME TypeInv, Linked, [Next]_vars
  PROVE  Linked'
<1> USE DEF Linked
<1>0. /\ streams \in [StreamIds -> 0 .. MaxChannels] /\ created \in Nat
      /\ \A id \in StreamIds : streams[id] <= created /\ streams[id] \in Nat
      /\ \A w \in Watchers : watcher[w].pc # "idle" => watcher[w].ch \in Nat \ {0}
  BY ConstantsAssumption
     DEF ConstantsAssumption, TypeInv, TableOK, WatcherOK, Channels
<1>1. ASSUME NEW id \in StreamIds, Remove(id), UNCHANGED watcher
      PROVE  Linked'
  <2>1. streams' = [streams EXCEPT ![id] = 0]
    BY <1>1 DEF Remove
  <2>2. created' = created /\ watcher' = watcher
    BY <1>1 DEF Remove, chanVars
  <2> QED
    BY <1>0, <2>1, <2>2
<1>2. ASSUME NEW id \in StreamIds, NEW t \in Pushers \cup Proxiers, Insert(id, t),
             UNCHANGED watcher
      PROVE  Linked'
  <2>1. streams' = [streams EXCEPT ![id] = created + 1] /\ created' = created + 1
    BY <1>2 DEF Insert
  <2> QED
    BY <1>0, <1>2, <2>1
<1>3. CASE UNCHANGED <<streams, created>>
  <2>1. CASE UNCHANGED watcher
    BY <1>3, <2>1
  <2>2. CASE \E w \in Watchers : WatchTask(w) \/ \E id \in StreamIds : WatchLookup(w, id)
    <3> PICK w \in Watchers : WatchTask(w) \/ \E id \in StreamIds : WatchLookup(w, id)
      BY <2>2
    <3>1. ASSUME NEW id \in StreamIds, WatchLookup(w, id)
          PROVE  Linked'
      <4>1. /\ streams[id] # 0
            /\ watcher'[w].ch = streams[id] /\ watcher'[w].id = id
            /\ \A v \in Watchers \ {w} : watcher'[v] = watcher[v]
        BY <3>1 DEF WatchLookup, Exists, TypeInv, WatcherOK
      <4> QED
        BY <1>0, <1>3, <4>1
    <3>2. CASE WatchTask(w)
      <4>1. /\ watcher[w].pc # "idle"
            /\ \A v \in Watchers \ {w} : watcher'[v] = watcher[v]
            /\ \/ watcher'[w].pc = "idle"
               \/ watcher'[w].ch = watcher[w].ch /\ watcher'[w].id = watcher[w].id
        BY <3>2 DEF WatchTask, WatchSubscribe, WatchReplay, WatchReplayFails,
           WatchLag, WatchSkip, WatchDeliver, WatchDeliverFails, WatchClosed,
           WatchDrop, WatchCount, WatchReport, CanReceive, WatcherIdle, TypeInv,
           WatcherOK, WatcherState
      <4> QED
        BY <1>0, <1>3, <4>1
    <3> QED
      BY <3>1, <3>2
  <2> QED
    BY <2>1, <2>2 DEF Next, PushStep, ProxyStep, KernelStep, vars, PushHello,
       PushGate, PushLookup, PushInsert, PushFrame, PushBye, PushSilence,
       PushTimeout, PushExit, PushAnnounce, PushReport, ProxyCheck, ProxyInsert, ProxyFrame, ProxySilence,
       ProxyUnregister, ProxyRemove, ProxyAnnounce, ProxyReport, Authorize, IssueToken, TeardownSession,
       RevokeAuthorization, RevokeStream, RevokeReport
<1> QED
  BY <1>1, <1>2, <1>3, NextIsTableStep DEF TableStep

Reporter(w, id) ==
  /\ watcher[w].id = id
  /\ \/ watcher[w].pc = "counting"
     \/ watcher[w].pc = "reporting" /\ watcher[w].none

LEMMA LeaveTableStep ==
  ASSUME TypeInv, LastLeaveReported, UNCHANGED watcher,
         \/ \E id \in StreamIds : Remove(id)
         \/ \E id \in StreamIds, t \in Pushers \cup Proxiers : Insert(id, t)
         \/ UNCHANGED <<streams, owed>>
  PROVE  LastLeaveReported'
<1> USE DEF LastLeaveReported, Receivers
<1>0. streams \in [StreamIds -> 0 .. MaxChannels] /\ owed \in [StreamIds -> BOOLEAN]
  BY DEF TypeInv, TableOK
<1>1. CASE UNCHANGED <<streams, owed>>
  BY <1>1
<1>2. ASSUME NEW i \in StreamIds, NEW c, streams' = [streams EXCEPT ![i] = c],
             owed' = [owed EXCEPT ![i] = FALSE]
      PROVE  LastLeaveReported'
  BY <1>0, <1>2
<1>3. ASSUME NEW i \in StreamIds, Remove(i)
      PROVE  LastLeaveReported'
  <2>1. CASE Exists(i)
    BY <1>2, <1>3, <2>1 DEF Remove
  <2>2. CASE ~Exists(i)
    <3>1. streams' = streams /\ owed' = owed
      BY <1>0, <1>3, <2>2 DEF Remove, Exists
    <3> QED
      BY <1>1, <3>1
  <2> QED
    BY <2>1, <2>2
<1>4. ASSUME NEW i \in StreamIds, NEW t \in Pushers \cup Proxiers, Insert(i, t)
      PROVE  LastLeaveReported'
  BY <1>2, <1>4 DEF Insert
<1> QED
  BY <1>1, <1>3, <1>4

LEMMA LeaveWatchStep ==
  ASSUME TypeInv, Linked, LastLeaveReported, NEW w \in Watchers,
         WatchTask(w) \/ \E id \in StreamIds : WatchLookup(w, id)
  PROVE  LastLeaveReported'
<1> DEFINE r == watcher[w]
<1>0. /\ watcher \in [Watchers -> WatcherState]
      /\ owed \in [StreamIds -> BOOLEAN]
      /\ r.pc # "idle" => r.id \in StreamIds /\ r.ch \in Channels
  BY DEF TypeInv, TableOK, WatcherOK
<1>1. /\ UNCHANGED streams
      /\ \A v \in Watchers \ {w} : watcher'[v] = watcher[v]
  BY <1>0 DEF WatchTask, WatchLookup, WatchSubscribe, WatchReplay,
     WatchReplayFails, WatchLag, WatchSkip, WatchDeliver, WatchDeliverFails,
     WatchClosed, WatchDrop, WatchCount, WatchReport, eventVars
<1> SUFFICES ASSUME NEW id \in StreamIds, owed'[id],
                    \A v \in Watchers : ~(watcher'[v].ch = streams[id] /\ watcher'[v].pc \in Subscribed)
             PROVE  \E v \in Watchers : Reporter(v, id)'
  BY <1>1 DEF LastLeaveReported, Receivers, Reporter
\* A step that gives up no receiver and reports nothing.
<1>2. ASSUME UNCHANGED owed,
             r.pc \in Subscribed => watcher'[w].pc \in Subscribed /\ watcher'[w].ch = r.ch,
             r.pc \notin {"counting", "reporting"}
      PROVE  \E v \in Watchers : Reporter(v, id)'
  <2>1. \A v \in Watchers : ~(watcher[v].ch = streams[id] /\ watcher[v].pc \in Subscribed)
    BY <1>1, <1>2
  <2>2. PICK v \in Watchers : Reporter(v, id)
    BY <1>2, <2>1 DEF LastLeaveReported, Receivers, Reporter
  <2>3. v # w
    BY <1>2, <2>2 DEF Reporter
  <2> QED
    BY <1>1, <2>2, <2>3 DEF Reporter
\* A step that gives up the receiver.
<1>3. ASSUME owed' = OwedAfterDrop(w), r.pc \in Subscribed, watcher'[w].id = r.id,
             \/ watcher'[w].pc = "counting"
             \/ watcher'[w].pc = "reporting" /\ watcher'[w].none
      PROVE  \E v \in Watchers : Reporter(v, id)'
  <2>1. CASE r.id = id
    BY <1>3, <2>1 DEF Reporter
  <2>2. CASE r.id # id
    <3>1. owed[id]
      BY <1>0, <1>3, <2>2 DEF OwedAfterDrop
    <3>2. r.ch # streams[id]
      BY <1>3, <2>2 DEF Linked, Subscribed
    <3>3. \A v \in Watchers : ~(watcher[v].ch = streams[id] /\ watcher[v].pc \in Subscribed)
      BY <1>1, <3>2
    <3>4. PICK v \in Watchers : Reporter(v, id)
      BY <3>1, <3>3 DEF LastLeaveReported, Receivers, Reporter
    <3>5. v # w
      BY <1>3, <3>4 DEF Reporter, Subscribed
    <3> QED
      BY <1>1, <3>4, <3>5 DEF Reporter
  <2> QED
    BY <2>1, <2>2
<1>4. ASSUME NEW i \in StreamIds, WatchLookup(w, i)
      PROVE  \E v \in Watchers : Reporter(v, id)'
  BY <1>0, <1>2, <1>4 DEF WatchLookup, Subscribed, eventVars
<1>5. CASE WatchSubscribe(w) \/ WatchReplay(w) \/ WatchLag(w) \/ WatchSkip(w)
           \/ WatchDeliver(w) \/ WatchDeliverFails(w) \/ WatchClosed(w)
  BY <1>0, <1>2, <1>5 DEF WatchSubscribe, WatchReplay, WatchLag, WatchSkip,
     WatchDeliver, WatchDeliverFails, WatchClosed, CanReceive, Subscribed, eventVars,
     WatcherState
<1>6. CASE WatchReplayFails(w)
  <2>1. watcher'[w].id = r.id /\ watcher'[w].pc = "reporting" /\ watcher'[w].none
    BY <1>0, <1>6 DEF WatchReplayFails, WatcherState
  <2> QED
    BY <1>3, <1>6, <2>1 DEF WatchReplayFails, Reporter, Subscribed
<1>7. CASE WatchDrop(w)
  <2>1. watcher'[w].id = r.id /\ watcher'[w].pc = "counting"
    BY <1>0, <1>7 DEF WatchDrop, WatcherState
  <2> QED
    BY <1>3, <1>7, <2>1 DEF WatchDrop, Reporter, Subscribed
\* A step of a watcher that has no receiver any more.
<1>8. ASSUME owed[id], r.pc \notin Subscribed, watcher'[w].pc \notin Subscribed,
             Reporter(w, id) => Reporter(w, id)'
      PROVE  \E v \in Watchers : Reporter(v, id)'
  <2>1. \A v \in Watchers : ~(watcher[v].ch = streams[id] /\ watcher[v].pc \in Subscribed)
    BY <1>1, <1>8
  <2>2. PICK v \in Watchers : Reporter(v, id)
    BY <1>8, <2>1 DEF LastLeaveReported, Receivers, Reporter
  <2> QED
    BY <1>1, <1>8, <2>2 DEF Reporter
<1>9. CASE WatchCount(w)
  <2>1. /\ r.pc = "counting" /\ owed' = owed
        /\ watcher'[w].id = r.id /\ watcher'[w].pc = "reporting"
        /\ watcher'[w].none = (streams[r.id] = 0 \/ Receivers(streams[r.id]) = {})
    BY <1>0, <1>9 DEF WatchCount, WatcherState, eventVars
  <2>2. ASSUME r.id = id PROVE Receivers(streams[r.id]) = {}
    BY <1>1, <2>1, <2>2 DEF Receivers, Subscribed
  <2>3. Reporter(w, id) => Reporter(w, id)'
    BY <2>1, <2>2 DEF Reporter
  <2> QED
    BY <1>8, <2>1, <2>3 DEF Subscribed
<1>10. CASE WatchReport(w)
  <2>1. /\ r.pc = "reporting" /\ watcher'[w].pc = "idle"
        /\ owed' = IF r.none THEN [owed EXCEPT ![r.id] = FALSE] ELSE owed
    BY <1>0, <1>10 DEF WatchReport, WatcherIdle
  <2>2. owed[id] /\ ~(r.none /\ r.id = id)
    BY <1>0, <2>1
  <2> QED
    BY <1>8, <2>1, <2>2 DEF Reporter, Subscribed
<1> QED
  BY <1>4, <1>5, <1>6, <1>7, <1>9, <1>10 DEF WatchTask

LEMMA LeaveStep ==
  ASSUME TypeInv, Linked, LastLeaveReported, [Next]_vars
  PROVE  LastLeaveReported'
<1>1. CASE \E w \in Watchers : WatchTask(w) \/ \E id \in StreamIds : WatchLookup(w, id)
  BY <1>1, LeaveWatchStep
<1>2. ASSUME NEW p \in Pushers, PushStep(p) PROVE LastLeaveReported'
  <2>1. pusher[p].pc = "streaming" => pusher[p].id \in StreamIds
    BY DEF TypeInv, PusherOK
  <2>2. pusher[p].pc = "insert" => pusher[p].want \in StreamIds
    BY DEF TypeInv, PusherOK
  <2>3. /\ UNCHANGED watcher
        /\ \/ \E id \in StreamIds : Remove(id)
           \/ \E id \in StreamIds, t \in Pushers \cup Proxiers : Insert(id, t)
           \/ UNCHANGED <<streams, owed>>
    BY <1>2, <2>1, <2>2 DEF PushStep, PushHello, PushGate, PushLookup, PushInsert,
       PushFrame, PushBye, PushSilence, PushTimeout, PushExit, PushAnnounce, PushReport,
       EmitStarted, EmitEnded, eventVars
  <2> QED
    BY <2>3, LeaveTableStep
<1>3. ASSUME NEW x \in Proxiers, ProxyStep(x) PROVE LastLeaveReported'
  <2>1. proxier[x].pc # "idle" => proxier[x].id \in StreamIds
    BY DEF TypeInv, ProxierOK
  <2>2. /\ UNCHANGED watcher
        /\ \/ \E id \in StreamIds : Remove(id)
           \/ \E id \in StreamIds, t \in Pushers \cup Proxiers : Insert(id, t)
           \/ UNCHANGED <<streams, owed>>
    BY <1>3, <2>1 DEF ProxyStep, ProxyCheck, ProxyInsert, ProxyFrame, ProxySilence,
       ProxyUnregister, ProxyRemove, ProxyAnnounce, ProxyReport,
       EmitStarted, EmitEnded, eventVars
  <2> QED
    BY <2>2, LeaveTableStep
<1>4. ASSUME NEW id \in StreamIds, KernelStep(id) PROVE LastLeaveReported'
  <2>1. UNCHANGED watcher /\ (Remove(id) \/ UNCHANGED <<streams, owed>>)
    BY <1>4 DEF KernelStep, Authorize, IssueToken, TeardownSession,
       RevokeAuthorization, RevokeStream, RevokeReport, EmitEnded, eventVars
  <2> QED
    BY <2>1, LeaveTableStep
<1>5. CASE UNCHANGED vars
  BY <1>5, LeaveTableStep DEF vars, eventVars
<1> QED
  BY <1>1, <1>2, <1>3, <1>4, <1>5 DEF Next

\* When the last watcher of a stream has left, a WatchersChanged(0) has been
\* emitted or is about to be, however joins, leaves, revocations and new
\* streams of the same id interleave.
THEOREM LastLeaveReportedHolds == Spec => []LastLeaveReported
<1>1. Init => Linked /\ LastLeaveReported
  BY DEF Init, Linked, LastLeaveReported, WatcherIdle
<1>2. TypeInv /\ Linked /\ LastLeaveReported /\ [Next]_vars
        => Linked' /\ LastLeaveReported'
  BY LinkedStep, LeaveStep
<1> QED
  BY <1>1, <1>2, TypeInvInit, TypeInvStep, PTL DEF Spec

-----------------------------------------------------------------------------
(* Frames reach a watcher in order.  The keyframe cloned with the entry is *)
(* never beyond the point where the subscription starts, and what was sent *)
(* is never beyond what was received.                                      *)

Ordered ==
  /\ \A c \in Channels : lastKey[c] <= Len(log[c])
  /\ \A w \in Watchers :
       /\ watcher[w].pc = "holding" => watcher[w].kf <= Len(log[watcher[w].ch])
       /\ watcher[w].pc = "joining" => watcher[w].kf <= watcher[w].pos
       /\ watcher[w].pc \in {"holding", "joining"} => watcher[w].sent = 0
       /\ watcher[w].pc = "live" => watcher[w].sent <= watcher[w].pos

\* What SentInOrder asserts of each step, for one watcher.
Advances(old, new) ==
  new.pc = "live" =>
    \/ new.sent > old.sent
    \/ new.sent = old.sent /\ (new.pos = old.pos \/ new.pos > old.sent)

LEMMA OrderedWatchStep ==
  ASSUME TypeInv, Ordered, NEW w \in Watchers,
         WatchTask(w) \/ \E id \in StreamIds : WatchLookup(w, id)
  PROVE  /\ Ordered'
         /\ Advances(watcher[w], watcher'[w])
<1> DEFINE r == watcher[w]
           c == r.ch
           Kept(v) ==
             /\ v.pc = "holding" => v.kf <= Len(log[v.ch])
             /\ v.pc = "joining" => v.kf <= v.pos
             /\ v.pc \in {"holding", "joining"} => v.sent = 0
             /\ v.pc = "live" => v.sent <= v.pos
<1>0. /\ watcher \in [Watchers -> WatcherState]
      /\ r \in WatcherState
      /\ r.kf \in Nat /\ r.pos \in Nat /\ r.sent \in Nat
      /\ r.pc # "idle" => c \in Channels /\ r.pos <= Len(log[c])
      /\ \A d \in Channels : Len(log[d]) \in Nat
      /\ Capacity \in Nat
  BY ConstantsAssumption
     DEF ConstantsAssumption, TypeInv, TableOK, WatcherOK, WatcherState
<1>1. /\ UNCHANGED <<streams, log, lastKey>>
      /\ \A v \in Watchers \ {w} : watcher'[v] = watcher[v]
  BY <1>0 DEF WatchTask, WatchLookup, WatchSubscribe, WatchReplay,
     WatchReplayFails, WatchLag, WatchSkip, WatchDeliver, WatchDeliverFails,
     WatchClosed, WatchDrop, WatchCount, WatchReport, chanVars
<1> SUFFICES Kept(watcher'[w]) /\ Advances(r, watcher'[w])
  BY <1>1 DEF Ordered
<1>2. ASSUME NEW id \in StreamIds, WatchLookup(w, id)
      PROVE  Kept(watcher'[w]) /\ Advances(r, watcher'[w])
  <2>1. streams[id] \in Channels
    BY <1>2, ConstantsAssumption
       DEF ConstantsAssumption, WatchLookup, Exists, TypeInv, TableOK, Channels
  <2>2. /\ watcher'[w].pc = "holding" /\ watcher'[w].ch = streams[id]
        /\ watcher'[w].kf = lastKey[streams[id]] /\ watcher'[w].sent = 0
    BY <1>0, <1>2 DEF WatchLookup
  <2> QED
    BY <2>1, <2>2 DEF Ordered, Advances
<1>3. CASE WatchSubscribe(w)
  <2>1. /\ r.pc = "holding" /\ watcher'[w].pc = "joining"
        /\ watcher'[w].pos = Len(log[c]) /\ watcher'[w].kf = r.kf
        /\ watcher'[w].sent = r.sent
    BY <1>0, <1>3 DEF WatchSubscribe, WatcherState
  <2> QED
    BY <2>1 DEF Ordered, Advances
<1>4. CASE WatchReplay(w)
  <2>1. /\ r.pc = "joining" /\ watcher'[w].pc = "live"
        /\ watcher'[w].pos = r.pos /\ watcher'[w].sent = r.kf
    BY <1>0, <1>4 DEF WatchReplay, WatcherState
  <2> QED
    BY <1>0, <2>1 DEF Ordered, Advances
<1>5. CASE WatchLag(w)
  <2>1. /\ r.pc = "live" /\ Len(log[c]) - r.pos > Capacity
        /\ watcher'[w].pc = "live" /\ watcher'[w].sent = r.sent
        /\ watcher'[w].pos = Len(log[c]) - Capacity
    BY <1>0, <1>5 DEF WatchLag, Behind, WatcherState
  <2>2. r.sent <= r.pos
    BY <2>1 DEF Ordered
  <2> QED
    BY <1>0, <2>1, <2>2 DEF Advances
<1>6. CASE WatchSkip(w)
  <2>1. /\ r.pc = "live" /\ watcher'[w].pc = "live"
        /\ watcher'[w].sent = r.sent /\ watcher'[w].pos = r.pos + 1
    BY <1>0, <1>6 DEF WatchSkip, CanReceive, WatcherState
  <2> QED
    BY <1>0, <2>1 DEF Ordered, Advances
<1>7. CASE WatchDeliver(w)
  <2>1. /\ r.pc = "live" /\ watcher'[w].pc = "live"
        /\ watcher'[w].sent = r.pos + 1 /\ watcher'[w].pos = r.pos + 1
    BY <1>0, <1>7 DEF WatchDeliver, CanReceive, WatcherState
  <2> QED
    BY <1>0, <2>1 DEF Ordered, Advances
<1>8. CASE \/ WatchReplayFails(w) \/ WatchDeliverFails(w) \/ WatchClosed(w)
           \/ WatchDrop(w) \/ WatchCount(w) \/ WatchReport(w)
  <2>1. watcher'[w].pc \in {"leaving", "counting", "reporting", "idle"}
    BY <1>0, <1>8 DEF WatchReplayFails, WatchDeliverFails, WatchClosed, WatchDrop,
       WatchCount, WatchReport, WatcherIdle, WatcherState
  <2> QED
    BY <2>1 DEF Advances
<1> QED
  BY <1>2, <1>3, <1>4, <1>5, <1>6, <1>7, <1>8 DEF WatchTask

\* A broadcast never shortens a log, and it caches positions inside the log.
LEMMA OrderedForward ==
  ASSUME TypeInv, Ordered, NEW id \in StreamIds, NEW kind \in Kinds,
         Forward(id, kind), UNCHANGED watcher
  PROVE  Ordered'
<1> DEFINE c == streams[id]
<1>0. /\ log \in [Channels -> Seq(FrameKinds)]
      /\ lastKey \in [Channels -> 0 .. MaxFrames]
      /\ \A d \in Channels : Len(log[d]) \in Nat /\ lastKey[d] \in Nat
      /\ kind \in FrameKinds
  BY ConstantsAssumption DEF ConstantsAssumption, TypeInv, TableOK
<1>1. CASE ~Exists(id)
  BY <1>1 DEF Forward, Ordered
<1>2. CASE Exists(id)
  <2>1. c \in Channels
    BY <1>2, ConstantsAssumption
       DEF ConstantsAssumption, Exists, TypeInv, TableOK, Channels
  <2>2. /\ log' = [log EXCEPT ![c] = Append(@, kind)]
        /\ \/ lastKey' = [lastKey EXCEPT ![c] = Len(log[c]) + 1]
           \/ lastKey' = lastKey
    BY <1>2 DEF Forward
  <2>3. Len(Append(log[c], kind)) = Len(log[c]) + 1
    BY <1>0, <2>1
  <2>4. \A d \in Channels : Len(log'[d]) = IF d = c THEN Len(log[c]) + 1 ELSE Len(log[d])
    BY <1>0, <2>1, <2>2, <2>3
  <2>5. \A d \in Channels : lastKey'[d] <= Len(log'[d])
    BY <1>0, <2>1, <2>2, <2>4 DEF Ordered
  <2>6. \A w \in Watchers : watcher[w].pc = "holding" =>
          watcher[w].ch \in Channels /\ watcher[w].kf \in Nat
    BY ConstantsAssumption DEF ConstantsAssumption, TypeInv, WatcherOK, WatcherState
  <2>7. \A d \in Channels : Len(log[d]) <= Len(log'[d])
    <3> TAKE d \in Channels
    <3>1. Len(log'[d]) \in {Len(log[d]), Len(log[d]) + 1} /\ Len(log[d]) \in Nat
      BY <1>0, <2>4
    <3> QED
      BY <3>1
  <2>8. \A w \in Watchers : watcher[w].pc = "holding" =>
          watcher[w].kf <= Len(log'[watcher[w].ch])
    <3> SUFFICES ASSUME NEW w \in Watchers, watcher[w].pc = "holding"
                 PROVE  watcher[w].kf <= Len(log'[watcher[w].ch])
      OBVIOUS
    <3> DEFINE d == watcher[w].ch
    <3>1. /\ d \in Channels /\ watcher[w].kf \in Nat
          /\ watcher[w].kf <= Len(log[d])
      BY <2>6 DEF Ordered
    <3>2. Len(log[d]) \in Nat /\ Len(log'[d]) \in Nat
      BY <1>0, <2>1, <2>4, <3>1
    <3> QED
      BY <2>7, <3>1, <3>2
  <2>9. watcher' = watcher
    OBVIOUS
  <2> QED
    BY <2>5, <2>8, <2>9 DEF Ordered
<1> QED
  BY <1>1, <1>2

\* The property of one step that SentInOrder asserts of all.
InOrder == \A w \in Watchers : Advances(watcher[w], watcher'[w])

LEMMA OrderedStep ==
  ASSUME TypeInv, Ordered, [Next]_vars
  PROVE  Ordered' /\ InOrder
<1> USE DEF InOrder, Advances
<1>1. CASE UNCHANGED <<log, lastKey, watcher>>
  BY <1>1 DEF Ordered
<1>2. CASE \E id \in StreamIds, kind \in Kinds : Forward(id, kind) /\ UNCHANGED watcher
  BY <1>2, OrderedForward
<1>3. ASSUME NEW w \in Watchers,
             WatchTask(w) \/ \E id \in StreamIds : WatchLookup(w, id)
      PROVE  Ordered' /\ InOrder
  <2>1. \A v \in Watchers \ {w} : watcher'[v] = watcher[v]
    BY <1>3 DEF WatchTask, WatchLookup, WatchSubscribe, WatchReplay,
       WatchReplayFails, WatchLag, WatchSkip, WatchDeliver, WatchDeliverFails,
       WatchClosed, WatchDrop, WatchCount, WatchReport, TypeInv, WatcherOK
  <2> QED
    BY <1>3, <2>1, OrderedWatchStep
<1>4. ASSUME NEW p \in Pushers, PushStep(p) PROVE Ordered' /\ InOrder
  <2>1. pusher[p].pc = "streaming" => pusher[p].id \in StreamIds
    BY DEF TypeInv, PusherOK
  <2>2. CASE \E kind \in Kinds : PushFrame(p, kind)
    BY <1>2, <2>1, <2>2 DEF PushFrame
  <2>3. CASE ~(\E kind \in Kinds : PushFrame(p, kind))
    <3>1. UNCHANGED <<log, lastKey, watcher>>
      BY <1>4, <2>3 DEF PushStep, PushHello, PushGate, PushLookup, PushInsert,
         PushBye, PushSilence, PushTimeout, PushExit, PushAnnounce, PushReport,
         Insert, Remove, EmitStarted, EmitEnded, chanVars
    <3> QED
      BY <1>1, <3>1
  <2> QED
    BY <2>2, <2>3
<1>5. ASSUME NEW x \in Proxiers, ProxyStep(x) PROVE Ordered' /\ InOrder
  <2>1. proxier[x].pc # "idle" => proxier[x].id \in StreamIds
    BY DEF TypeInv, ProxierOK
  <2> QED
    BY <1>1, <1>2, <1>5, <2>1 DEF ProxyStep, ProxyCheck, ProxyInsert, ProxyFrame,
       ProxySilence, ProxyUnregister, ProxyRemove, ProxyAnnounce, ProxyReport,
       Insert, Remove, EmitStarted, EmitEnded, chanVars
<1>6. ASSUME NEW id \in StreamIds, KernelStep(id) PROVE Ordered' /\ InOrder
  BY <1>1, <1>6 DEF KernelStep, Authorize, IssueToken, TeardownSession,
     RevokeAuthorization, RevokeStream, RevokeReport, Remove, EmitEnded, chanVars
<1>7. CASE UNCHANGED vars
  BY <1>1, <1>7 DEF vars, chanVars
<1> QED
  BY <1>3, <1>4, <1>5, <1>6, <1>7 DEF Next

LEMMA OrderedInit == Init => Ordered
<1> SUFFICES ASSUME Init PROVE Ordered
  OBVIOUS
<1>1. \A c \in Channels : lastKey[c] = 0 /\ log[c] = <<>> /\ Len(log[c]) = 0
  BY DEF Init
<1>2. \A w \in Watchers : watcher[w].pc = "idle"
  BY DEF Init, WatcherIdle
<1> QED
  BY <1>1, <1>2 DEF Ordered

\* Every frame a watcher is sent is newer than the one before it: the cached
\* keyframe replayed on joining is never repeated or overtaken.
THEOREM SentInOrderHolds == Spec => SentInOrder
<1>1. Init => Ordered
  BY OrderedInit
<1>2. TypeInv /\ Ordered /\ [Next]_vars => Ordered' /\ [InOrder]_vars
  BY OrderedStep
<1>3. Spec => [][InOrder]_vars
  BY <1>1, <1>2, TypeInvInit, TypeInvStep, PTL DEF Spec
<1> QED
  BY <1>3 DEF SentInOrder, InOrder, Advances

-----------------------------------------------------------------------------
(* No watcher is resumed in the middle of a group of pictures: video_started *)
(* tells that what was sent last is what was received last, or the keyframe  *)
(* from the cache, to which the frames between it and the subscription are   *)
(* missing.                                                                  *)

Contiguous(r) ==
  r.pc = "live" /\ r.started =>
    \/ r.sent = r.pos
    \/ r.kf # 0 /\ r.sent = r.kf

NoGap == \A w \in Watchers : Contiguous(watcher[w])

\* What NoSilentGap asserts of one step.
SentWithoutGap ==
  \A w \in Watchers :
    LET n == watcher'[w].sent IN
    Sends(w, "delta") => \/ watcher[w].sent = n - 1
                         \/ watcher[w].kf # 0 /\ watcher[w].sent = watcher[w].kf

LEMMA GapWatchStep ==
  ASSUME TypeInv, NoGap, NEW w \in Watchers,
         WatchTask(w) \/ \E id \in StreamIds : WatchLookup(w, id)
  PROVE  NoGap' /\ SentWithoutGap
<1> DEFINE r == watcher[w]
           c == r.ch
<1>0. /\ watcher \in [Watchers -> WatcherState]
      /\ r \in WatcherState
      /\ r.kf \in Nat /\ r.pos \in Nat /\ r.sent \in Nat
  BY ConstantsAssumption DEF ConstantsAssumption, TypeInv, WatcherOK, WatcherState
<1>1. \A v \in Watchers \ {w} : watcher'[v] = watcher[v]
  BY <1>0 DEF WatchTask, WatchLookup, WatchSubscribe, WatchReplay,
     WatchReplayFails, WatchLag, WatchSkip, WatchDeliver, WatchDeliverFails,
     WatchClosed, WatchDrop, WatchCount, WatchReport
<1> DEFINE new == watcher'[w]
           GapFree == Sends(w, "delta") => \/ r.sent = new.sent - 1
                                           \/ r.kf # 0 /\ r.sent = r.kf
<1>2. ASSUME Contiguous(new), GapFree PROVE NoGap' /\ SentWithoutGap
  <2>1. \A v \in Watchers \ {w} : Contiguous(watcher'[v]) /\ ~Sends(v, "delta")
    BY <1>1 DEF NoGap, Sends
  <2> QED
    BY <1>2, <2>1 DEF NoGap, SentWithoutGap, Contiguous
<1>3. Contiguous(r)
  BY DEF NoGap
<1>4. CASE WatchDeliver(w)
  <2> DEFINE kind == NextKind(w)
  <2>1. /\ r.pc = "live" /\ ~(kind = "delta" /\ ~r.started)
        /\ new.pc = "live" /\ new.pos = r.pos + 1 /\ new.sent = r.pos + 1
        /\ new.kf = r.kf
    BY <1>0, <1>4 DEF WatchDeliver, CanReceive, MustSkip, WatcherState
  <2>2. Contiguous(new)
    BY <2>1 DEF Contiguous
  <2>3. ASSUME Sends(w, "delta")
        PROVE  r.sent = new.sent - 1 \/ (r.kf # 0 /\ r.sent = r.kf)
    <3>1. kind = "delta"
      BY <2>1, <2>3 DEF Sends, NextKind
    <3>2. r.sent = r.pos \/ (r.kf # 0 /\ r.sent = r.kf)
      BY <1>3, <2>1, <3>1 DEF Contiguous
    <3> QED
      BY <1>0, <2>1, <3>2
  <2> QED
    BY <1>2, <2>2, <2>3
<1>5. CASE WatchReplay(w)
  <2>1. /\ r.pc = "joining" /\ new.pc = "live"
        /\ new.started = (r.kf # 0) /\ new.sent = r.kf /\ new.kf = r.kf
    BY <1>0, <1>5 DEF WatchReplay, WatcherState
  <2> QED
    BY <1>2, <2>1 DEF Contiguous, Sends
<1>6. CASE WatchLag(w)
  <2>1. new.started = FALSE /\ new.sent = r.sent
    BY <1>0, <1>6 DEF WatchLag, WatcherState
  <2> QED
    BY <1>2, <2>1 DEF Contiguous, Sends
<1>7. CASE WatchSkip(w)
  <2>1. ~r.started /\ new.started = r.started /\ new.sent = r.sent
    BY <1>0, <1>7 DEF WatchSkip, MustSkip, WatcherState
  <2> QED
    BY <1>2, <2>1 DEF Contiguous, Sends
<1>8. CASE \/ \E id \in StreamIds : WatchLookup(w, id)
           \/ WatchSubscribe(w) \/ WatchReplayFails(w) \/ WatchDeliverFails(w)
           \/ WatchClosed(w) \/ WatchDrop(w) \/ WatchCount(w) \/ WatchReport(w)
  <2>1. new.pc # "live"
    BY <1>0, <1>8 DEF WatchLookup, WatchSubscribe, WatchReplayFails,
       WatchDeliverFails, WatchClosed, WatchDrop, WatchCount, WatchReport,
       WatcherIdle, WatcherState
  <2> QED
    BY <1>2, <2>1 DEF Contiguous, Sends
<1> QED
  BY <1>4, <1>5, <1>6, <1>7, <1>8 DEF WatchTask

LEMMA GapStep ==
  ASSUME TypeInv, NoGap, [Next]_vars
  PROVE  NoGap' /\ SentWithoutGap
<1>1. ASSUME UNCHANGED watcher PROVE NoGap' /\ SentWithoutGap
  BY <1>1 DEF NoGap, Contiguous, SentWithoutGap, Sends
<1>2. ASSUME NEW w \in Watchers,
             WatchTask(w) \/ \E id \in StreamIds : WatchLookup(w, id)
      PROVE  NoGap' /\ SentWithoutGap
  BY <1>2, GapWatchStep
<1>3. ASSUME NEW p \in Pushers, PushStep(p) PROVE UNCHANGED watcher
  BY <1>3 DEF PushStep, PushHello, PushGate, PushLookup, PushInsert, PushFrame,
     PushBye, PushSilence, PushTimeout, PushExit, PushAnnounce, PushReport
<1>4. ASSUME NEW x \in Proxiers, ProxyStep(x) PROVE UNCHANGED watcher
  BY <1>4 DEF ProxyStep, ProxyCheck, ProxyInsert, ProxyFrame, ProxySilence,
     ProxyUnregister, ProxyRemove, ProxyAnnounce, ProxyReport
<1>5. ASSUME NEW id \in StreamIds, KernelStep(id) PROVE UNCHANGED watcher
  BY <1>5 DEF KernelStep, Authorize, IssueToken, TeardownSession,
     RevokeAuthorization, RevokeStream, RevokeReport
<1>6. ASSUME UNCHANGED vars PROVE UNCHANGED watcher
  BY <1>6 DEF vars
<1> QED
  BY <1>1, <1>2, <1>3, <1>4, <1>5, <1>6 DEF Next

\* A delta frame is sent only next to the frame before it, or after the cached
\* keyframe, for every capacity of the channel and every way to fall behind:
\* a watcher that lagged waits for a keyframe.
THEOREM NoSilentGapHolds == Spec => NoSilentGap
<1>1. Init => NoGap
  BY DEF Init, NoGap, Contiguous, WatcherIdle
<1>2. TypeInv /\ NoGap /\ [Next]_vars => NoGap' /\ [SentWithoutGap]_vars
  BY GapStep
<1>3. Spec => [][SentWithoutGap]_vars
  BY <1>1, <1>2, TypeInvInit, TypeInvStep, PTL DEF Spec
<1> QED
  BY <1>3 DEF NoSilentGap, SentWithoutGap

-----------------------------------------------------------------------------
(* No stream outlives its source.  A push session with a stream has sent   *)
(* its Hello; with one Hello per session it never turns to another stream. *)

Owned ==
  /\ EveryStreamOwned
  /\ \A p \in Pushers : pusher[p].pc # "idle" => pusher[p].hellos >= 1

\* An entry that the step leaves alone keeps its owner, when the tasks that
\* run for its id are left alone too.
LEMMA OwnedKept ==
  ASSUME TypeInv, EveryStreamOwned, NEW id \in StreamIds,
         streams[id] # 0, streams'[id] = streams[id],
         maker'[streams[id]] = maker[streams[id]],
         \A p \in Pushers :
           pusher[p].pc \in {"starting", "streaming"} /\ pusher[p].id = id =>
             pusher'[p].pc \in {"starting", "streaming"} /\ pusher'[p].id = id,
         \A x \in Proxiers :
           proxier[x].pc \in {"starting", "running", "dropping"} /\ proxier[x].id = id =>
             proxier'[x].pc \in {"starting", "running", "dropping"} /\ proxier'[x].id = id
  PROVE  RunsFor(maker[streams[id]], id)'
<1>1. RunsFor(maker[streams[id]], id)
  BY DEF EveryStreamOwned, Exists
<1> QED
  BY <1>1 DEF RunsFor

\* Removing an id, by a task that ran for no other id.
LEMMA OwnedRemove ==
  ASSUME TypeInv, EveryStreamOwned, NEW id \in StreamIds, Remove(id),
         maker' = maker,
         \A p \in Pushers : pusher'[p] = pusher[p] \/ pusher[p].id = id,
         \A x \in Proxiers : proxier'[x] = proxier[x] \/ proxier[x].id = id
  PROVE  EveryStreamOwned'
<1>1. streams \in [StreamIds -> 0 .. MaxChannels]
  BY DEF TypeInv, TableOK
<1>2. streams'[id] = 0 /\ \A i \in StreamIds \ {id} : streams'[i] = streams[i]
  BY <1>1 DEF Remove, Exists
<1>3. ASSUME NEW i \in StreamIds, streams'[i] # 0
      PROVE  RunsFor(maker[streams[i]], i)'
  <2>1. i # id /\ streams'[i] = streams[i] /\ streams[i] # 0
    BY <1>2, <1>3
  <2>2. \A p \in Pushers : pusher[p].id = i => pusher'[p] = pusher[p]
    BY <2>1
  <2>3. \A x \in Proxiers : proxier[x].id = i => proxier'[x] = proxier[x]
    BY <2>1
  <2> QED
    BY <2>1, <2>2, <2>3, OwnedKept
<1> QED
  BY <1>3 DEF EveryStreamOwned, Exists

\* Inserting an id, by a task that ran for none and runs for it now.
LEMMA OwnedInsert ==
  ASSUME TypeInv, EveryStreamOwned, NEW id \in StreamIds,
         NEW task \in Pushers \cup Proxiers, Insert(id, task),
         \A p \in Pushers : pusher'[p] = pusher[p] \/ pusher[p].pc \notin {"starting", "streaming"},
         \A x \in Proxiers : \/ proxier'[x] = proxier[x]
                             \/ proxier[x].pc \notin {"starting", "running", "dropping"},
         RunsFor(task, id)'
  PROVE  EveryStreamOwned'
<1>1. /\ streams \in [StreamIds -> 0 .. MaxChannels]
      /\ maker \in [Channels -> Pushers \cup Proxiers \cup {NoId}]
      /\ created \in Nat /\ created + 1 \in Channels
      /\ \A i \in StreamIds : streams[i] <= created /\ streams[i] \in Nat
  BY ConstantsAssumption DEF ConstantsAssumption, TypeInv, TableOK, Channels, Insert
<1>2. /\ streams' = [streams EXCEPT ![id] = created + 1]
      /\ maker' = [maker EXCEPT ![created + 1] = task]
  BY DEF Insert
<1>3. ASSUME NEW i \in StreamIds, streams'[i] # 0
      PROVE  RunsFor(maker[streams[i]], i)'
  <2>1. CASE i = id
    <3>1. maker'[streams'[i]] = task
      BY <1>1, <1>2, <2>1
    <3> QED
      BY <2>1, <3>1 DEF RunsFor
  <2>2. CASE i # id
    <3>1. streams'[i] = streams[i] /\ streams[i] # 0
      BY <1>1, <1>2, <1>3, <2>2
    <3>2. maker'[streams[i]] = maker[streams[i]]
      BY <1>1, <1>2, <3>1 DEF Channels
    <3> QED
      BY <3>1, <3>2, OwnedKept
  <2> QED
    BY <2>1, <2>2
<1> QED
  BY <1>3 DEF EveryStreamOwned, Exists

LEMMA OwnedStep ==
  ASSUME TypeInv, Owned, MaxHello <= 1, [Next]_vars
  PROVE  Owned'
<1>0. /\ EveryStreamOwned
      /\ \A p \in Pushers : pusher[p].hellos \in Nat
      /\ pusher \in [Pushers -> PusherState]
      /\ proxier \in [Proxiers -> ProxierState]
      /\ MaxHello \in Nat
  BY ConstantsAssumption
     DEF ConstantsAssumption, Owned, TypeInv, PusherOK, ProxierOK, PusherState
<1>1. ASSUME UNCHANGED <<streams, maker>>,
             \A p \in Pushers : pusher[p].pc \in {"starting", "streaming"} =>
               /\ pusher'[p].pc \in {"starting", "streaming"}
               /\ pusher'[p].id = pusher[p].id,
             \A x \in Proxiers : proxier[x].pc \in {"starting", "running", "dropping"} =>
               /\ proxier'[x].pc \in {"starting", "running", "dropping"}
               /\ proxier'[x].id = proxier[x].id
      PROVE  EveryStreamOwned'
  <2>1. ASSUME NEW i \in StreamIds, streams'[i] # 0
        PROVE  RunsFor(maker[streams[i]], i)'
    BY <1>0, <1>1, <2>1, OwnedKept
  <2> QED
    BY <2>1 DEF EveryStreamOwned, Exists
<1>2. ASSUME NEW p \in Pushers, PushStep(p) PROVE Owned'
  <2>0. \A q \in Pushers \ {p} : pusher'[q] = pusher[q]
    BY <1>0, <1>2 DEF PushStep, PushHello, PushGate, PushLookup, PushInsert,
       PushFrame, PushBye, PushSilence, PushTimeout, PushExit, PushAnnounce, PushReport
  <2>1. EveryStreamOwned'
    <3>1. CASE PushInsert(p)
      <4>1. /\ pusher[p].pc = "insert" /\ pusher[p].want \in StreamIds
            /\ Insert(pusher[p].want, p) /\ proxier' = proxier
        BY <3>1 DEF PushInsert, TypeInv, PusherOK
      <4>2. pusher'[p].pc = "starting" /\ pusher'[p].id = pusher[p].want
        BY <1>0, <3>1 DEF PushInsert, PusherState
      <4>3. PICK id \in StreamIds : id = pusher[p].want
        BY <4>1
      <4>4. RunsFor(p, id)'
        BY <4>2, <4>3 DEF RunsFor
      <4> QED
        BY <1>0, <2>0, <4>1, <4>3, <4>4, OwnedInsert
    <3>2. CASE PushBye(p) \/ PushTimeout(p)
      <4>1. /\ pusher[p].id \in StreamIds /\ Remove(pusher[p].id)
            /\ maker' = maker /\ proxier' = proxier
        BY <3>2 DEF PushBye, PushTimeout, PushExit, Remove, chanVars, TypeInv, PusherOK
      <4>2. PICK id \in StreamIds : id = pusher[p].id
        BY <4>1
      <4> QED
        BY <1>0, <2>0, <4>1, <4>2, OwnedRemove
    <3>3. CASE ~PushInsert(p) /\ ~PushBye(p) /\ ~PushTimeout(p)
      <4>1. UNCHANGED <<streams, maker, proxier>>
        BY <1>2, <3>3 DEF PushStep, PushHello, PushGate, PushLookup, PushFrame,
           PushSilence, PushAnnounce, PushReport, EmitStarted, EmitEnded, chanVars
      <4>2. pusher[p].pc \in {"starting", "streaming"} =>
              /\ pusher'[p].pc \in {"starting", "streaming"}
              /\ pusher'[p].id = pusher[p].id
        <5>1. ASSUME NEW id \in StreamIds, PushHello(p, id), pusher[p].pc \in {"starting", "streaming"}
              PROVE  FALSE
          <6>1. pusher[p].hellos < MaxHello /\ pusher[p].hellos >= 1
            BY <5>1 DEF PushHello, Owned
          <6> QED
            BY <1>0, <6>1
        <5>2. CASE PushSilence(p)
          <6>1. pusher' = [pusher EXCEPT ![p].silent = TRUE]
            BY <5>2 DEF PushSilence
          <6> QED
            BY <1>0, <6>1 DEF PusherState
        <5>3. CASE PushGate(p) \/ PushLookup(p) \/ PushReport(p)
                   \/ \E kind \in Kinds : PushFrame(p, kind)
          BY <5>3 DEF PushGate, PushLookup, PushReport, PushFrame
        <5>4. CASE PushAnnounce(p)
          BY <1>0, <5>4 DEF PushAnnounce, PusherState
        <5> QED
          BY <1>2, <3>3, <5>1, <5>2, <5>3, <5>4 DEF PushStep
      <4> QED
        BY <1>1, <2>0, <4>1, <4>2
    <3> QED
      BY <3>1, <3>2, <3>3
  <2>2. pusher'[p].pc # "idle" => pusher'[p].hellos >= 1
    <3>1. ASSUME NEW id \in StreamIds, PushHello(p, id)
          PROVE  pusher'[p].hellos >= 1
      <4>1. pusher'[p].hellos = pusher[p].hellos + 1
        BY <1>0, <3>1 DEF PushHello, PusherState
      <4> QED
        BY <1>0, <4>1
    <3>2. ASSUME \/ PushGate(p) \/ PushLookup(p) \/ PushInsert(p) \/ PushSilence(p)
                 \/ PushAnnounce(p) \/ PushReport(p)
                 \/ \E kind \in Kinds : PushFrame(p, kind)
          PROVE  pusher'[p].pc # "idle" =>
                   pusher'[p].hellos = pusher[p].hellos /\ pusher[p].pc # "idle"
      BY <1>0, <3>2 DEF PushGate, PushLookup, PushInsert, PushFrame, PushSilence,
         PushAnnounce, PushReport, PusherIdle, PusherState
    <3>3. CASE PushBye(p) \/ PushTimeout(p)
      <4>1. /\ pusher[p].pc # "idle"
            /\ pusher'[p].pc = "idle" \/ pusher'[p].hellos = pusher[p].hellos
        <5>1. pusher'[p] = IF Exists(pusher[p].id)
                           THEN [pusher[p] EXCEPT !.pc = "ending", !.ch = streams[pusher[p].id]]
                           ELSE PusherIdle
          BY <1>0, <3>3 DEF PushBye, PushTimeout, PushExit, MustReport
        <5>2. pusher[p] \in PusherState
          BY <1>0
        <5> QED
          BY <3>3, <5>1, <5>2 DEF PushBye, PushTimeout, PusherIdle, PusherState
      <4> QED
        BY <4>1 DEF Owned
    <3> QED
      BY <1>2, <3>1, <3>2, <3>3 DEF PushStep, Owned
  <2> QED
    BY <2>0, <2>1, <2>2 DEF Owned
<1>3. ASSUME NEW x \in Proxiers, ProxyStep(x) PROVE Owned'
  <2>0. /\ \A y \in Proxiers \ {x} : proxier'[y] = proxier[y]
        /\ pusher' = pusher
    BY <1>0, <1>3 DEF ProxyStep, ProxyCheck, ProxyInsert, ProxyFrame,
       ProxySilence, ProxyUnregister, ProxyRemove, ProxyAnnounce, ProxyReport
  <2>1. EveryStreamOwned'
    <3>1. CASE ProxyInsert(x)
      <4>1. /\ proxier[x].pc = "locked" /\ proxier[x].id \in StreamIds
            /\ Insert(proxier[x].id, x)
        BY <3>1 DEF ProxyInsert, TypeInv, ProxierOK
      <4>2. proxier'[x].pc = "starting" /\ proxier'[x].id = proxier[x].id
        BY <1>0, <3>1 DEF ProxyInsert, ProxierState
      <4>3. PICK id \in StreamIds : id = proxier[x].id
        BY <4>1
      <4>4. RunsFor(x, id)'
        BY <4>2, <4>3 DEF RunsFor
      <4> QED
        BY <1>0, <2>0, <4>1, <4>3, <4>4, OwnedInsert
    <3>2. CASE ProxyRemove(x)
      <4>1. /\ proxier[x].id \in StreamIds /\ Remove(proxier[x].id)
            /\ maker' = maker
        BY <3>2 DEF ProxyRemove, Remove, chanVars, TypeInv, ProxierOK
      <4>2. PICK id \in StreamIds : id = proxier[x].id
        BY <4>1
      <4> QED
        BY <1>0, <2>0, <4>1, <4>2, OwnedRemove
    <3>3. CASE ~ProxyInsert(x) /\ ~ProxyRemove(x)
      <4>1. UNCHANGED <<streams, maker>>
        BY <1>3, <3>3 DEF ProxyStep, ProxyCheck, ProxyFrame, ProxySilence,
           ProxyUnregister, ProxyAnnounce, ProxyReport, EmitStarted, EmitEnded, chanVars
      <4>2. proxier[x].pc \in {"starting", "running", "dropping"} =>
              /\ proxier'[x].pc \in {"starting", "running", "dropping"}
              /\ proxier'[x].id = proxier[x].id
        BY <1>0, <1>3, <3>3 DEF ProxyStep, ProxyCheck, ProxyFrame, ProxySilence,
           ProxyUnregister, ProxyAnnounce, ProxyReport, ProxierState
      <4> QED
        BY <1>1, <2>0, <4>1, <4>2
    <3> QED
      BY <3>1, <3>2, <3>3
  <2> QED
    BY <2>0, <2>1 DEF Owned
<1>4. ASSUME NEW w \in Watchers,
             WatchTask(w) \/ \E id \in StreamIds : WatchLookup(w, id)
      PROVE  Owned'
  <2>1. UNCHANGED <<streams, maker, pusher, proxier>>
    BY <1>4 DEF WatchTask, WatchLookup, WatchSubscribe, WatchReplay,
       WatchReplayFails, WatchLag, WatchSkip, WatchDeliver, WatchDeliverFails,
       WatchClosed, WatchDrop, WatchCount, WatchReport, chanVars
  <2> QED
    BY <1>1, <2>1 DEF Owned
<1>5. ASSUME NEW id \in StreamIds, KernelStep(id) PROVE Owned'
  <2>1. UNCHANGED <<maker, pusher, proxier>>
    BY <1>5 DEF KernelStep, Authorize, IssueToken, TeardownSession,
       RevokeAuthorization, RevokeStream, RevokeReport, Remove, EmitEnded, chanVars
  <2>2. CASE RevokeStream(id)
    BY <1>0, <2>1, <2>2, OwnedRemove DEF RevokeStream, Owned
  <2>3. CASE ~RevokeStream(id)
    <3>1. streams' = streams
      BY <1>5, <2>3 DEF KernelStep, Authorize, IssueToken, TeardownSession,
         RevokeAuthorization, RevokeReport, EmitEnded
    <3> QED
      BY <1>1, <2>1, <3>1 DEF Owned
  <2> QED
    BY <2>2, <2>3
<1>6. CASE UNCHANGED vars
  BY <1>1, <1>6 DEF vars, chanVars, Owned
<1> QED
  BY <1>2, <1>3, <1>4, <1>5, <1>6 DEF Next

\* No stream outlives the task that inserted it, when a push session sends at
\* most one Hello.
THEOREM EveryStreamOwnedHolds ==
  ASSUME MaxHello <= 1
  PROVE  Spec => []EveryStreamOwned
<1>1. Init => Owned
  BY DEF Init, Owned, EveryStreamOwned, Exists, PusherIdle
<1>2. TypeInv /\ Owned /\ [Next]_vars => Owned'
  BY OwnedStep
<1>3. Owned => EveryStreamOwned
  BY DEF Owned
<1> QED
  BY <1>1, <1>2, <1>3, TypeInvInit, TypeInvStep, PTL DEF Spec

-----------------------------------------------------------------------------
(* Relay implements StreamDirectory: its initial states are initial states *)
(* of the directory, and each of its steps is a step of the directory or   *)
(* leaves the directory as it is.  That stranded readers are let go is     *)
(* liveness, and checked by TLC only (KeepsDirectory).                     *)

\* The lengths of the logs and the seats, as the directory sees them.
Frames == [c \in Channels |-> Len(log[c])]
Seats  == [w \in Watchers |-> Seat(w)]

\* The announcements, as the directory counts them.
Starts == [c \in Channels |-> begun[c]]
Ends   == [c \in Channels |-> ended[c]]

DirectoryUnchanged ==
  UNCHANGED <<streams, created, Frames, Fresh, Gone, Starts, Ends, Seats>>

\* A step that leaves the directory as it is.
LEMMA DirectoryStutters ==
  ASSUME DirectoryUnchanged
  PROVE  UNCHANGED Directory!vars
BY DEF DirectoryUnchanged, Frames, Fresh, Gone, Starts, Ends, Seats,
       Directory!vars, Directory!news

\* Watchers that are left alone keep their seats.
LEMMA SeatsKept ==
  ASSUME UNCHANGED watcher
  PROVE  UNCHANGED Seats
BY DEF Seats, Seat

LEMMA FramesKept ==
  ASSUME UNCHANGED log
  PROVE  UNCHANGED Frames
BY DEF Frames

-----------------------------------------------------------------------------
(* The operations on the table, and the announcements that follow them,    *)
(* are the directory's.                                                    *)

\* The channels whose start is still to be announced, by the tasks that are
\* about to; and those whose end is.
LEMMA FreshAndGone ==
  ASSUME News
  PROVE  /\ Fresh = {c \in Channels : \E t \in Tasks : Starting(t, c)}
         /\ Gone = {c \in Channels : \E e : Ender(e, c)}
<1>1. ASSUME NEW c \in Channels
      PROVE  Starting(maker[c], c) <=> \E t \in Tasks : Starting(t, c)
  <2>1. Starting(maker[c], c) => maker[c] \in Tasks
    BY DEF Starting, Tasks
  <2>2. \A t \in Tasks : Starting(t, c) => t = maker[c]
    BY DEF News
  <2> QED
    BY <2>1, <2>2
<1>2. Gone = {c \in Channels : \E e : Ender(e, c)}
  BY DEF Gone, Ender
<1> QED
  BY <1>1, <1>2 DEF Fresh

LEMMA FreshAndGoneAfter ==
  ASSUME News'
  PROVE  /\ Fresh' = {c \in Channels : \E t \in Tasks : Starting(t, c)'}
         /\ Gone' = {c \in Channels : \E e : Ender(e, c)'}
<1>1. ASSUME NEW c \in Channels
      PROVE  Starting(maker[c], c)' <=> \E t \in Tasks : Starting(t, c)'
  <2>1. ASSUME NEW t, t = maker'[c]
        PROVE  Starting(maker[c], c)' <=> t \in Tasks /\ Starting(t, c)'
    BY <2>1 DEF Starting, Tasks
  <2>2. \A t \in Tasks : Starting(t, c)' => t = maker'[c]
    BY DEF News
  <2> QED
    BY <2>1, <2>2
<1>2. Gone' = {c \in Channels : \E e : Ender(e, c)'}
  BY DEF Gone, Ender
<1> QED
  BY <1>1, <1>2 DEF Fresh

\* A step that touches neither the announcements nor those who make them.
LEMMA NothingNew ==
  ASSUME UNCHANGED <<maker, begun, ended, pusher, proxier, teardown, cut>>
  PROVE  UNCHANGED <<Fresh, Gone, Starts, Ends>>
BY DEF Fresh, Starting, Gone, Starts, Ends

\* An insertion starts an incarnation.
LEMMA InsertStarts ==
  ASSUME TypeInv, News, News', NEW id \in StreamIds, NEW t \in Tasks,
         Insertion(id, t), UNCHANGED <<Frames, Seats>>
  PROVE  Directory!Start(id)
<1>1. /\ created' = created + 1 /\ created' \in Channels
      /\ streams' = [streams EXCEPT ![id] = created']
      /\ UNCHANGED <<begun, ended>>
  BY ConstantsAssumption
     DEF ConstantsAssumption, TypeInv, TableOK, Channels, Insertion, Insert
<1>2. Fresh' = Fresh \cup {created'}
  <2>1. \A c : (\E u \in Tasks : Starting(u, c)') <=>
                 (\E u \in Tasks : Starting(u, c)) \/ c = created'
    BY <1>1 DEF Insertion
  <2> QED
    BY <1>1, <2>1, FreshAndGone, FreshAndGoneAfter
<1>3. Gone' = Gone
  BY FreshAndGone, FreshAndGoneAfter DEF Insertion, SameEnders
<1>4. UNCHANGED <<Starts, Ends>>
  BY <1>1 DEF Starts, Ends
<1> QED
  BY <1>1, <1>2, <1>3, <1>4 DEF Directory!Start, Fresh, Gone, Starts, Ends, Frames, Seats

\* A removal ends the current one, if there is one.
LEMMA RemoveEnds ==
  ASSUME TypeInv, News, News', NEW id \in StreamIds, NEW e,
         Removal(id, e), UNCHANGED <<Frames, Seats>>
  PROVE  Directory!End(id) \/ DirectoryUnchanged
<1>1. /\ streams' = [streams EXCEPT ![id] = 0]
      /\ UNCHANGED <<created, begun, ended>>
      /\ streams \in [StreamIds -> 0 .. MaxChannels]
      /\ streams[id] # 0 => streams[id] \in Channels
  BY ConstantsAssumption
     DEF ConstantsAssumption, TypeInv, TableOK, Channels, Removal, Remove, chanVars
<1>2. Fresh' = Fresh
  BY FreshAndGone, FreshAndGoneAfter DEF Removal, SameStarters
<1>3. UNCHANGED <<Starts, Ends>>
  BY <1>1 DEF Starts, Ends
<1>4. \A c : (\E f : Ender(f, c)') <=>
               (\E f : Ender(f, c)) \/ (streams[id] # 0 /\ c = streams[id])
  BY DEF Removal, Exists
<1>5. CASE streams[id] # 0
  <2>1. Gone' = Gone \cup {streams[id]}
    <3>1. /\ Gone = {c \in Channels : \E f : Ender(f, c)}
          /\ Gone' = {c \in Channels : \E f : Ender(f, c)'}
      BY FreshAndGone, FreshAndGoneAfter
    <3>2. streams[id] \in Channels
      BY <1>1, <1>5
    <3> QED
      BY <1>4, <1>5, <3>1, <3>2
  <2> QED
    BY <1>1, <1>2, <1>3, <1>5, <2>1
       DEF Directory!End, Fresh, Gone, Starts, Ends, Frames, Seats
<1>6. CASE streams[id] = 0
  <2>1. Gone' = Gone
    BY <1>4, <1>6, FreshAndGone, FreshAndGoneAfter
  <2>2. streams' = streams
    BY <1>1, <1>6
  <2> QED
    BY <1>1, <1>2, <1>3, <2>1, <2>2 DEF DirectoryUnchanged
<1> QED
  BY <1>5, <1>6

LEMMA EventAnnouncesStart ==
  ASSUME TypeInv, News, News', NEW t \in Tasks, NEW c, Announcement(t, c),
         UNCHANGED <<Frames, Seats>>
  PROVE  c \in Channels /\ Directory!AnnounceStart(c)
<1>1. /\ begun' = [begun EXCEPT ![c] = @ + 1]
      /\ UNCHANGED <<streams, created, ended>>
      /\ begun \in [Incarnations -> Nat]
  BY DEF Announcement, EmitStarted, chanVars, TypeInv, TableOK
<1>2. c \in Channels /\ Starting(t, c)
  BY DEF Announcement, News
<1>3. \A d \in Channels : d \in Incarnations
  BY ConstantsAssumption DEF ConstantsAssumption, Channels, Incarnations
<1>4. c \in Fresh /\ Fresh' = Fresh \ {c}
  <2>1. \A u \in Tasks : Starting(u, c) => u = t
    BY <1>2 DEF News
  <2>2. \A d : Starting(t, d) => d = c
    <3>1. \A d : t \in Pushers /\ Starting(t, d) => pusher[t].ch = d
      BY ConstantsAssumption DEF ConstantsAssumption, Starting
    <3>2. \A d : t \in Proxiers /\ Starting(t, d) => proxier[t].ch = d
      BY ConstantsAssumption DEF ConstantsAssumption, Starting
    <3> QED
      BY <1>2, <3>1, <3>2 DEF Tasks
  <2>3. \A d : (\E u \in Tasks : Starting(u, d)') <=>
                 (\E u \in Tasks : Starting(u, d)) /\ d # c
    BY <1>2, <2>1, <2>2 DEF Announcement
  <2> QED
    BY <1>2, <2>3, FreshAndGone, FreshAndGoneAfter
<1>5. Gone' = Gone
  BY FreshAndGone, FreshAndGoneAfter DEF Announcement, SameEnders
<1>6. Starts' = [Starts EXCEPT ![c] = @ + 1] /\ Ends' = Ends
  BY <1>1, <1>2, <1>3 DEF Starts, Ends
<1> QED
  BY <1>1, <1>2, <1>4, <1>5, <1>6
     DEF Directory!AnnounceStart, Fresh, Gone, Starts, Ends, Frames, Seats

LEMMA EventAnnouncesEnd ==
  ASSUME TypeInv, News, News', NEW e, NEW c, Obituary(e, c),
         UNCHANGED <<Frames, Seats>>
  PROVE  c \in Channels /\ Directory!AnnounceEnd(c)
<1>1. /\ ended' = [ended EXCEPT ![c] = @ + 1]
      /\ UNCHANGED <<streams, created, begun>>
      /\ ended \in [Incarnations -> Nat]
  BY DEF Obituary, EmitEnded, chanVars, TypeInv, TableOK
<1>2. c \in Channels /\ Ender(e, c)
  BY DEF Obituary, News
<1>3. \A d \in Channels : d \in Incarnations
  BY ConstantsAssumption DEF ConstantsAssumption, Channels, Incarnations
<1>4. c \in Gone /\ Gone' = Gone \ {c}
  <2>1. \A f : Ender(f, c) => f = e
    BY <1>2 DEF News
  <2>2. \A d : Ender(e, d) => d = c
    BY <1>2 DEF Ender
  <2>3. \A d : (\E f : Ender(f, d)') <=> (\E f : Ender(f, d)) /\ d # c
    BY <1>2, <2>1, <2>2 DEF Obituary
  <2> QED
    BY <1>2, <2>3, FreshAndGone, FreshAndGoneAfter
<1>5. Fresh' = Fresh
  BY FreshAndGone, FreshAndGoneAfter DEF Obituary, SameStarters
<1>6. Ends' = [Ends EXCEPT ![c] = @ + 1] /\ Starts' = Starts
  BY <1>1, <1>2, <1>3 DEF Starts, Ends
<1> QED
  BY <1>1, <1>2, <1>4, <1>5, <1>6
     DEF Directory!AnnounceEnd, Fresh, Gone, Starts, Ends, Frames, Seats

\* A step of the relay that moves neither frames nor watchers.
LEMMA TableKeepsDirectory ==
  ASSUME TypeInv, News, News', [Next]_vars, UNCHANGED <<log, watcher>>
  PROVE  Directory!Next \/ DirectoryUnchanged
<1>1. UNCHANGED <<Frames, Seats>>
  BY SeatsKept, FramesKept
<1>2. ASSUME NEW id \in StreamIds, NEW e, Removal(id, e)
      PROVE  Directory!Next \/ DirectoryUnchanged
  BY <1>1, <1>2, RemoveEnds DEF Directory!Next
<1>3. ASSUME NEW id \in StreamIds, NEW t \in Tasks, Insertion(id, t)
      PROVE  Directory!Next
  BY <1>1, <1>3, InsertStarts DEF Directory!Next
<1>4. ASSUME NEW t \in Tasks, NEW c, Announcement(t, c) PROVE Directory!Next
  BY <1>1, <1>4, EventAnnouncesStart DEF Directory!Next, Channels
<1>5. ASSUME NEW e, NEW c, Obituary(e, c) PROVE Directory!Next
  BY <1>1, <1>5, EventAnnouncesEnd DEF Directory!Next, Channels
<1>6. CASE Silent
  <2>1. Fresh' = Fresh /\ Gone' = Gone
    BY <1>6, FreshAndGone, FreshAndGoneAfter DEF Silent, SameStarters, SameEnders
  <2>2. UNCHANGED <<streams, created, Starts, Ends>>
    BY <1>6 DEF Silent, Starts, Ends
  <2> QED
    BY <1>1, <2>1, <2>2 DEF DirectoryUnchanged
<1>7. NewsStep
  BY NextIsNewsStep
<1> QED
  BY <1>2, <1>3, <1>4, <1>5, <1>6, <1>7 DEF NewsStep

\* A broadcast publishes a frame on the current incarnation, if there is one.
LEMMA ForwardPublishes ==
  ASSUME TypeInv, NEW id \in StreamIds, NEW kind \in Kinds, Forward(id, kind),
         UNCHANGED <<streams, created, maker, eventVars, pusher, proxier, teardown,
                     cut, watcher>>
  PROVE  Directory!Publish(id) \/ DirectoryUnchanged
<1> DEFINE c == streams[id]
<1>1. UNCHANGED <<Seats, Fresh, Gone, Starts, Ends>>
  BY SeatsKept, NothingNew DEF eventVars
<1>2. CASE ~Exists(id)
  BY <1>1, <1>2, FramesKept DEF Forward, DirectoryUnchanged
<1>3. CASE Exists(id)
  <2>1. c \in Channels
    BY <1>3, ConstantsAssumption
       DEF ConstantsAssumption, Exists, TypeInv, TableOK, Channels
  <2>2. log \in [Channels -> Seq(FrameKinds)] /\ kind \in FrameKinds
    BY ConstantsAssumption DEF ConstantsAssumption, TypeInv, TableOK
  <2>3. log' = [log EXCEPT ![c] = Append(@, kind)]
    BY <1>3 DEF Forward
  <2>4. Len(Append(log[c], kind)) = Len(log[c]) + 1
    BY <2>1, <2>2
  <2>5. Frames' = [Frames EXCEPT ![c] = @ + 1]
    BY <2>1, <2>2, <2>3, <2>4 DEF Frames
  <2>6. Directory!Publish(id)
    BY <1>1, <1>3, <2>5 DEF Exists, Directory!Publish, Directory!news,
       Frames, Fresh, Gone, Starts, Ends, Seats
  <2> QED
    BY <2>6
<1> QED
  BY <1>2, <1>3

-----------------------------------------------------------------------------
(* A watch session is a reader.                                            *)

\* The seats after a step that changes one watcher.
LEMMA OneSeat ==
  ASSUME watcher \in [Watchers -> WatcherState], NEW w \in Watchers,
         \A v \in Watchers \ {w} : watcher'[v] = watcher[v]
  PROVE  Seats' = [Seats EXCEPT ![w] = Seat(w)']
BY DEF Seats, Seat

LEMMA WatchReads ==
  ASSUME TypeInv, Ordered, NEW w \in Watchers,
         WatchTask(w) \/ \E id \in StreamIds : WatchLookup(w, id)
  PROVE  Directory!Next \/ DirectoryUnchanged
<1> DEFINE r == watcher[w]
           c == r.ch
<1>0. /\ watcher \in [Watchers -> WatcherState]
      /\ r \in WatcherState
      /\ r.kf \in Nat /\ r.pos \in Nat /\ r.sent \in Nat /\ Capacity \in Nat
      /\ r.pc # "idle" => c \in Channels /\ c # 0 /\ r.pos <= Len(log[c])
      /\ \A d \in Channels : Len(log[d]) \in Nat
  <2>1. /\ watcher \in [Watchers -> WatcherState] /\ r \in WatcherState
        /\ \A d \in Channels : Len(log[d]) \in Nat
        /\ r.pc # "idle" => c \in Channels /\ r.pos <= Len(log[c])
    BY DEF TypeInv, TableOK, WatcherOK
  <2>2. /\ MaxFrames \in Nat /\ MaxChannels \in Nat /\ Capacity \in Nat
        /\ \A d \in Channels : d # 0
    BY ConstantsAssumption DEF ConstantsAssumption, Channels
  <2>3. r.kf \in 0 .. MaxFrames /\ r.pos \in 0 .. MaxFrames /\ r.sent \in 0 .. MaxFrames
    BY <2>1 DEF WatcherState
  <2> QED
    BY <2>1, <2>2, <2>3
<1>1. UNCHANGED <<streams, created, log, Fresh, Gone, Starts, Ends>>
  <2>1. UNCHANGED <<streams, created, log, maker, begun, ended, pusher, proxier,
                    teardown, cut>>
    BY DEF WatchTask, WatchLookup, WatchSubscribe, WatchReplay,
       WatchReplayFails, WatchLag, WatchSkip, WatchDeliver, WatchDeliverFails,
       WatchClosed, WatchDrop, WatchCount, WatchReport, chanVars, eventVars, kernelVars
  <2> QED
    BY <2>1, NothingNew
<1>2. \A v \in Watchers \ {w} : watcher'[v] = watcher[v]
  BY <1>0 DEF WatchTask, WatchLookup, WatchSubscribe, WatchReplay,
     WatchReplayFails, WatchLag, WatchSkip, WatchDeliver, WatchDeliverFails,
     WatchClosed, WatchDrop, WatchCount, WatchReport
<1>3. UNCHANGED Frames /\ Seats' = [Seats EXCEPT ![w] = Seat(w)']
  BY <1>0, <1>1, <1>2, FramesKept, OneSeat
<1>4. Seats[w] = Seat(w) /\ \A d \in Channels : Frames[d] = Len(log[d])
  BY DEF Seats, Frames
\* The seat is left as it is.
<1>5. ASSUME Seat(w)' = Seat(w) PROVE DirectoryUnchanged
  BY <1>1, <1>3, <1>5 DEF DirectoryUnchanged, Seats
\* A frame that was not given before is given.
<1>6. ASSUME NEW n \in Nat, r.pc # "idle", r.sent < n, n <= Len(log[c]),
             Seat(w)' = [on |-> c, last |-> n]
      PROVE  Directory!Next
  <2>1. Seats[w] = [on |-> c, last |-> r.sent]
    BY <1>4, <1>6 DEF Seat
  <2>2. Seats' = [Seats EXCEPT ![w].last = n]
    <3>1. [Seats[w] EXCEPT !.last = n] = [on |-> c, last |-> n]
      BY <2>1
    <3> QED
      BY <1>3, <1>6, <3>1
  <2>3. /\ c # 0 /\ n \in r.sent + 1 .. Frames[c] /\ n \in 1 .. Frames[c]
    BY <1>0, <1>4, <1>6
  <2>4. Directory!Give(w, n)
    BY <1>1, <1>3, <2>1, <2>2, <2>3 DEF Directory!Give, Directory!news,
       Seats, Frames, Fresh, Gone, Starts, Ends
  <2>5. Seats[w].on # 0 /\ n \in 1 .. Frames[Seats[w].on]
    BY <2>1, <2>3
  <2> QED
    BY <2>4, <2>5 DEF Directory!Next, Seats, Frames
<1>7. ASSUME NEW id \in StreamIds, WatchLookup(w, id) PROVE Directory!Next
  <2>1. /\ r.pc = "idle" /\ streams[id] # 0
        /\ Seat(w)' = [on |-> streams[id], last |-> 0]
    BY <1>0, <1>7 DEF WatchLookup, Exists, Seat
  <2>2. Seats[w] = [on |-> 0, last |-> 0]
    BY <1>4, <2>1 DEF Seat
  <2>3. Seats' = [Seats EXCEPT ![w].on = streams[id]]
    <3>1. [Seats[w] EXCEPT !.on = streams[id]] = [on |-> streams[id], last |-> 0]
      BY <2>2
    <3> QED
      BY <1>3, <2>1, <3>1
  <2>4. Directory!Attach(w, id)
    BY <1>1, <1>3, <2>1, <2>2, <2>3
       DEF Directory!Attach, Directory!Nobody, Directory!news, Seats, Frames,
           Fresh, Gone, Starts, Ends
  <2> QED
    BY <2>4 DEF Directory!Next
<1>8. CASE WatchReplay(w)
  <2>1. /\ r.pc = "joining" /\ r.sent = 0 /\ r.kf <= r.pos
        /\ watcher'[w].pc = "live" /\ watcher'[w].ch = c
        /\ watcher'[w].sent = r.kf
    BY <1>0, <1>8 DEF WatchReplay, Ordered, WatcherState
  <2>2. Seat(w)' = [on |-> c, last |-> r.kf] /\ Seat(w) = [on |-> c, last |-> 0]
    BY <2>1 DEF Seat
  <2>3. CASE r.kf = 0
    BY <1>5, <2>2, <2>3
  <2>4. CASE r.kf # 0
    <3>1. r.sent < r.kf /\ r.kf <= Len(log[c])
      BY <1>0, <2>1, <2>4
    <3> QED
      BY <1>0, <1>6, <2>1, <2>2, <3>1
  <2> QED
    BY <2>3, <2>4
<1>9. CASE WatchDeliver(w)
  <2>1. /\ r.pc = "live" /\ r.sent <= r.pos
        /\ Len(log[c]) - r.pos \in 1 .. Capacity
        /\ watcher'[w].pc = "live" /\ watcher'[w].ch = c
        /\ watcher'[w].sent = r.pos + 1
    BY <1>0, <1>9 DEF WatchDeliver, CanReceive, Behind, Ordered, WatcherState
  <2>2. Seat(w)' = [on |-> c, last |-> r.pos + 1]
    BY <2>1 DEF Seat
  <2>3. r.pos + 1 \in Nat /\ r.sent < r.pos + 1 /\ r.pos + 1 <= Len(log[c])
    BY <1>0, <2>1
  <2> QED
    BY <1>6, <2>1, <2>2, <2>3
<1>10. CASE WatchReport(w)
  <2>1. /\ r.pc # "idle" /\ watcher'[w].pc = "idle"
    BY <1>0, <1>10 DEF WatchReport, WatcherIdle
  <2>2. Seat(w)' = [on |-> 0, last |-> 0] /\ Seats[w].on # 0
    BY <1>0, <1>4, <2>1 DEF Seat
  <2>3. Directory!Leave(w)
    BY <1>1, <1>3, <2>2 DEF Directory!Leave, Directory!Nobody, Directory!news,
       Seats, Frames, Fresh, Gone, Starts, Ends
  <2> QED
    BY <2>3 DEF Directory!Next
<1>11. CASE \/ WatchSubscribe(w) \/ WatchReplayFails(w) \/ WatchLag(w)
            \/ WatchSkip(w) \/ WatchDeliverFails(w) \/ WatchClosed(w)
            \/ WatchDrop(w) \/ WatchCount(w)
  <2>1. /\ r.pc # "idle" /\ watcher'[w].pc # "idle"
        /\ watcher'[w].ch = c /\ watcher'[w].sent = r.sent
    BY <1>0, <1>11 DEF WatchSubscribe, WatchReplayFails, WatchLag, WatchSkip,
       WatchDeliverFails, WatchClosed, WatchDrop, WatchCount, CanReceive,
       WatcherState
  <2> QED
    BY <1>5, <2>1 DEF Seat
<1> QED
  BY <1>7, <1>8, <1>9, <1>10, <1>11 DEF WatchTask

-----------------------------------------------------------------------------
LEMMA StepKeepsDirectory ==
  ASSUME TypeInv, Ordered, News, News', [Next]_vars
  PROVE  [Directory!Next]_(Directory!vars)
<1>1. ASSUME NEW p \in Pushers, PushStep(p)
      PROVE  Directory!Next \/ DirectoryUnchanged
  <2>1. ASSUME NEW kind \in Kinds, PushFrame(p, kind)
        PROVE  Directory!Next \/ DirectoryUnchanged
    <3>1. PICK id \in StreamIds : id = pusher[p].id
      BY <2>1 DEF PushFrame, TypeInv, PusherOK
    <3>2. Directory!Publish(id) \/ DirectoryUnchanged
      BY <2>1, <3>1, ForwardPublishes DEF PushFrame, kernelVars
    <3> QED
      BY <3>2 DEF Directory!Next
  <2>2. CASE ~(\E kind \in Kinds : PushFrame(p, kind))
    <3>1. UNCHANGED <<log, watcher>>
      BY <1>1, <2>2 DEF PushStep, PushHello, PushGate, PushLookup, PushInsert,
         PushBye, PushSilence, PushTimeout, PushExit, PushAnnounce, PushReport,
         Insert, Remove, EmitStarted, EmitEnded, chanVars
    <3> QED
      BY <3>1, TableKeepsDirectory
  <2> QED
    BY <2>1, <2>2
<1>2. ASSUME NEW x \in Proxiers, ProxyStep(x)
      PROVE  Directory!Next \/ DirectoryUnchanged
  <2>1. ASSUME NEW kind \in Kinds, ProxyFrame(x, kind)
        PROVE  Directory!Next \/ DirectoryUnchanged
    <3>1. PICK id \in StreamIds : id = proxier[x].id
      BY <2>1 DEF ProxyFrame, TypeInv, ProxierOK
    <3>2. Directory!Publish(id) \/ DirectoryUnchanged
      BY <2>1, <3>1, ForwardPublishes DEF ProxyFrame, kernelVars
    <3> QED
      BY <3>2 DEF Directory!Next
  <2>2. CASE ~(\E kind \in Kinds : ProxyFrame(x, kind))
    <3>1. UNCHANGED <<log, watcher>>
      BY <1>2, <2>2 DEF ProxyStep, ProxyCheck, ProxyInsert, ProxySilence,
         ProxyUnregister, ProxyRemove, ProxyAnnounce, ProxyReport,
         Insert, Remove, EmitStarted, EmitEnded, chanVars
    <3> QED
      BY <3>1, TableKeepsDirectory
  <2> QED
    BY <2>1, <2>2
<1>3. ASSUME NEW w \in Watchers,
             WatchTask(w) \/ \E id \in StreamIds : WatchLookup(w, id)
      PROVE  Directory!Next \/ DirectoryUnchanged
  BY <1>3, WatchReads
<1>4. ASSUME NEW id \in StreamIds, KernelStep(id)
      PROVE  Directory!Next \/ DirectoryUnchanged
  <2>1. UNCHANGED <<log, watcher>>
    BY <1>4 DEF KernelStep, Authorize, IssueToken, TeardownSession,
       RevokeAuthorization, RevokeStream, RevokeReport, Remove, EmitEnded, chanVars
  <2> QED
    BY <2>1, TableKeepsDirectory
<1>5. ASSUME UNCHANGED vars PROVE Directory!Next \/ DirectoryUnchanged
  BY <1>5, TableKeepsDirectory DEF vars, chanVars
<1> QED
  BY <1>1, <1>2, <1>3, <1>4, <1>5, DirectoryStutters DEF Next

LEMMA InitKeepsDirectory == Init => Directory!Init
<1> SUFFICES ASSUME Init PROVE Directory!Init
  OBVIOUS
<1>1. Frames = [c \in 1 .. MaxChannels |-> 0]
  BY DEF Init, Frames, Channels
<1>2. Seats = [w \in Watchers |-> Directory!Nobody]
  BY DEF Init, Seats, Seat, WatcherIdle, Directory!Nobody
<1>3. Fresh = {} /\ Gone = {}
  BY DEF Init, Fresh, Gone, Starting, PusherIdle, ProxierIdle
<1>4. Starts = [c \in 1 .. MaxChannels |-> 0] /\ Ends = Starts
  BY ConstantsAssumption
     DEF ConstantsAssumption, Init, Starts, Ends, Channels, Incarnations
<1> QED
  BY <1>1, <1>2, <1>3, <1>4
     DEF Init, Directory!Init, Frames, Fresh, Gone, Starts, Ends, Seats

\* Whatever its tasks, channels, caches and timers do, and however many there
\* are, the relay behaves as the directory its users are promised: one current
\* stream per id, each reader fed from one incarnation, in order and at most
\* once, each start and each end announced once, after it happened.
THEOREM RefinesDirectory == Spec => Directory!Init /\ [][Directory!Next]_(Directory!vars)
<1>1. Init => TypeInv /\ Ordered /\ News /\ Directory!Init
  BY TypeInvInit, OrderedInit, NewsInit, InitKeepsDirectory
<1>2. TypeInv /\ Ordered /\ News /\ [Next]_vars
        => TypeInv' /\ Ordered' /\ News' /\ [Directory!Next]_(Directory!vars)
  BY TypeInvStep, OrderedStep, NewsKept, StepKeepsDirectory
<1> QED
  BY <1>1, <1>2, PTL DEF Spec

=============================================================================
