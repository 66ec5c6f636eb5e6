--------------------------- MODULE RelayDirectory ---------------------------
(***************************************************************************)
(* Relay implements StreamDirectory.  The incarnations are the broadcast   *)
(* channels; a watch session has its seat from the lookup that clones the  *)
(* entry until it has reported its departure, and the last frame it was    *)
(* given is the last one sent, the replayed keyframe included.  Between    *)
(* its step on the table and its event a task carries the channel that the *)
(* event is about.                                                         *)
(***************************************************************************)
EXTENDS Relay

Seat(w) == IF watcher[w].pc = "idle"
           THEN [on |-> 0, last |-> 0]
           ELSE [on |-> watcher[w].ch, last |-> watcher[w].sent]

\* The channels inserted, or removed, whose event is still to be emitted.
Fresh == {c \in Channels : Starting(maker[c], c)}

Gone ==
  {c \in Channels :
     \/ \E p \in Pushers : pusher[p].pc = "ending" /\ pusher[p].ch = c
     \/ \E x \in Proxiers : proxier[x].pc = "ending" /\ proxier[x].ch = c
     \/ \E id \in StreamIds : teardown[id] = "report" /\ cut[id] = c}

Directory == INSTANCE StreamDirectory
  WITH Readers <- Watchers,
       Last    <- MaxChannels,
       current <- streams,
       made    <- created,
       frames  <- [c \in Channels |-> Len(log[c])],
       fresh   <- Fresh,
       gone    <- Gone,
       started <- [c \in Channels |-> begun[c]],
       ended   <- [c \in Channels |-> ended[c]],
       seat    <- [w \in Watchers |-> Seat(w)]

\* However the table's tasks interleave, the relay keeps the promise of
\* StreamDirectory: one current stream per id, frames of one incarnation only,
\* in order and at most once, starts and ends announced once, though in either
\* order, and stranded readers let go.
KeepsDirectory == Directory!Spec

=============================================================================
