--------------------------- MODULE StreamDirectory ---------------------------
(***************************************************************************)
(* What a relay promises to those who use it, whatever its tasks do: under *)
(* each id there is at most one current stream; a reader is attached to    *)
(* one incarnation of a stream and gets a growing selection of its frames, *)
(* never one of another incarnation; the start and the end of a stream are *)
(* announced, once each, some time after they happened and in either       *)
(* order; and a reader of a stream that is gone is let go.  Relay          *)
(* implements it (RelayDirectory).                                         *)
(***************************************************************************)
EXTENDS Integers

CONSTANTS StreamIds, Readers,
          Last     \* bound: incarnations are numbered 1 .. Last

VARIABLES
  current,          \* stream id -> the incarnation that has it, 0 for none
  made,             \* number of incarnations so far
  frames,           \* incarnation -> number of frames published on it
  fresh, gone,      \* incarnations whose start, or end, is still to be announced
  started, ended,   \* incarnation -> announcements of its start, of its end
  seat              \* reader -> its incarnation and the last frame it was given

news == <<fresh, gone, started, ended>>
vars == <<current, made, frames, news, seat>>

Nobody == [on |-> 0, last |-> 0]

Init ==
  /\ current = [id \in StreamIds |-> 0]
  /\ made = 0
  /\ frames = [i \in 1 .. Last |-> 0]
  /\ fresh = {} /\ gone = {}
  /\ started = [i \in 1 .. Last |-> 0]
  /\ ended = started
  /\ seat = [r \in Readers |-> Nobody]

\* A new incarnation takes the id, from whichever had it.
Start(id) ==
  /\ made' = made + 1
  /\ current' = [current EXCEPT ![id] = made']
  /\ fresh' = fresh \cup {made'}
  /\ UNCHANGED <<frames, gone, started, ended, seat>>

End(id) ==
  /\ current[id] # 0
  /\ current' = [current EXCEPT ![id] = 0]
  /\ gone' = gone \cup {current[id]}
  /\ UNCHANGED <<made, frames, fresh, started, ended, seat>>

AnnounceStart(i) ==
  /\ i \in fresh
  /\ fresh' = fresh \ {i}
  /\ started' = [started EXCEPT ![i] = @ + 1]
  /\ UNCHANGED <<current, made, frames, gone, ended, seat>>

AnnounceEnd(i) ==
  /\ i \in gone
  /\ gone' = gone \ {i}
  /\ ended' = [ended EXCEPT ![i] = @ + 1]
  /\ UNCHANGED <<current, made, frames, fresh, started, seat>>

Publish(id) ==
  /\ current[id] # 0
  /\ frames' = [frames EXCEPT ![current[id]] = @ + 1]
  /\ UNCHANGED <<current, made, news, seat>>

Attach(r, id) ==
  /\ seat[r] = Nobody
  /\ current[id] # 0
  /\ seat' = [seat EXCEPT ![r].on = current[id]]
  /\ UNCHANGED <<current, made, frames, news>>

\* Frames may be passed over, never given twice or out of order.
Give(r, n) ==
  /\ seat[r].on # 0
  /\ n \in seat[r].last + 1 .. frames[seat[r].on]
  /\ seat' = [seat EXCEPT ![r].last = n]
  /\ UNCHANGED <<current, made, frames, news>>

Leave(r) ==
  /\ seat[r] # Nobody
  /\ seat' = [seat EXCEPT ![r] = Nobody]
  /\ UNCHANGED <<current, made, frames, news>>

Stranded(r) == seat[r].on # 0 /\ \A id \in StreamIds : current[id] # seat[r].on

Next ==
  \/ \E id \in StreamIds : Start(id) \/ End(id) \/ Publish(id)
  \/ \E i \in 1 .. Last : AnnounceStart(i) \/ AnnounceEnd(i)
  \/ \E r \in Readers :
       \/ \E id \in StreamIds : Attach(r, id)
       \/ seat[r].on # 0 /\ \E n \in 1 .. frames[seat[r].on] : Give(r, n)
       \/ Leave(r)

\* A reader whose stream has gone does not wait for ever, nor does anybody wait
\* for ever to be told of a start or an end.
Fairness ==
  /\ \A r \in Readers : WF_vars(Stranded(r) /\ Leave(r))
  /\ \A i \in 1 .. Last : WF_vars(AnnounceStart(i)) /\ WF_vars(AnnounceEnd(i))

Spec == Init /\ [][Next]_vars /\ Fairness

=============================================================================
