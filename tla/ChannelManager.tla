---------------------------- MODULE ChannelManager ----------------------------
(***************************************************************************)
(* The table of channel sessions of each node (stross-kernel,              *)
(* channel/manager.rs): connections are dialled and accepted, a new one    *)
(* replaces the one the table holds for the peer, the application closes   *)
(* and looks sessions up, and a receive loop closes the session it reads   *)
(* from when the connection ends (channel/session.rs).  What goes through  *)
(* a session is the subject of Channel; here a connection may jam, when    *)
(* both receive loops wait to answer over a connection that is full.       *)
(*                                                                         *)
(* There are two nodes, so the table of a node is one entry.  Each         *)
(* connection has a session at either end, and close is called on it by    *)
(* the table's owner (register_session, close_session) and by the receive  *)
(* loop.  The table's mutex is held while register_session and             *)
(* close_session await close, and close waits for the writing half of the  *)
(* connection and for room to tell the peer, then for the reading half,    *)
(* which the receive loop holds while it waits for a packet.               *)
(***************************************************************************)
EXTENDS Integers

CONSTANTS
  Devices,     \* the two devices
  MaxLinks,    \* bound: connections ever dialled
  MaxCloses,   \* bound: calls of close_session, of both devices together
  MaxLookups,  \* bound: calls of get_session or list_statuses
  Fragile,     \* the connections that may break
  Duplex,      \* the connections that both ends may fill
  Mortal       \* the devices that may vanish

ASSUME ManagerAssumption ==
  /\ \E a \in Devices : \E b \in Devices \ {a} : Devices = {a, b}
  /\ MaxLinks \in Nat /\ MaxCloses \in Nat /\ MaxLookups \in Nat
  /\ Fragile \subseteq 1 .. MaxLinks /\ Duplex \subseteq 1 .. MaxLinks
  /\ Mortal \subseteq Devices

Links == 1 .. MaxLinks
Ends == Links \X Devices
Other(n) == CHOOSE m \in Devices : m # n
Peer(e) == <<e[1], Other(e[2])>>
Closers == {"manager", "loop"}

\* The mutex of a table is free, or held by a call that closes this session.
Free == <<0, 0>>

VARIABLES
  dialled,   \* number of connections so far
  broken,    \* connections that were lost
  jammed,    \* connections where both receive loops wait to write
  fin,       \* ends that will read the end of their connection
  alive,     \* nodes that have not vanished
  reg,       \* end -> progress of register_session
  table,     \* node -> the connection of the entry, 0 when there is none
  lock,      \* node -> the mutex of the table
  closed,    \* ends whose flag is set
  close,     \* end -> closer -> progress of its call of close
  loop,      \* end -> the receive loop
  lookup,    \* nodes where a call of get_session waits for the mutex
  closes, lookups    \* numbers of such calls

link == <<dialled, broken, jammed, fin, alive>>
manager == <<reg, table, lock>>
session == <<closed, close, loop>>
calls == <<lookup, closes, lookups>>
managerVars == <<link, manager, session, calls>>

ManagerTypeOK ==
  /\ dialled \in 0 .. MaxLinks
  /\ broken \subseteq Links /\ jammed \subseteq Links
  /\ fin \subseteq Ends /\ closed \subseteq Ends
  /\ alive \subseteq Devices /\ lookup \subseteq Devices
  /\ reg \in [Ends -> {"none", "waiting", "replacing", "done"}]
  /\ table \in [Devices -> 0 .. MaxLinks]
  /\ lock \in [Devices -> Ends \cup {Free}]
  /\ close \in [Ends -> [Closers -> {"none", "send", "stream", "done"}]]
  /\ loop \in [Ends -> {"none", "recv", "ended"}]
  /\ closes \in 0 .. MaxCloses /\ lookups \in 0 .. MaxLookups

ManagerInit ==
  /\ dialled = 0 /\ broken = {} /\ jammed = {}
  /\ fin = {} /\ closed = {} /\ alive = Devices /\ lookup = {}
  /\ reg = [e \in Ends |-> "none"]
  /\ table = [n \in Devices |-> 0]
  /\ lock = [n \in Devices |-> Free]
  /\ close = [e \in Ends |-> [k \in Closers |-> "none"]]
  /\ loop = [e \in Ends |-> "none"]
  /\ closes = 0 /\ lookups = 0

-----------------------------------------------------------------------------
(* Connections.                                                            *)

\* The transport connects; what remains of connect_channel at the one end and
\* of ws_channel at the other is to register the session.
Dial ==
  /\ dialled < MaxLinks
  /\ alive = Devices
  /\ dialled' = dialled + 1
  /\ UNCHANGED <<broken, jammed, fin, alive, manager, session, calls>>

Break(c) ==
  /\ c \in Fragile \ broken
  /\ c <= dialled
  /\ broken' = broken \cup {c}
  /\ jammed' = jammed \ {c}
  /\ fin' = fin \cup {<<c, n>> : n \in Devices}
  /\ UNCHANGED <<dialled, alive, manager, session, calls>>

\* Both ends send files, and both receive loops come to answer when the
\* connection is full: neither will read again (Locked, in Channel).
Jam(c) ==
  /\ c \in Duplex \ (broken \cup jammed)
  /\ \A n \in Devices : loop[<<c, n>>] = "recv" /\ <<c, n>> \notin fin
  /\ jammed' = jammed \cup {c}
  /\ UNCHANGED <<dialled, broken, fin, alive, manager, session, calls>>

\* The device is gone, without a word to its peer.
Vanish(n) ==
  /\ n \in Mortal
  /\ alive = Devices
  /\ alive' = alive \ {n}
  /\ UNCHANGED <<dialled, broken, jammed, fin, manager, session, calls>>

-----------------------------------------------------------------------------
(* close: only the first call does anything.  It ends the connection for   *)
(* the peer, then takes the reading half.                                  *)

BeginClose(e, k) ==
  IF e \in closed
  THEN UNCHANGED <<closed, close>>
  ELSE /\ closed' = closed \cup {e}
       /\ close' = [close EXCEPT ![e][k] = "send"]

\* Mutant: the reading half is waited for before the peer is told.
CloseTellsLate(e, k) ==
  /\ close[e][k] = "send"
  /\ e[1] \notin jammed
  /\ loop[e] # "recv"
  /\ close' = [close EXCEPT ![e][k] = "stream"]
  /\ fin' = fin \cup {Peer(e)}
  /\ UNCHANGED <<dialled, broken, jammed, alive, manager, closed, loop, calls>>

\* The writing half is free, unless the receive loop waits with it for room.
CloseTells(e, k) ==
  /\ close[e][k] = "send"
  /\ e[1] \notin jammed
  /\ close' = [close EXCEPT ![e][k] = "stream"]
  /\ fin' = fin \cup {Peer(e)}
  /\ UNCHANGED <<dialled, broken, jammed, alive, manager, closed, loop, calls>>

FinishClose(e, k) ==
  /\ close[e][k] = "stream"
  /\ loop[e] # "recv"
  /\ close' = [close EXCEPT ![e][k] = "done"]
  /\ UNCHANGED <<link, manager, closed, loop, calls>>

Returned(e, k) == close[e][k] \notin {"send", "stream"}

\* The receive loop reads the end of the connection.  Its session may be gone
\* (the loop has a weak reference), but only once it is closed.
TakeFin(e) ==
  /\ loop[e] = "recv"
  /\ e \in fin
  /\ loop' = [loop EXCEPT ![e] = "ended"]
  /\ BeginClose(e, "loop")
  /\ UNCHANGED <<link, manager, calls>>

-----------------------------------------------------------------------------
(* register_session.                                                       *)

\* The session is made, says Connected, and its receive loop is spawned before
\* the table is locked.
Create(e) ==
  /\ e[1] <= dialled
  /\ reg[e] = "none"
  /\ reg' = [reg EXCEPT ![e] = "waiting"]
  /\ loop' = [loop EXCEPT ![e] = "recv"]
  /\ UNCHANGED <<link, table, lock, closed, close, calls>>

\* Mutant of Register: the old session is dropped from the table, not closed.
RegisterDropsOld(e) ==
  /\ reg[e] = "waiting"
  /\ lock[e[2]] = Free
  /\ table' = [table EXCEPT ![e[2]] = e[1]]
  /\ reg' = [reg EXCEPT ![e] = "done"]
  /\ UNCHANGED <<link, lock, session, calls>>

\* The entry is replaced; the table stays locked while the old session closes.
Register(e) ==
  LET n == e[2]  old == <<table[n], n>> IN
  /\ reg[e] = "waiting"
  /\ lock[n] = Free
  /\ table' = [table EXCEPT ![n] = e[1]]
  /\ IF table[n] = 0
     THEN /\ reg' = [reg EXCEPT ![e] = "done"]
          /\ UNCHANGED <<lock, closed, close>>
     ELSE /\ reg' = [reg EXCEPT ![e] = "replacing"]
          /\ lock' = [lock EXCEPT ![n] = old]
          /\ BeginClose(old, "manager")
  /\ UNCHANGED <<link, loop, calls>>

Registered(e) ==
  LET n == e[2] IN
  /\ reg[e] = "replacing"
  /\ Returned(lock[n], "manager")
  /\ reg' = [reg EXCEPT ![e] = "done"]
  /\ lock' = [lock EXCEPT ![n] = Free]
  /\ UNCHANGED <<link, table, session, calls>>

-----------------------------------------------------------------------------
(* The other calls.                                                        *)

Replacing(n) == \E c \in Links : reg[<<c, n>>] = "replacing"

CloseSession(n) ==
  LET e == <<table[n], n>> IN
  /\ closes < MaxCloses
  /\ closes' = closes + 1
  /\ lock[n] = Free
  /\ table[n] # 0
  /\ table' = [table EXCEPT ![n] = 0]
  /\ lock' = [lock EXCEPT ![n] = e]
  /\ BeginClose(e, "manager")
  /\ UNCHANGED <<link, reg, loop, lookup, lookups>>

SessionClosed(n) ==
  /\ lock[n] # Free
  /\ ~Replacing(n)
  /\ Returned(lock[n], "manager")
  /\ lock' = [lock EXCEPT ![n] = Free]
  /\ UNCHANGED <<link, reg, table, session, calls>>

Lookup(n) ==
  /\ n \notin lookup
  /\ lookups < MaxLookups
  /\ lookups' = lookups + 1
  /\ lookup' = lookup \cup {n}
  /\ UNCHANGED <<link, manager, session, closes>>

\* get_session and list_statuses drop the entry of a session that is closed.
LookedUp(n) ==
  /\ n \in lookup
  /\ lock[n] = Free
  /\ table' = [table EXCEPT ![n] = IF <<@, n>> \in closed THEN 0 ELSE @]
  /\ lookup' = lookup \ {n}
  /\ UNCHANGED <<link, reg, lock, session, closes, lookups>>

-----------------------------------------------------------------------------
RegisterTask(e) == Create(e) \/ Register(e) \/ Registered(e)

CloseTask(e) == TakeFin(e) \/ \E k \in Closers : CloseTells(e, k) \/ FinishClose(e, k)

ManagerNext ==
  \/ Dial
  \/ \E c \in Links : Break(c) \/ Jam(c)
  \/ \E n \in Devices :
       \/ Vanish(n)
       \/ /\ n \in alive
          /\ \/ CloseSession(n) \/ SessionClosed(n) \/ Lookup(n) \/ LookedUp(n)
             \/ \E c \in Links : RegisterTask(<<c, n>>) \/ CloseTask(<<c, n>>)

\* The tasks of a node that is there run, and the mutex is handed on in order
\* (tokio's Mutex).  Nothing makes anyone dial, close or look up.
ManagerFairness ==
  \A n \in Devices :
    /\ WF_managerVars(n \in alive /\ SessionClosed(n))
    /\ SF_managerVars(n \in alive /\ LookedUp(n))
    /\ \A c \in Links : /\ WF_managerVars(n \in alive /\ Create(<<c, n>>))
                        /\ WF_managerVars(n \in alive /\ Registered(<<c, n>>))
                        /\ WF_managerVars(n \in alive /\ CloseTask(<<c, n>>))

ManagerSpec == ManagerInit /\ [][ManagerNext]_managerVars /\ ManagerFairness

-----------------------------------------------------------------------------
(* Properties.                                                             *)

\* A session that is open and registered is the one in the table: no session
\* goes on reading from a peer where no call can reach or close it, however
\* registrations, closings and lookups follow each other.
OpenIsListed ==
  \A e \in Ends : reg[e] \in {"replacing", "done"} /\ e \notin closed => table[e[2]] = e[1]

\* The mutex of n is held by a close that its connection holds up: the peer is
\* gone without a word, or neither end can write.
HeldUp(n) ==
  /\ lock[n] # Free
  /\ LET c == lock[n][1] IN c \notin broken /\ (c \in jammed \/ Other(n) \notin alive)

\* A lookup is answered: the table is not kept locked by a close that waits for
\* its own receive loop, since the peer has been told before and ends the
\* connection.  There is one way to wait for ever, and it takes the very
\* connection that is being closed under the mutex, and no other: it never
\* breaks, and is jammed or its other end gone.
LookupAnswered ==
  \A n \in Devices : n \in lookup ~> n \notin lookup \/ n \notin alive \/ []HeldUp(n)

\* A device that is there answers every lookup.  Does not hold, for the reason
\* just given: register_session and close_session await close under the mutex.
LookupAlwaysAnswered ==
  \A n \in Devices : n \in lookup ~> n \notin lookup \/ n \notin alive

\* What was begun has come to an end.
Settled ==
  \A e \in Ends : /\ e[1] <= dialled => reg[e] = "done"
                  /\ e \in closed \cup fin => loop[e] = "ended"

\* Two devices that have dialled each other, with no call of close_session and
\* no failure, have a channel ("dials /ws/channel of the peer's relay to
\* establish a full-duplex channel", connect_channel).  Does not hold: when the
\* dials cross, each end closes the connection that the other one keeps.
DialConnects ==
  dialled > 0 /\ closes = 0 /\ broken = {} /\ alive = Devices /\ Settled =>
    \E c \in 1 .. dialled : \A n \in Devices : <<c, n>> \notin closed

=============================================================================
