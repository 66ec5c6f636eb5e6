---------------------------- MODULE KernelProofs ----------------------------
(***************************************************************************)
(* Proofs about two tables of a node's kernel.                             *)
(*                                                                         *)
(* Negotiator: the requests that wait and the trust list, for every number *)
(* of devices, requests, answers and restarts.                             *)
(*                                                                         *)
(* ChannelManager: its variables keep their types, and a session that is   *)
(* open and registered is the one in the table.                            *)
(***************************************************************************)
EXTENDS Negotiator, ChannelManager, TLAPS

LEMMA IdleType == Idle \in UserState
<1>1. \E r \in Requests : TRUE
  BY ConstantsAssumption DEF ConstantsAssumption
<1>2. (CHOOSE r \in Requests : TRUE) \in Requests
  BY <1>1
<1> QED
  BY <1>2 DEF Idle, UserState

LEMMA TypeInit == Init => TypeOK
<1> SUFFICES ASSUME Init PROVE TypeOK
  OBVIOUS
<1>1. user \in [Users -> UserState]
  BY IdleType DEF Init
<1>2. restarts \in 0 .. MaxRestarts
  BY ConstantsAssumption DEF ConstantsAssumption, Init
<1>3. stale \in BOOLEAN
  BY Zenon DEF Init
<1> QED
  BY <1>1, <1>2, <1>3 DEF Init, TypeOK, HandlerSteps, Replies

\* A step of the handler of r: it touches neither the user's calls nor the
\* trust list.
LEMMA TypeHandler ==
  ASSUME TypeOK, NEW r \in Requests, Ask(r) \/ HandlerTask(r) \/ HangUp(r)
  PROVE  TypeOK'
<1>1. CASE Ask(r)
  BY <1>1 DEF Ask, Goto, TypeOK, HandlerSteps, requestVars, history
<1>2. CASE Decide(r)
  <2>1. Policy(r) \in {"grant", "insert", "reject"}
    BY DEF Policy, TypeOK
  <2> QED
    BY <1>2, <2>1 DEF Decide, Reply, Goto, TypeOK, HandlerSteps, Replies,
       requestVars, history
<1>3. CASE GrantAtOnce(r)
  BY <1>3 DEF GrantAtOnce, Reply, Goto, TypeOK, HandlerSteps, Replies,
     requestVars, history
<1>4. CASE InsertPending(r)
  BY <1>4 DEF InsertPending, Goto, TypeOK, HandlerSteps, requestVars, history
<1>5. CASE Answered(r)
  BY <1>5 DEF Answered, Reply, Goto, TypeOK, HandlerSteps, Replies,
     requestVars, history
<1>6. CASE TimerFires(r)
  BY <1>6 DEF TimerFires, Goto, TypeOK, HandlerSteps, requestVars, history
<1>7. CASE GiveUp(r)
  BY <1>7 DEF GiveUp, Reply, Goto, TypeOK, HandlerSteps, Replies,
     requestVars, history
<1>8. CASE HangUp(r)
  BY <1>8 DEF HangUp, Goto, TypeOK, HandlerSteps, requestVars, history
<1> QED
  BY <1>1, <1>2, <1>3, <1>4, <1>5, <1>6, <1>7, <1>8 DEF HandlerTask

\* A call of respond moves on.
LEMMA UserGotoType ==
  ASSUME TypeOK, NEW u \in Users, NEW from, NEW to, UserGoto(u, from, to),
         to \in {"idle", "remember", "open", "write", "grant", "send", "deny"}
  PROVE  user' \in [Users -> UserState]
<1>1. user \in [Users -> UserState]
  BY DEF TypeOK
<1>2. [user[u] EXCEPT !.pc = to] \in UserState
  BY <1>1 DEF UserState
<1> QED
  BY <1>1, <1>2 DEF UserGoto

LEMMA TypeUser ==
  ASSUME TypeOK, NEW u \in Users,
         UserTask(u) \/ \E r \in Requests : Respond(u, r)
  PROVE  TypeOK'
<1>0. /\ user \in [Users -> UserState]
      /\ user[u].req \in Requests
      /\ user[u].list \subseteq Nodes
      /\ asker[user[u].req] \in Nodes
  BY DEF TypeOK, UserState
<1>1. ASSUME NEW r \in Requests, Respond(u, r)
      PROVE  TypeOK'
  <2>1. \E entry \in UserState : user' = [user EXCEPT ![u] = entry]
    <3>1. CASE \E remember \in BOOLEAN :
                user' = [user EXCEPT ![u] = [pc |-> IF remember THEN "remember" ELSE "grant",
                                             req |-> r, remember |-> remember, list |-> {}]]
      BY <3>1 DEF UserState
    <3>2. CASE user' = [user EXCEPT ![u] = [pc |-> "deny", req |-> r, remember |-> FALSE,
                                            list |-> {}]]
      BY <3>2 DEF UserState
    <3> QED
      BY <1>1, <3>1, <3>2 DEF Respond
  <2> QED
    BY <1>0, <1>1, <2>1 DEF Respond, TypeOK, requestVars
<1>2. CASE Deny(u)
  BY <1>0, <1>2, UserGotoType DEF Deny, TypeOK, requestVars, history
<1>3. CASE Remember(u)
  <2>1. trust' \subseteq Nodes
    BY <1>0, <1>3 DEF Remember, TypeOK
  <2>2. /\ [user[u] EXCEPT !.pc = "open", !.list = trust'] \in UserState
        /\ user' = [user EXCEPT ![u] = [user[u] EXCEPT !.pc = "open", !.list = trust']]
    BY <1>0, <1>3, <2>1 DEF Remember, UserState
  <2> QED
    BY <1>0, <1>3, <2>1, <2>2 DEF Remember, TypeOK, requestVars
<1>4. CASE OpenTrust(u)
  BY <1>4, UserGotoType DEF OpenTrust, TypeOK, requestVars, history
<1>5. CASE WriteTrust(u)
  BY <1>0, <1>5, UserGotoType DEF WriteTrust, TypeOK, requestVars
<1>6. CASE WriteFails(u)
  BY <1>6, UserGotoType DEF WriteFails, TypeOK, requestVars
<1>7. CASE Grant(u)
  BY <1>0, <1>7, UserGotoType DEF Grant, TypeOK, requestVars, history
<1>8. CASE GrantFails(u)
  BY <1>0, <1>8, UserGotoType DEF GrantFails, TypeOK, requestVars, history
<1>9. CASE SendGrant(u)
  BY <1>0, <1>9, UserGotoType DEF SendGrant, TypeOK, requestVars, history
<1> QED
  BY <1>1, <1>2, <1>3, <1>4, <1>5, <1>6, <1>7, <1>8, <1>9 DEF UserTask

LEMMA TypeStep == TypeOK /\ [Next]_vars => TypeOK'
<1> SUFFICES ASSUME TypeOK, [Next]_vars PROVE TypeOK'
  OBVIOUS
<1>1. CASE Restart
  <2>1. user' \in [Users -> UserState]
    BY <1>1, IdleType DEF Restart
  <2>2. restarts' \in 0 .. MaxRestarts
    BY <1>1, ConstantsAssumption DEF ConstantsAssumption, Restart, TypeOK
  <2>3. stale' \in BOOLEAN
    BY <1>1, Zenon DEF Restart
  <2>4. handler' \in [Requests -> HandlerSteps]
    BY <1>1 DEF Restart, TypeOK, HandlerSteps
  <2> QED
    BY <1>1, <2>1, <2>2, <2>3, <2>4 DEF Restart, TypeOK, requestVars
<1>2. CASE UNCHANGED vars
  BY <1>2 DEF vars, requestVars, history, TypeOK
<1> QED
  BY <1>1, <1>2, TypeHandler, TypeUser DEF Next

\* Every variable keeps its type.
THEOREM TypeCorrect == Spec => []TypeOK
BY TypeInit, TypeStep, PTL DEF Spec
-----------------------------------------------------------------------------
(* Nobody is granted what was not allowed.  A request on its way to a      *)
(* grant is permitted already, one that waits for the user is for an       *)
(* endpoint to be confirmed, and the trust list, its file and what is      *)
(* about to be written to it hold only devices the user had remembered.    *)

AllowedInv ==
  /\ GrantedIsAllowed
  /\ \A r \in Requests : handler[r] = "grant" => Permitted(r)
  /\ \A r \in Requests : handler[r] = "insert" \/ r \in pending => target[r] = "confirm"
  /\ \A u \in Users :
       user[u].pc \in {"remember", "open", "write", "grant", "send"}
         => target[user[u].req] = "confirm" /\ user[u].req \in allowed
  /\ trust \subseteq remembered /\ disk \subseteq remembered
  /\ \A u \in Users : user[u].list \subseteq remembered

\* What is permitted stays permitted.
LEMMA PermittedStays ==
  ASSUME NEW r, Permitted(r), UNCHANGED requestVars,
         allowed \subseteq allowed', remembered \subseteq remembered'
  PROVE  Permitted(r)'
BY DEF Permitted, requestVars

LEMMA AllowedHandler ==
  ASSUME TypeOK, AllowedInv, NEW r \in Requests, Ask(r) \/ HandlerTask(r) \/ HangUp(r)
  PROVE  AllowedInv'
<1>0. /\ UNCHANGED <<requestVars, trust, disk, user, history>>
      /\ \A q \in Requests \ {r} : handler'[q] = handler[q]
  BY DEF Ask, HangUp, HandlerTask, Decide, GrantAtOnce, InsertPending, Answered,
     TimerFires, GiveUp, Goto, Reply, TypeOK, history
<1>1. \A q : Permitted(q)' = Permitted(q)
  BY <1>0 DEF Permitted, requestVars, history
<1>2. SUFFICES /\ handler'[r] = "grant" => Permitted(r)
               /\ handler'[r] = "insert" => target[r] = "confirm"
               /\ granted' \subseteq granted \cup {r}
               /\ r \in granted' => Permitted(r)
               /\ pending' \subseteq pending \cup {r}
               /\ r \in pending' => target[r] = "confirm"
  BY <1>0, <1>1 DEF AllowedInv, GrantedIsAllowed, requestVars, history
<1>3. /\ r \in granted => Permitted(r)
      /\ r \in pending => target[r] = "confirm"
      /\ handler[r] = "grant" => Permitted(r)
      /\ handler[r] = "insert" => target[r] = "confirm"
  BY DEF AllowedInv, GrantedIsAllowed
<1>4. CASE Decide(r)
  <2>1. Policy(r) = "grant" => Permitted(r)
    BY DEF Policy, Permitted, TypeOK, AllowedInv
  <2>2. Policy(r) = "insert" => target[r] = "confirm"
    BY DEF Policy, TypeOK
  <2> QED
    BY <1>3, <1>4, <2>1, <2>2 DEF Decide, Goto, Reply, TypeOK
<1>5. CASE GrantAtOnce(r)
  BY <1>3, <1>5 DEF GrantAtOnce, Goto, Reply, TypeOK
<1>6. CASE InsertPending(r)
  BY <1>3, <1>6 DEF InsertPending, Goto, TypeOK
<1>7. CASE Ask(r) \/ HangUp(r) \/ Answered(r) \/ TimerFires(r) \/ GiveUp(r)
  BY <1>3, <1>7 DEF Ask, HangUp, Answered, TimerFires, GiveUp, Goto, Reply, TypeOK
<1> QED
  BY <1>4, <1>5, <1>6, <1>7 DEF HandlerTask

LEMMA AllowedUser ==
  ASSUME TypeOK, AllowedInv, NEW u \in Users,
         UserTask(u) \/ \E r \in Requests : Respond(u, r)
  PROVE  AllowedInv'
<1> DEFINE Confirmed(v) ==
             v.pc \in {"remember", "open", "write", "grant", "send"}
               => target[v.req] = "confirm" /\ v.req \in allowed'
<1>0. /\ user \in [Users -> UserState]
      /\ user[u].req \in Requests
  BY DEF TypeOK, UserState
<1>1. /\ UNCHANGED <<requestVars, handler>>
      /\ allowed \subseteq allowed' /\ remembered \subseteq remembered'
      /\ pending' \subseteq pending
      /\ \A v \in Users \ {u} : user'[v] = user[v]
  BY <1>0 DEF UserTask, Respond, Deny, Remember, OpenTrust, WriteTrust, WriteFails,
     Grant, GrantFails, SendGrant, UserGoto, history
<1>2. \A r : Permitted(r) => Permitted(r)'
  BY <1>1, PermittedStays
<1> SUFFICES /\ Confirmed(user'[u])
             /\ user'[u].list \subseteq remembered'
             /\ trust' \subseteq remembered' /\ disk' \subseteq remembered'
             /\ \A r \in granted' : Permitted(r)'
  <2>1. target' = target /\ handler' = handler
    BY <1>1 DEF requestVars
  <2>2. \A v \in Users : Confirmed(user'[v]) /\ user'[v].list \subseteq remembered'
    BY <1>1 DEF AllowedInv
  <2> QED
    BY <1>1, <1>2, <2>1, <2>2 DEF AllowedInv, GrantedIsAllowed
<1>3. /\ \A r \in granted : Permitted(r)'
      /\ user[u].pc \in {"remember", "open", "write", "grant", "send"}
           => target[user[u].req] = "confirm" /\ user[u].req \in allowed
      /\ trust \subseteq remembered /\ disk \subseteq remembered
      /\ user[u].list \subseteq remembered
  BY <1>2 DEF AllowedInv, GrantedIsAllowed
<1>4. ASSUME NEW r \in Requests, Respond(u, r)
      PROVE  /\ Confirmed(user'[u])
             /\ user'[u].list \subseteq remembered'
             /\ UNCHANGED <<trust, disk, granted, remembered>>
  <2>1. target[r] = "confirm"
    BY <1>4 DEF Respond, AllowedInv
  <2> QED
    BY <1>0, <1>4, <2>1 DEF Respond
<1>5. CASE Remember(u)
  BY <1>0, <1>3, <1>5 DEF Remember
<1>6. CASE OpenTrust(u)
  BY <1>0, <1>3, <1>6 DEF OpenTrust, UserGoto, history
<1>7. CASE WriteTrust(u)
  BY <1>0, <1>3, <1>7 DEF WriteTrust, UserGoto
<1>8. CASE WriteFails(u)
  <2>1. CASE UserGoto(u, "open", "grant")
    BY <1>0, <1>3, <1>8, <2>1 DEF WriteFails, UserGoto
  <2>2. CASE UserGoto(u, "write", "grant")
    BY <1>0, <1>3, <1>8, <2>2 DEF WriteFails, UserGoto
  <2> QED
    BY <1>8, <2>1, <2>2 DEF WriteFails
<1>9. CASE Grant(u)
  <2>1. Permitted(user[u].req)'
    BY <1>0, <1>1, <1>3, <1>9 DEF Grant, UserGoto, Permitted, requestVars
  <2> QED
    BY <1>0, <1>3, <1>9, <2>1 DEF Grant, UserGoto, history
<1>10. CASE Deny(u) \/ GrantFails(u) \/ SendGrant(u)
  <2>1. CASE Deny(u)
    BY <1>0, <1>3, <2>1 DEF Deny, UserGoto, history
  <2>2. CASE GrantFails(u)
    BY <1>0, <1>3, <2>2 DEF GrantFails, UserGoto, history
  <2>3. CASE SendGrant(u)
    BY <1>0, <1>3, <2>3 DEF SendGrant, UserGoto, history
  <2> QED
    BY <1>10, <2>1, <2>2, <2>3
<1> QED
  BY <1>3, <1>4, <1>5, <1>6, <1>7, <1>8, <1>9, <1>10 DEF UserTask

\* Nobody is ever granted what neither the policy nor the user allowed,
\* also across restarts that load the trust list again.
THEOREM GrantedIsAllowedHolds == Spec => []GrantedIsAllowed
<1>1. Init => AllowedInv
  BY DEF Init, AllowedInv, GrantedIsAllowed, Idle
<1>2. TypeOK /\ AllowedInv /\ [Next]_vars => AllowedInv'
  <2> SUFFICES ASSUME TypeOK, AllowedInv, [Next]_vars PROVE AllowedInv'
    OBVIOUS
  <2>1. CASE Restart
    BY <2>1 DEF Restart, AllowedInv, GrantedIsAllowed, requestVars, Idle, TypeOK
  <2>2. CASE UNCHANGED vars
    BY <2>2 DEF vars, requestVars, history, AllowedInv, GrantedIsAllowed, Permitted
  <2> QED
    BY <2>1, <2>2, AllowedHandler, AllowedUser DEF Next
<1>3. AllowedInv => GrantedIsAllowed
  BY DEF AllowedInv
<1> QED
  BY <1>1, <1>2, <1>3, TypeInit, TypeStep, PTL DEF Spec
-----------------------------------------------------------------------------
(* The pending table and the channels.  A request whose entry somebody has *)
(* taken, or whose answer is there, is past its insertion and has no entry *)
(* any more; so its handler may return without clearing one.               *)

Begun(r) == handler[r] \in {"waiting", "late", "done", "gone"}

AwaitedInv ==
  /\ PendingIsAwaited
  /\ \A u \in Users : user[u].pc # "idle" => user[u].req \notin pending /\ Begun(user[u].req)
  /\ \A r \in Requests : answer[r] # "none" => r \notin pending /\ Begun(r)

LEMMA AwaitedHandler ==
  ASSUME TypeOK, AwaitedInv, NEW r \in Requests, Ask(r) \/ HandlerTask(r) \/ HangUp(r)
  PROVE  AwaitedInv'
<1>0. /\ UNCHANGED <<answer, user>>
      /\ handler \in [Requests -> HandlerSteps]
      /\ \A q \in Requests \ {r} : handler'[q] = handler[q]
      /\ \A u \in Users : user[u].req \in Requests
      /\ pending \subseteq Requests
  BY DEF Ask, HangUp, HandlerTask, Decide, GrantAtOnce, InsertPending, Answered,
     TimerFires, GiveUp, Goto, Reply, TypeOK, UserState
<1>1. SUFFICES /\ pending' \subseteq pending \cup {r}
               /\ r \in pending' => handler'[r] \in {"waiting", "late", "gone"}
               /\ Begun(r) => Begun(r)' /\ (r \in pending' => r \in pending)
  BY <1>0 DEF AwaitedInv, PendingIsAwaited, Begun
<1>2. /\ r \in pending => handler[r] \in {"waiting", "late", "gone"}
      /\ answer[r] # "none" => r \notin pending
  BY DEF AwaitedInv, PendingIsAwaited
<1>3. CASE Ask(r)
  BY <1>0, <1>2, <1>3 DEF Ask, Goto, Begun
<1>4. CASE Decide(r)
  BY <1>0, <1>2, <1>4 DEF Decide, Goto, Reply, Begun
<1>5. CASE GrantAtOnce(r)
  BY <1>0, <1>2, <1>5 DEF GrantAtOnce, Goto, Reply, Begun
<1>6. CASE InsertPending(r)
  BY <1>0, <1>2, <1>6 DEF InsertPending, Goto, Begun
<1>7. CASE Answered(r)
  BY <1>0, <1>2, <1>7 DEF Answered, Goto, Reply, Begun
<1>8. CASE TimerFires(r)
  BY <1>0, <1>2, <1>8 DEF TimerFires, Goto, Begun
<1>9. CASE GiveUp(r)
  BY <1>0, <1>2, <1>9 DEF GiveUp, Goto, Reply, Begun
<1>10. CASE HangUp(r)
  BY <1>0, <1>2, <1>10 DEF HangUp, Goto, Begun
<1> QED
  BY <1>3, <1>4, <1>5, <1>6, <1>7, <1>8, <1>9, <1>10 DEF HandlerTask

LEMMA AwaitedUser ==
  ASSUME TypeOK, AwaitedInv, NEW u \in Users,
         UserTask(u) \/ \E r \in Requests : Respond(u, r)
  PROVE  AwaitedInv'
<1>0. /\ user \in [Users -> UserState]
      /\ answer \in [Requests -> {"none", "granted", "denied", "dropped"}]
      /\ user[u].req \in Requests
  BY DEF TypeOK, UserState
<1>1. ASSUME NEW r \in Requests, Respond(u, r)
      PROVE  AwaitedInv'
  <2>1. /\ r \in pending /\ pending' = pending \ {r} /\ UNCHANGED <<handler, answer>>
        /\ user'[u].req = r
        /\ \A v \in Users \ {u} : user'[v] = user[v]
    BY <1>0, <1>1 DEF Respond
  <2>2. Begun(r)
    BY <2>1 DEF AwaitedInv, PendingIsAwaited, Begun
  <2> QED
    BY <2>1, <2>2 DEF AwaitedInv, PendingIsAwaited, Begun
<1>2. CASE UserTask(u)
  <2>1. /\ UNCHANGED <<handler, pending>>
        /\ user[u].pc # "idle"
        /\ \A v \in Users \ {u} : user'[v] = user[v]
        /\ \A q \in Requests \ {user[u].req} : answer'[q] = answer[q]
    BY <1>0, <1>2 DEF UserTask, Deny, Remember, OpenTrust, WriteTrust, WriteFails,
       Grant, GrantFails, SendGrant, UserGoto, history
  <2>2. user'[u].req = user[u].req
    <3>1. CASE Remember(u)
      BY <1>0, <3>1 DEF Remember, UserState
    <3>2. CASE ~Remember(u)
      <4>1. \E to : user' = [user EXCEPT ![u].pc = to]
        BY <1>2, <3>2 DEF UserTask, Deny, OpenTrust, WriteTrust, WriteFails,
           Grant, GrantFails, SendGrant, UserGoto
      <4> QED
        BY <1>0, <4>1 DEF UserState
    <3> QED
      BY <3>1, <3>2
  <2>3. user[u].req \notin pending /\ Begun(user[u].req)
    BY <2>1 DEF AwaitedInv
  <2> QED
    BY <2>1, <2>2, <2>3 DEF AwaitedInv, PendingIsAwaited, Begun
<1> QED
  BY <1>1, <1>2

\* An entry of the pending table has its handler, or a device that hung up.
THEOREM PendingIsAwaitedHolds == Spec => []PendingIsAwaited
<1>1. Init => AwaitedInv
  BY DEF Init, AwaitedInv, PendingIsAwaited, Idle
<1>2. TypeOK /\ AwaitedInv /\ [Next]_vars => AwaitedInv'
  <2> SUFFICES ASSUME TypeOK, AwaitedInv, [Next]_vars PROVE AwaitedInv'
    OBVIOUS
  <2>1. CASE Restart
    BY <2>1 DEF Restart, AwaitedInv, PendingIsAwaited, Idle
  <2>2. CASE UNCHANGED vars
    BY <2>2 DEF vars, AwaitedInv, PendingIsAwaited, Begun
  <2> QED
    BY <2>1, <2>2, AwaitedHandler, AwaitedUser DEF Next
<1>3. AwaitedInv => PendingIsAwaited
  BY DEF AwaitedInv
<1> QED
  BY <1>1, <1>2, <1>3, TypeInit, TypeStep, PTL DEF Spec

-----------------------------------------------------------------------------
(* The trust list and its file: at most one call of respond holds the      *)
(* list's lock, and what it is about to write is the list.                 *)

Writing(u) == user[u].pc \in {"open", "write"}

DiskInv ==
  /\ DiskFollows
  /\ \A u, v \in Users : Writing(u) /\ Writing(v) => u = v
  /\ \A u \in Users : Writing(u) => user[u].list = trust

LEMMA DiskUser ==
  ASSUME TypeOK, DiskInv, NEW u \in Users,
         UserTask(u) \/ \E r \in Requests : Respond(u, r)
  PROVE  DiskInv'
<1>0. user \in [Users -> UserState]
  BY DEF TypeOK
<1>1. \A v \in Users \ {u} : user'[v] = user[v]
  BY <1>0 DEF UserTask, Respond, Deny, Remember, OpenTrust, WriteTrust, WriteFails,
     Grant, GrantFails, SendGrant, UserGoto
<1>2. CASE Remember(u)
  <2>1. /\ \A v \in Users : ~Writing(v)
        /\ Writing(u)' /\ user'[u].list = trust'
    BY <1>0, <1>2 DEF Remember, TrustLocked, Writing, UserState
  <2> QED
    BY <1>1, <2>1 DEF DiskInv, DiskFollows, Writing
<1>3. CASE OpenTrust(u)
  <2>1. Writing(u) /\ Writing(u)' /\ user'[u].list = user[u].list /\ trust' = trust
    BY <1>0, <1>3 DEF OpenTrust, UserGoto, Writing, UserState
  <2> QED
    BY <1>1, <2>1 DEF DiskInv, DiskFollows, Writing
<1>4. CASE WriteTrust(u)
  <2>1. Writing(u) /\ ~Writing(u)' /\ trust' = trust /\ disk' = user[u].list
    BY <1>0, <1>4 DEF WriteTrust, UserGoto, Writing, UserState
  <2> QED
    BY <1>1, <2>1 DEF DiskInv, DiskFollows, Writing
<1>5. CASE WriteFails(u)
  <2>1. Writing(u) /\ ~Writing(u)' /\ trust' = trust /\ stale'
    <3>1. CASE UserGoto(u, "open", "grant")
      BY <1>0, <1>5, <3>1 DEF WriteFails, UserGoto, Writing, UserState
    <3>2. CASE UserGoto(u, "write", "grant")
      BY <1>0, <1>5, <3>2 DEF WriteFails, UserGoto, Writing, UserState
    <3> QED
      BY <1>5, <3>1, <3>2 DEF WriteFails
  <2> QED
    BY <1>1, <2>1 DEF DiskInv, DiskFollows, Writing
<1>6. ASSUME \/ \E r \in Requests : Respond(u, r)
             \/ Deny(u) \/ Grant(u) \/ GrantFails(u) \/ SendGrant(u)
      PROVE  DiskInv'
  <2>1. UNCHANGED <<trust, disk, stale>>
    BY <1>6 DEF Respond, Deny, Grant, GrantFails, SendGrant, history
  <2>2. ~Writing(u) /\ ~Writing(u)'
    <3>1. ASSUME NEW r \in Requests, Respond(u, r)
          PROVE  ~Writing(u) /\ ~Writing(u)'
      BY <1>0, <3>1 DEF Respond, Writing
    <3>2. ASSUME NEW from \in {"deny", "grant", "send"}, NEW to \in {"idle", "send"},
                 UserGoto(u, from, to)
          PROVE  ~Writing(u) /\ ~Writing(u)'
      BY <1>0, <3>2 DEF UserGoto, Writing, UserState
    <3> QED
      BY <1>6, <3>1, <3>2 DEF Deny, Grant, GrantFails, SendGrant
  <2> QED
    BY <1>1, <2>1, <2>2 DEF DiskInv, DiskFollows, Writing
<1> QED
  BY <1>2, <1>3, <1>4, <1>5, <1>6 DEF UserTask

\* No answer that remembers a device overwrites the entry of another.
THEOREM DiskFollowsHolds == Spec => []DiskFollows
<1>1. Init => DiskInv
  BY DEF Init, DiskInv, DiskFollows, Writing, Idle
<1>2. TypeOK /\ DiskInv /\ [Next]_vars => DiskInv'
  <2> SUFFICES ASSUME TypeOK, DiskInv, [Next]_vars PROVE DiskInv'
    OBVIOUS
  <2>1. CASE Restart
    BY <2>1 DEF Restart, DiskInv, DiskFollows, Writing, Idle
  <2>2. CASE UNCHANGED <<trust, disk, user, stale>>
    BY <2>2 DEF DiskInv, DiskFollows, Writing
  <2>3. ASSUME NEW r \in Requests, Ask(r) \/ HandlerTask(r) \/ HangUp(r)
        PROVE  UNCHANGED <<trust, disk, user, stale>>
    BY <2>3 DEF Ask, HangUp, HandlerTask, Decide, GrantAtOnce, InsertPending, Answered,
       TimerFires, GiveUp, history
  <2>4. CASE UNCHANGED vars
    BY <2>2, <2>4 DEF vars, history
  <2> QED
    BY <2>1, <2>2, <2>3, <2>4, DiskUser DEF Next
<1>3. DiskInv => DiskFollows
  BY DEF DiskInv
<1> QED
  BY <1>1, <1>2, <1>3, TypeInit, TypeStep, PTL DEF Spec

-----------------------------------------------------------------------------
(* ChannelManager: types.  The progress of register_session and of close,  *)
(* and the lock, are functions over the ends.                              *)

LEMMA OtherIsNode == ASSUME NEW n \in Devices PROVE Other(n) \in Devices
BY ManagerAssumption DEF Other

LEMMA PeerIsEnd == ASSUME NEW e \in Ends PROVE Peer(e) \in Ends
BY OtherIsNode DEF Peer, Ends

LEMMA EntryIsEnd ==
  ASSUME NEW n \in Devices, ManagerTypeOK, table[n] # 0
  PROVE  <<table[n], n>> \in Ends
BY ManagerAssumption DEF ManagerTypeOK, Ends, Links

\* What close changes keeps its type.
LEMMA BeginCloseType ==
  ASSUME ManagerTypeOK, NEW e \in Ends, NEW k \in Closers, BeginClose(e, k)
  PROVE  /\ closed' \subseteq Ends
         /\ close' \in [Ends -> [Closers -> {"none", "send", "stream", "done"}]]
<1>1. CASE e \in closed
  BY <1>1 DEF BeginClose, ManagerTypeOK
<1>2. CASE e \notin closed
  <2>1. close[e] \in [Closers -> {"none", "send", "stream", "done"}]
    BY DEF ManagerTypeOK
  <2>2. [close[e] EXCEPT ![k] = "send"] \in [Closers -> {"none", "send", "stream", "done"}]
    BY <2>1
  <2>3. close' \in [Ends -> [Closers -> {"none", "send", "stream", "done"}]]
    <3>1. close' = [close EXCEPT ![e] = [close[e] EXCEPT ![k] = "send"]]
      BY <1>2 DEF BeginClose
    <3>. QED  BY <2>2, <3>1 DEF ManagerTypeOK
  <2>. QED  BY <1>2, <2>3 DEF BeginClose, ManagerTypeOK
<1>. QED  BY <1>1, <1>2

LEMMA ManagerTypeInit == ManagerInit => ManagerTypeOK
BY ManagerAssumption DEF ManagerInit, ManagerTypeOK

-----------------------------------------------------------------------------
(* ChannelManager: one step.                                               *)

\* What a step of one end keeps: its node is one of the two.
LEMMA EndOf == ASSUME NEW c \in Links, NEW n \in Devices PROVE <<c, n>> \in Ends
BY DEF Ends

LEMMA LinkStep ==
  ASSUME ManagerTypeOK,
         \/ Dial
         \/ \E c \in Links : Break(c) \/ Jam(c)
         \/ \E n \in Devices : Vanish(n)
  PROVE  ManagerTypeOK'
<1>1. CASE Dial
  BY <1>1, ManagerAssumption DEF Dial, ManagerTypeOK, manager, session, calls
<1>2. ASSUME NEW c \in Links, Break(c) PROVE ManagerTypeOK'
  BY <1>2 DEF Break, ManagerTypeOK, manager, session, calls, Ends
<1>3. ASSUME NEW n \in Devices, Vanish(n) PROVE ManagerTypeOK'
  BY <1>3 DEF Vanish, ManagerTypeOK, manager, session, calls
<1>4. ASSUME NEW c \in Links, Jam(c) PROVE ManagerTypeOK'
  BY <1>4 DEF Jam, ManagerTypeOK, manager, session, calls
<1>. QED  BY <1>1, <1>2, <1>3, <1>4

LEMMA CallStep ==
  ASSUME ManagerTypeOK, NEW n \in Devices,
         CloseSession(n) \/ SessionClosed(n) \/ Lookup(n) \/ LookedUp(n)
  PROVE  ManagerTypeOK'
<1>1. CASE CloseSession(n)
  <2>. DEFINE e == <<table[n], n>>
  <2>1. e \in Ends
    BY <1>1, EntryIsEnd DEF CloseSession
  <2>2. BeginClose(e, "manager") /\ "manager" \in Closers
    BY <1>1 DEF CloseSession, Closers
  <2>3. /\ closed' \subseteq Ends
        /\ close' \in [Ends -> [Closers -> {"none", "send", "stream", "done"}]]
    <3>. HIDE DEF e
    <3>. QED  BY <2>1, <2>2, BeginCloseType
  <2>4. closes' \in 0 .. MaxCloses
    BY <1>1, ManagerAssumption DEF CloseSession, ManagerTypeOK
  <2>5. lock' \in [Devices -> Ends \cup {Free}] /\ table' \in [Devices -> 0 .. MaxLinks]
    BY <1>1, <2>1, ManagerAssumption DEF CloseSession, ManagerTypeOK
  <2>. QED  BY <1>1, <2>3, <2>4, <2>5 DEF CloseSession, ManagerTypeOK, link
<1>2. CASE SessionClosed(n)
  BY <1>2 DEF SessionClosed, ManagerTypeOK, link, session, calls
<1>3. CASE Lookup(n)
  BY <1>3, ManagerAssumption DEF Lookup, ManagerTypeOK, link, manager, session
<1>4. CASE LookedUp(n)
  BY <1>4, ManagerAssumption DEF LookedUp, ManagerTypeOK, link, session
<1>. QED  BY <1>1, <1>2, <1>3, <1>4

LEMMA TaskStep ==
  ASSUME ManagerTypeOK, NEW e \in Ends, RegisterTask(e) \/ CloseTask(e)
  PROVE  ManagerTypeOK'
<1>1. CASE Create(e)
  BY <1>1 DEF Create, ManagerTypeOK, link, calls
<1>2. CASE Register(e)
  <2>. DEFINE n == e[2]
              old == <<table[n], n>>
  <2>1. n \in Devices /\ e[1] \in 0 .. MaxLinks
    BY ManagerAssumption DEF Ends, Links
  <2>2. table' \in [Devices -> 0 .. MaxLinks]
    BY <1>2, <2>1 DEF Register, ManagerTypeOK
  <2>3. reg' \in [Ends -> {"none", "waiting", "replacing", "done"}]
    BY <1>2 DEF Register, ManagerTypeOK
  <2>4. CASE table[n] = 0
    BY <1>2, <2>2, <2>3, <2>4 DEF Register, ManagerTypeOK, link, calls
  <2>5. CASE table[n] # 0
    <3>1. old \in Ends
      BY <2>1, <2>5, EntryIsEnd
    <3>2. BeginClose(old, "manager") /\ "manager" \in Closers
      BY <1>2, <2>5 DEF Register, Closers
    <3>3. /\ closed' \subseteq Ends
          /\ close' \in [Ends -> [Closers -> {"none", "send", "stream", "done"}]]
      <4>. HIDE DEF old
      <4>. QED  BY <3>1, <3>2, BeginCloseType
    <3>4. lock' = [lock EXCEPT ![n] = old]
      BY <1>2, <2>5 DEF Register
    <3>5. lock' \in [Devices -> Ends \cup {Free}]
      <4>. HIDE DEF old
      <4>. QED  BY <3>1, <3>4 DEF ManagerTypeOK
    <3>. QED  BY <1>2, <2>2, <2>3, <3>3, <3>5 DEF Register, ManagerTypeOK, link, calls
  <2>. QED  BY <2>4, <2>5
<1>3. CASE Registered(e)
  BY <1>3 DEF Registered, ManagerTypeOK, link, session, calls, Ends
<1>4. CASE TakeFin(e)
  <2>1. BeginClose(e, "loop") /\ "loop" \in Closers
    BY <1>4 DEF TakeFin, Closers
  <2>2. /\ closed' \subseteq Ends
        /\ close' \in [Ends -> [Closers -> {"none", "send", "stream", "done"}]]
    BY <2>1, BeginCloseType
  <2>. QED  BY <1>4, <2>2 DEF TakeFin, ManagerTypeOK, link, manager, calls
<1>5. ASSUME NEW k \in Closers, FinishClose(e, k) PROVE ManagerTypeOK'
  <2>1. [close[e] EXCEPT ![k] = "done"] \in [Closers -> {"none", "send", "stream", "done"}]
    BY DEF ManagerTypeOK
  <2>2. close' \in [Ends -> [Closers -> {"none", "send", "stream", "done"}]]
    BY <1>5, <2>1 DEF FinishClose, ManagerTypeOK
  <2>. QED  BY <1>5, <2>2 DEF FinishClose, ManagerTypeOK, link, manager, calls
<1>6. ASSUME NEW k \in Closers, CloseTells(e, k) PROVE ManagerTypeOK'
  <2>1. [close[e] EXCEPT ![k] = "stream"] \in [Closers -> {"none", "send", "stream", "done"}]
    BY DEF ManagerTypeOK
  <2>2. close' \in [Ends -> [Closers -> {"none", "send", "stream", "done"}]]
    BY <1>6, <2>1 DEF CloseTells, ManagerTypeOK
  <2>3. fin' \subseteq Ends
    BY <1>6, PeerIsEnd DEF CloseTells, ManagerTypeOK
  <2>. QED  BY <1>6, <2>2, <2>3 DEF CloseTells, ManagerTypeOK, manager, calls
<1>. QED  BY <1>1, <1>2, <1>3, <1>4, <1>5, <1>6 DEF RegisterTask, CloseTask

LEMMA ManagerTypeStep == ManagerTypeOK /\ [ManagerNext]_managerVars => ManagerTypeOK'
<1>. SUFFICES ASSUME ManagerTypeOK, [ManagerNext]_managerVars PROVE ManagerTypeOK'
  OBVIOUS
<1>1. CASE UNCHANGED managerVars
  BY <1>1 DEF ManagerTypeOK, managerVars, link, manager, session, calls
<1>2. CASE ManagerNext
  BY <1>2, LinkStep, CallStep, TaskStep, EndOf DEF ManagerNext
<1>. QED  BY <1>1, <1>2

\* Every variable of the manager keeps its type, whatever the two devices, the
\* number of connections and the failures are.
THEOREM ManagerTypeCorrect == ManagerSpec => []ManagerTypeOK
BY ManagerTypeInit, ManagerTypeStep, PTL DEF ManagerSpec

-----------------------------------------------------------------------------
(* OpenIsListed.  It is inductive over the types: a step that takes a      *)
(* session out of the table has found it closed or closes it.              *)

LEMMA ClosedGrows ==
  ASSUME NEW e, NEW k, BeginClose(e, k)
  PROVE  e \in closed' /\ closed \subseteq closed'
BY DEF BeginClose

\* The entry of a node changes only when the session it named is closed, and
\* then for the session that is being registered, or for none.
Handed(n, c) ==
  /\ table[n] # 0 => <<table[n], n>> \in closed'
  /\ table' = [table EXCEPT ![n] = c]
  /\ closed \subseteq closed'

LEMMA RemovalKeeps ==
  ASSUME ManagerTypeOK, OpenIsListed, NEW n \in Devices, Handed(n, 0), reg' = reg
  PROVE  OpenIsListed'
<1>. SUFFICES ASSUME NEW e \in Ends, reg[e] \in {"replacing", "done"}, e \notin closed'
              PROVE  table'[e[2]] = e[1]
  BY DEF OpenIsListed
<1>1. table[e[2]] = e[1]
  BY DEF OpenIsListed, Handed
<1>2. e[2] \in Devices /\ e[1] # 0 /\ e = <<e[1], e[2]>>
  BY ManagerAssumption DEF Ends, Links
<1>3. e[2] # n
  BY <1>1, <1>2 DEF Handed
<1>. QED  BY <1>1, <1>2, <1>3 DEF Handed, ManagerTypeOK

LEMMA RegisterKeeps ==
  ASSUME ManagerTypeOK, OpenIsListed, NEW e \in Ends, Register(e)
  PROVE  OpenIsListed'
<1>. DEFINE n == e[2]
            old == <<table[n], n>>
<1>1. Handed(n, e[1])
  <2>1. CASE table[n] = 0
    BY <2>1 DEF Register, Handed
  <2>2. CASE table[n] # 0
    BY <2>2, ClosedGrows DEF Register, Handed
  <2>. QED  BY <2>1, <2>2
<1>2. \A d \in Ends : d # e => reg'[d] = reg[d]
  BY DEF Register, ManagerTypeOK
<1>. SUFFICES ASSUME NEW d \in Ends, reg'[d] \in {"replacing", "done"}, d \notin closed'
              PROVE  table'[d[2]] = d[1]
  BY DEF OpenIsListed
<1>3. d[2] \in Devices /\ n \in Devices /\ d[1] # 0 /\ d = <<d[1], d[2]>>
  BY ManagerAssumption DEF Ends, Links
<1>4. CASE d = e
  BY <1>1, <1>3, <1>4 DEF Handed, ManagerTypeOK
<1>5. CASE d # e
  <2>1. table[d[2]] = d[1]
    BY <1>1, <1>2, <1>5 DEF OpenIsListed, Handed
  <2>2. d[2] # n
    BY <1>1, <1>3, <2>1 DEF Handed
  <2>. QED  BY <1>1, <1>3, <2>1, <2>2 DEF Handed, ManagerTypeOK
<1>. QED  BY <1>4, <1>5

\* Nothing becomes open or registered, and the table is as it was.
LEMMA OthersKeep ==
  ASSUME OpenIsListed, table' = table, closed \subseteq closed',
         \A e \in Ends : reg'[e] \in {"replacing", "done"}
                           => reg[e] \in {"replacing", "done"}
  PROVE  OpenIsListed'
BY DEF OpenIsListed

LEMMA ListedStep ==
  ASSUME ManagerTypeOK, OpenIsListed, [ManagerNext]_managerVars
  PROVE  OpenIsListed'
<1>1. CASE UNCHANGED managerVars
  BY <1>1 DEF OpenIsListed, managerVars, manager, session
<1>2. CASE Dial \/ \E c \in Links : Break(c) \/ Jam(c)
  BY <1>2 DEF OpenIsListed, Dial, Break, Jam, manager, session
<1>3. ASSUME NEW n \in Devices,
             Vanish(n) \/ SessionClosed(n) \/ Lookup(n)
      PROVE  OpenIsListed'
  BY <1>3 DEF OpenIsListed, Vanish, SessionClosed, Lookup, manager, session
<1>4. ASSUME NEW n \in Devices, CloseSession(n)
      PROVE  OpenIsListed'
  <2>1. Handed(n, 0)
    BY <1>4, ClosedGrows DEF CloseSession, Handed
  <2>. QED  BY <1>4, <2>1, RemovalKeeps DEF CloseSession
<1>5. ASSUME NEW n \in Devices, LookedUp(n)
      PROVE  OpenIsListed'
  <2>1. closed' = closed /\ reg' = reg
    BY <1>5 DEF LookedUp, session
  <2>2. CASE <<table[n], n>> \in closed
    <3>1. Handed(n, 0)
      BY <1>5, <2>1, <2>2 DEF LookedUp, Handed, ManagerTypeOK
    <3>. QED  BY <2>1, <3>1, RemovalKeeps
  <2>3. CASE <<table[n], n>> \notin closed
    <3>1. table' = table
      BY <1>5, <2>3 DEF LookedUp, ManagerTypeOK
    <3>. QED  BY <2>1, <3>1, OthersKeep
  <2>. QED  BY <2>2, <2>3
<1>6. ASSUME NEW e \in Ends, RegisterTask(e)
      PROVE  OpenIsListed'
  <2>1. CASE Create(e)
    BY <2>1, OthersKeep DEF Create, ManagerTypeOK
  <2>2. CASE Registered(e)
    BY <2>2, OthersKeep DEF Registered, ManagerTypeOK, session
  <2>. QED  BY <1>6, <2>1, <2>2, RegisterKeeps DEF RegisterTask
<1>7. ASSUME NEW e \in Ends, CloseTask(e)
      PROVE  OpenIsListed'
  <2>1. CASE TakeFin(e)
    BY <2>1, ClosedGrows, OthersKeep DEF TakeFin, manager
  <2>2. CASE \E k \in Closers : FinishClose(e, k)
    BY <2>2 DEF FinishClose, OpenIsListed, manager
  <2>3. CASE \E k \in Closers : CloseTells(e, k)
    BY <2>3 DEF CloseTells, OpenIsListed, manager
  <2>. QED  BY <1>7, <2>1, <2>2, <2>3 DEF CloseTask
<1>. QED  BY <1>1, <1>2, <1>3, <1>4, <1>5, <1>6, <1>7, EndOf DEF ManagerNext

\* A session of a channel that is registered and open is the one its node's
\* table names (register_session, close_session, get_session), for any number
\* of connections and calls.
THEOREM OpenIsListedHolds == ManagerSpec => []OpenIsListed
<1>1. ManagerInit => OpenIsListed
  BY DEF ManagerInit, OpenIsListed
<1>2. ManagerTypeOK /\ OpenIsListed /\ [ManagerNext]_managerVars => OpenIsListed'
  BY ListedStep
<1>. QED  BY <1>1, <1>2, ManagerTypeInit, ManagerTypeStep, PTL DEF ManagerSpec

=============================================================================
