----------------------------- MODULE Negotiator -----------------------------
(***************************************************************************)
(* The share negotiator (stross-kernel, negotiator/mod.rs): a device asks  *)
(* for a subscription, the policy grants it, rejects it or leaves it       *)
(* pending for the user, who allows or denies it and may have the device   *)
(* remembered in the trust list, which is kept on disk.                    *)
(*                                                                         *)
(* Each request is an HTTP handler of its own, and each answer a call of   *)
(* respond by one of the user interfaces.  A step ends where a lock is     *)
(* released or a handler awaits.  What a grant does in the kernel is in    *)
(* ShareLifecycle; here it succeeds or fails.  A request that names no     *)
(* endpoint is decided like one for an endpoint that asks to confirm.      *)
(***************************************************************************)
EXTENDS Naturals

CONSTANTS
  Nodes,        \* devices that ask
  Whitelist,    \* devices on the list of the private endpoints
  Requests,     \* bound: requests ever made
  Users,        \* calls of respond that may run at the same time
  MaxRestarts   \* bound: restarts of the kernel

ASSUME ConstantsAssumption ==
  /\ Whitelist \subseteq Nodes
  /\ Requests # {}
  /\ MaxRestarts \in Nat

VARIABLES
  asker,       \* request -> the device that makes it
  target,      \* request -> the visibility of what it asks for
  handler,     \* request -> the step its handler takes next
  reply,       \* request -> what the device was answered
  answer,      \* request -> what is in the oneshot channel its handler awaits
  pending,     \* requests in the pending table
  granted,     \* requests that have been granted
  trust,       \* the trust list in memory
  disk,        \* the trust list in its file; {} when it cannot be parsed
  user,        \* the calls of respond
  restarts,    \* number of restarts
  allowed, denied,  \* history: requests the user allowed, denied
  remembered,  \* history: devices the user wanted remembered
  stale        \* history: the last write of the file failed

requestVars == <<asker, target>>
history == <<allowed, denied, remembered, stale>>
vars == <<requestVars, handler, reply, answer, pending, granted, trust, disk, user,
          restarts, history>>

\* gone: the device has hung up, or the kernel was restarted.
HandlerSteps == {"none", "decide", "grant", "insert", "waiting", "late", "done", "gone"}
Replies == {"none", "granted", "denied", "rejected", "timeout", "error"}

UserState == [pc: {"idle", "remember", "open", "write", "grant", "send", "deny"},
              req: Requests, remember: BOOLEAN,
              list: SUBSET Nodes]    \* what is written to the file

TypeOK ==
  /\ asker \in [Requests -> Nodes]
  /\ target \in [Requests -> {"public", "confirm", "private"}]
  /\ handler \in [Requests -> HandlerSteps]
  /\ reply \in [Requests -> Replies]
  /\ answer \in [Requests -> {"none", "granted", "denied", "dropped"}]
  /\ pending \subseteq Requests /\ granted \subseteq Requests
  /\ trust \subseteq Nodes /\ disk \subseteq Nodes
  /\ user \in [Users -> UserState]
  /\ restarts \in 0 .. MaxRestarts
  /\ allowed \subseteq Requests /\ denied \subseteq Requests
  /\ remembered \subseteq Nodes /\ stale \in BOOLEAN

Idle == [pc |-> "idle", req |-> CHOOSE r \in Requests : TRUE, remember |-> FALSE, list |-> {}]

Init ==
  /\ asker \in [Requests -> Nodes]
  /\ target \in [Requests -> {"public", "confirm", "private"}]
  /\ handler = [r \in Requests |-> "none"]
  /\ reply = [r \in Requests |-> "none"]
  /\ answer = [r \in Requests |-> "none"]
  /\ pending = {} /\ granted = {} /\ trust = {} /\ disk = {}
  /\ user = [u \in Users |-> Idle]
  /\ restarts = 0
  /\ allowed = {} /\ denied = {} /\ remembered = {} /\ stale = FALSE

\* The handler of r moves from one step to the next.
Goto(r, from, to) == handler[r] = from /\ handler' = [handler EXCEPT ![r] = to]

\* The handler of r returns.
Reply(r, from, what) ==
  /\ Goto(r, from, "done")
  /\ reply' = [reply EXCEPT ![r] = what]

\* Mutant: the trust list is written after its lock was released.
NeverLocked == FALSE

\* remember keeps the lock of the trust list until the file is written.
TrustLocked == \E u \in Users : user[u].pc \in {"open", "write"}

-----------------------------------------------------------------------------
(* handle_request.                                                         *)

Ask(r) ==
  /\ Goto(r, "none", "decide")
  /\ UNCHANGED <<requestVars, reply, answer, pending, granted, trust, disk, user,
                 restarts, history>>

\* Mutant: a device that is not on the whitelist has to be confirmed.
PolicyAsksUser(r) ==
  CASE target[r] = "public"  -> "grant"
    [] target[r] = "confirm" -> IF asker[r] \in trust THEN "grant" ELSE "insert"
    [] target[r] = "private" -> IF asker[r] \in Whitelist THEN "grant" ELSE "insert"

\* policy_decision.
Policy(r) ==
  CASE target[r] = "public"  -> "grant"
    [] target[r] = "confirm" -> IF asker[r] \in trust THEN "grant" ELSE "insert"
    [] target[r] = "private" -> IF asker[r] \in Whitelist THEN "grant" ELSE "reject"

Decide(r) ==
  /\ target[r] = "confirm" => ~TrustLocked
  /\ IF Policy(r) = "reject"
     THEN Reply(r, "decide", "rejected")
     ELSE Goto(r, "decide", Policy(r)) /\ reply' = reply
  /\ UNCHANGED <<requestVars, answer, pending, granted, trust, disk, user, restarts,
                 history>>

\* compose_grant and notify_subscribed; the former asks the trust list whether
\* the device is trusted, and may fail.
GrantAtOnce(r) ==
  /\ \/ Reply(r, "grant", "granted") /\ granted' = granted \cup {r} /\ ~TrustLocked
     \/ Reply(r, "grant", "error") /\ granted' = granted
  /\ UNCHANGED <<requestVars, answer, pending, trust, disk, user, restarts, history>>

InsertPending(r) ==
  /\ Goto(r, "insert", "waiting")
  /\ pending' = pending \cup {r}
  /\ UNCHANGED <<requestVars, reply, answer, granted, trust, disk, user, restarts, history>>

\* Mutant: the answer is handed on without a look.
AnsweredRaw(r) ==
  /\ answer[r] # "none"
  /\ Reply(r, "waiting", answer[r])
  /\ UNCHANGED <<requestVars, answer, pending, granted, trust, disk, user, restarts, history>>

Answered(r) ==
  /\ answer[r] # "none"
  /\ Reply(r, "waiting", IF answer[r] = "dropped" THEN "error" ELSE answer[r])
  /\ UNCHANGED <<requestVars, answer, pending, granted, trust, disk, user, restarts, history>>

\* Mutant: the entry goes, and the handler waits on.
TimerFiresClearsOnly(r) ==
  /\ handler[r] = "waiting"
  /\ pending' = pending \ {r}
  /\ UNCHANGED <<requestVars, handler, reply, answer, granted, trust, disk, user, restarts,
                 history>>

\* PENDING_TIMEOUT_SECS; an answer that is there takes precedence.
TimerFires(r) ==
  /\ answer[r] = "none"
  /\ Goto(r, "waiting", "late")
  /\ UNCHANGED <<requestVars, reply, answer, pending, granted, trust, disk, user, restarts,
                 history>>

\* Mutant: the entry is left for the user to find.
GiveUpKeepsEntry(r) ==
  /\ Reply(r, "late", "timeout")
  /\ UNCHANGED <<requestVars, answer, pending, granted, trust, disk, user, restarts, history>>

GiveUp(r) ==
  /\ Reply(r, "late", "timeout")
  /\ pending' = pending \ {r}
  /\ UNCHANGED <<requestVars, answer, granted, trust, disk, user, restarts, history>>

\* The device hangs up, and the handler is dropped where it awaits.
HangUp(r) ==
  /\ Goto(r, "waiting", "gone")
  /\ UNCHANGED <<requestVars, reply, answer, pending, granted, trust, disk, user, restarts,
                 history>>

-----------------------------------------------------------------------------
(* respond.                                                                *)

UserGoto(u, from, to) == user[u].pc = from /\ user' = [user EXCEPT ![u].pc = to]

\* Whoever takes the entry out of the table answers it.
Respond(u, r) ==
  /\ user[u].pc = "idle"
  /\ r \in pending
  /\ pending' = pending \ {r}
  /\ \/ /\ \E remember \in BOOLEAN :
             user' = [user EXCEPT ![u] = [pc |-> IF remember THEN "remember" ELSE "grant",
                                          req |-> r, remember |-> remember, list |-> {}]]
        /\ allowed' = allowed \cup {r}
        /\ denied' = denied
     \/ /\ user' = [user EXCEPT ![u] = [pc |-> "deny", req |-> r, remember |-> FALSE,
                                        list |-> {}]]
        /\ denied' = denied \cup {r}
        /\ allowed' = allowed
  /\ UNCHANGED <<requestVars, handler, reply, answer, granted, trust, disk, restarts,
                 remembered, stale>>

Deny(u) ==
  /\ UserGoto(u, "deny", "idle")
  /\ answer' = [answer EXCEPT ![user[u].req] = "denied"]
  /\ UNCHANGED <<requestVars, handler, reply, pending, granted, trust, disk, restarts,
                 history>>

\* remember: the list in memory, and its text for the file.
Remember(u) ==
  LET node == asker[user[u].req] IN
  /\ ~TrustLocked
  /\ user[u].pc = "remember"
  /\ trust' = trust \cup {node}
  /\ user' = [user EXCEPT ![u].pc = "open", ![u].list = trust']
  /\ remembered' = remembered \cup {node}
  /\ UNCHANGED <<requestVars, handler, reply, answer, pending, granted, disk, restarts,
                 allowed, denied, stale>>

\* Opening the file for writing empties it.
OpenTrust(u) ==
  /\ UserGoto(u, "open", "write")
  /\ disk' = {}
  /\ UNCHANGED <<requestVars, handler, reply, answer, pending, granted, trust, restarts,
                 history>>

WriteTrust(u) ==
  /\ UserGoto(u, "write", "grant")
  /\ disk' = user[u].list
  /\ stale' = FALSE
  /\ UNCHANGED <<requestVars, handler, reply, answer, pending, granted, trust, restarts,
                 allowed, denied, remembered>>

\* The file cannot be opened, or not written: that is only logged.
WriteFails(u) ==
  /\ UserGoto(u, "open", "grant") \/ UserGoto(u, "write", "grant")
  /\ stale' = TRUE
  /\ UNCHANGED <<requestVars, handler, reply, answer, pending, granted, trust, disk,
                 restarts, allowed, denied, remembered>>

\* The grant, whether the handler still waits or not.
Grant(u) ==
  /\ ~TrustLocked
  /\ UserGoto(u, "grant", "send")
  /\ granted' = granted \cup {user[u].req}
  /\ UNCHANGED <<requestVars, handler, reply, answer, pending, trust, disk, restarts,
                 history>>

\* The error is returned to the user interface, and the channel dropped.
GrantFails(u) ==
  /\ UserGoto(u, "grant", "idle")
  /\ answer' = [answer EXCEPT ![user[u].req] = "dropped"]
  /\ UNCHANGED <<requestVars, handler, reply, pending, granted, trust, disk, restarts,
                 history>>

SendGrant(u) ==
  /\ UserGoto(u, "send", "idle")
  /\ answer' = [answer EXCEPT ![user[u].req] = "granted"]
  /\ UNCHANGED <<requestVars, handler, reply, pending, granted, trust, disk, restarts,
                 history>>

-----------------------------------------------------------------------------
\* The kernel stops at any moment and starts again: what is not on disk is lost.
Restart ==
  /\ restarts < MaxRestarts
  /\ restarts' = restarts + 1
  /\ handler' = [r \in Requests |-> IF handler[r] \in {"none", "done"} THEN handler[r]
                                                                    ELSE "gone"]
  /\ answer' = [r \in Requests |-> "none"]
  /\ pending' = {} /\ granted' = {}
  /\ trust' = disk
  /\ user' = [u \in Users |-> Idle]
  /\ stale' = FALSE
  /\ UNCHANGED <<requestVars, reply, disk, allowed, denied, remembered>>

HandlerTask(r) ==
  \/ Decide(r) \/ GrantAtOnce(r) \/ InsertPending(r)
  \/ Answered(r) \/ TimerFires(r) \/ GiveUp(r)

UserTask(u) ==
  \/ Deny(u) \/ Remember(u) \/ OpenTrust(u) \/ WriteTrust(u) \/ WriteFails(u)
  \/ Grant(u) \/ GrantFails(u) \/ SendGrant(u)

Next ==
  \/ \E r \in Requests : Ask(r) \/ HandlerTask(r) \/ HangUp(r)
  \/ \E u \in Users : UserTask(u) \/ \E r \in Requests : Respond(u, r)
  \/ Restart

\* Handlers and calls of respond run to their end, and the timer fires.
\* Nothing makes a device ask, the user answer, or the kernel restart.
Fairness ==
  /\ \A r \in Requests : WF_vars(HandlerTask(r))
  /\ \A u \in Users : WF_vars(UserTask(u))

Spec == Init /\ [][Next]_vars /\ Fairness

-----------------------------------------------------------------------------
(* Properties.                                                             *)

\* The policy or the user allows this request: a private endpoint only to its
\* whitelist, one to be confirmed only after the user allowed this request or
\* had the device remembered.
Permitted(r) ==
  \/ target[r] = "public"
  \/ target[r] = "private" /\ asker[r] \in Whitelist
  \/ target[r] = "confirm" /\ (r \in allowed \/ asker[r] \in remembered)

\* Nobody is granted what neither the policy nor the user has allowed, whatever
\* answers, timeouts and restarts overlap (policy_decision, respond,
\* TrustStore::load).
GrantedIsAllowed == \A r \in granted : Permitted(r)

\* The pending table holds no entry that nobody waits for, but for those of
\* devices that hung up (handle_request clears it on the timeout).
PendingIsAwaited == \A r \in pending : handler[r] \in {"waiting", "late", "gone"}

\* The file holds what the trust list does, unless it is being written or the
\* last write failed: two answers that remember a device each never overwrite
\* one another's entry (TrustStore::remember).
DiskFollows == ~(\E u \in Users : user[u].pc \in {"open", "write"}) /\ ~stale => disk = trust

\* Every device that waits for the user gets an answer, at the latest when the
\* timer fires, also when the grant fails after the user has allowed it.
WaitingIsAnswered ==
  \A r \in Requests : handler[r] = "waiting" ~> handler[r] \in {"done", "gone"}

=============================================================================
