------------------------------ MODULE MdnsProbing ------------------------------
(***************************************************************************)
(* Claiming a name on multicast DNS (crates/mdns): a node that registers   *)
(* a service probes for the name of the service and for the name of its    *)
(* host three times, a quarter of a second apart, gives way in a tie,      *)
(* takes another name when somebody answers, and announces the service     *)
(* when every record it needs has been probed for.                         *)
(*                                                                         *)
(* A name is a kind and a number: "x", "x (2)", "x (3)" of a service,      *)
(* "h", "h-2", "h-3" of a host. Every node asks for one of each; which     *)
(* ones is Wanted, so that two nodes may want the same service name on     *)
(* different hosts, or one host name for different services. A node has    *)
(* one record of each kind, the SRV record and the address; what the       *)
(* records hold differs between nodes, and Rank orders it. A tick is a     *)
(* quarter of a second; a packet arrives within it or is lost. Left out:   *)
(* TXT records (same name and probe as SRV), several interfaces, the       *)
(* second announcement.                                                    *)
(***************************************************************************)
EXTENDS Integers, FiniteSets, FiniteSetsExt

CONSTANTS
  Nodes,
  Rank,           \* a number for each node: the order of its record data
  Wanted,         \* the number of the name of a kind that a node asks for
  MaxName,        \* bound: the last number of a name
  MaxRegisters,   \* bound: registrations of one node
  MaxUnregisters, \* bound: withdrawals of one node
  MaxLost         \* bound: packets lost

ASSUME RankAssumption ==
  /\ Rank \in [Nodes -> Nat]
  /\ \A m, n \in Nodes : Rank[m] = Rank[n] => m = n

ASSUME WantedAssumption ==
  /\ MaxName \in Nat /\ MaxRegisters \in Nat /\ MaxUnregisters \in Nat /\ MaxLost \in Nat
  /\ Wanted \in [Nodes -> [{"svc", "host"} -> 0..MaxName]]

VARIABLES
  status,   \* of the node's service: none (not registered), probing, announced
  name,     \* name_changes: the number the node's name of a kind has come to
  probing,  \* the probes of a node by name
  active,   \* the kinds whose record passed its probe
  wire,     \* packets under way
  asks,     \* probe queries sent for the current name of a kind, up to three
  did,      \* registrations and withdrawals of a node so far
  lost      \* packets lost so far

node == <<status, name, probing, active, asks>>
probingVars == <<status, name, probing, active, wire, asks, did, lost>>

Kinds == {"svc", "host"}
Names == [kind : Kinds, no : 0..MaxName]

Lifetime == 3   \* ticks from the first query of a probe to its end
Backoff  == 4   \* ticks a node waits that lost a tie

\* A probe: ticks to its end and to its next query (either may be overdue by
\* none), whether it has the record of its kind, whether the service waits for it.
NoProbe == [on |-> FALSE, left |-> 0, next |-> 0, rec |-> FALSE, waits |-> FALSE]
Probe   == [on : BOOLEAN, left : 0..(Lifetime + Backoff), next : 0..Backoff,
            rec : BOOLEAN, waits : BOOLEAN]
NewProbe(delay, waits) ==
  [on |-> TRUE, left |-> Lifetime + delay, next |-> delay, rec |-> TRUE, waits |-> waits]

Packet == [is : {"query", "response"}, from : Nodes, to : Nodes,
           names : SUBSET Names, auth : SUBSET Names]

ProbingTypeOK ==
  /\ status \in [Nodes -> {"none", "probing", "announced"}]
  /\ name \in [Nodes -> [Kinds -> 0..MaxName]]
  /\ probing \in [Nodes -> [Names -> Probe]]
  /\ active \in [Nodes -> SUBSET Kinds]
  /\ wire \subseteq Packet
  /\ asks \in [Nodes -> [Kinds -> 0..3]]
  /\ did \in [Nodes -> [reg : 0..MaxRegisters, unreg : 0..MaxUnregisters]]
  /\ lost \in 0..MaxLost

ProbingInit ==
  /\ status = [n \in Nodes |-> "none"]
  /\ name = Wanted
  /\ probing = [n \in Nodes |-> [x \in Names |-> NoProbe]]
  /\ active = [n \in Nodes |-> {}]
  /\ wire = {}
  /\ asks = [n \in Nodes |-> [k \in Kinds |-> 0]]
  /\ did = [n \in Nodes |-> [reg |-> 0, unreg |-> 0]]
  /\ lost = 0

Name(k, i)  == [kind |-> k, no |-> i]
Own(n, k)   == Name(k, name[n][k])
OwnNames(n) == {Own(n, k) : k \in Kinds}

ToOthers(n, is, names, auth) ==
  IF names = {} THEN {}
  ELSE {[is |-> is, from |-> n, to |-> m, names |-> names, auth |-> auth]
          : m \in Nodes \ {n}}

-----------------------------------------------------------------------------
(* Registering *)

\* is_probing_done for the records whose kind is not active: each goes into the
\* probe of its name, which is begun if there is none, and the service waits.
ProbeFor(n, probes, kinds, delay) ==
  [x \in Names |->
     IF x.kind \in kinds /\ x = Own(n, x.kind)
     THEN IF probes[x].on THEN [probes[x] EXCEPT !.rec = TRUE, !.waits = TRUE]
          ELSE NewProbe(delay, TRUE)
     ELSE probes[x]]

\* announce_service_on_intf over the probes and active kinds as they are by then:
\* announces if every record is active, else sees to it that the rest is probed.
Announce(n, probes, done, queries) ==
  IF done = Kinds
  THEN /\ status' = [status EXCEPT ![n] = "announced"]
       /\ probing' = [probing EXCEPT ![n] = probes]
       /\ wire' = wire \cup queries \cup ToOthers(n, "response", OwnNames(n), {})
  ELSE /\ status' = [status EXCEPT ![n] = "probing"]
       /\ \E delay \in 0..1 :
            probing' = [probing EXCEPT ![n] = ProbeFor(n, probes, Kinds \ done, delay)]
       /\ wire' = wire \cup queries

\* register_service.  What an earlier registration left in the registry counts:
\* a record that is active is not probed for again.
RegisterService(n) ==
  /\ status[n] = "none" /\ did[n].reg < MaxRegisters
  /\ did' = [did EXCEPT ![n].reg = @ + 1]
  /\ Announce(n, probing[n], active[n], {})
  /\ UNCHANGED <<name, active, asks, lost>>

\* exec_command_unregister.  The goodbye carries the names the service was
\* registered under, not those it came to; the registry keeps its records.
UnregisterService(n) ==
  /\ status[n] # "none" /\ did[n].unreg < MaxUnregisters
  /\ did' = [did EXCEPT ![n].unreg = @ + 1]
  /\ status' = [status EXCEPT ![n] = "none"]
  /\ wire' = wire \cup ToOthers(n, "response", {Name(k, Wanted[n][k]) : k \in Kinds}, {})
  /\ UNCHANGED <<name, probing, active, asks, lost>>

-----------------------------------------------------------------------------
(* Probing *)

Due(p)      == p.on /\ p.next = 0
Finished(p) == Due(p) /\ p.left = 0

\* probing_handler, one pass of the loop: queries for the names that are due go out
\* in one packet with the records proposed; the records of finished probes become
\* active and the service, if it waits for one and is not announced, is tried.
ProbingHandler(n) ==
  LET probes   == probing[n]
      finished == {x \in Names : Finished(probes[x])}
      sends    == {x \in Names : Due(probes[x])} \ finished
      with     == {x \in finished : probes[x].rec}
      done     == active[n] \cup {x.kind : x \in with}
      wakes    == status[n] = "probing" /\ \E x \in with : probes[x].waits
      queries  == ToOthers(n, "query", sends, {x \in sends : probes[x].rec})
      after    == [x \in Names |->
                     IF x \in finished THEN NoProbe
                     ELSE IF x \in sends THEN [probes[x] EXCEPT !.next = 1]
                     ELSE probes[x]]
  IN  /\ finished \cup sends # {}
      /\ active' = [active EXCEPT ![n] = done]
      /\ asks' = [asks EXCEPT ![n] = [k \in Kinds |->
                    IF Own(n, k) \in sends /\ @[k] < 3 THEN @[k] + 1 ELSE @[k]]]
      /\ IF wakes THEN Announce(n, after, done, queries)
         ELSE /\ probing' = [probing EXCEPT ![n] = after]
              /\ wire' = wire \cup queries
              /\ UNCHANGED status
      /\ UNCHANGED <<name, did, lost>>

\* A probe has begun once its first query is out.
Begun(p) == p.on /\ (p.left < Lifetime \/ (p.left = Lifetime /\ p.next > 0))

\* Probe::tiebreaking: the node whose proposed data is the lesser, or that has less
\* of it, waits a second and begins again.
LosesTie(n, m, x, auth) ==
  LET p == probing[n][x] IN
    /\ Begun(p) /\ x \in auth
    /\ p.rec => Rank[n] < Rank[m]

\* Only ties are broken; the names this node holds are not defended.
HandleProbeUndefended(p) ==
  LET n == p.to IN
  /\ p \in wire /\ p.is = "query"
  /\ probing' = [probing EXCEPT ![n] = [x \in Names |->
       IF x \in p.names /\ LosesTie(n, p.from, x, p.auth)
       THEN [@[x] EXCEPT !.left = Backoff + Lifetime, !.next = Backoff]
       ELSE @[x]]]
  /\ wire' = wire \ {p}
  /\ UNCHANGED <<status, name, active, asks, did, lost>>

\* handle_query for a probe: ties are broken for the names asked for that are being
\* probed here too, and the names an announced service holds are defended at once.
HandleProbe(p) ==
  LET n == p.to IN
  /\ p \in wire /\ p.is = "query"
  /\ probing' = [probing EXCEPT ![n] = [x \in Names |->
       IF x \in p.names /\ LosesTie(n, p.from, x, p.auth)
       THEN [@[x] EXCEPT !.left = Backoff + Lifetime, !.next = Backoff]
       ELSE @[x]]]
  /\ wire' = (wire \ {p}) \cup
       (IF status[n] = "announced"
        THEN ToOthers(n, "response", p.names \cap OwnNames(n), {}) ELSE {})
  /\ UNCHANGED <<status, name, active, asks, did, lost>>

\* The names in a response that this node has a record in a probe for: somebody
\* else has them.
Contested(n, p) == {x \in p.names : probing[n][x].on /\ probing[n][x].rec}

\* The probe a contested record goes to, that of the name after x: as it is if
\* there is one, else begun anew; the services that waited for x wait for it.
HeirAs(old, x, delay) ==
  LET there == old[Name(x.kind, x.no + 1)] IN
    IF there.on THEN [there EXCEPT !.rec = TRUE, !.waits = @ \/ old[x].waits]
    ELSE NewProbe(delay, old[x].waits)

\* Nobody waits for the new name.
HeirUnawaited(old, x, delay) == [HeirAs(old, x, delay) EXCEPT !.waits = FALSE]

\* The record takes the time of its old probe along.
HeirInTime(old, x, delay) ==
  [HeirAs(old, x, delay) EXCEPT !.left = old[x].left, !.next = old[x].next]

Heir(old, x, delay) == HeirAs(old, x, delay)

\* conflict_handler: a contested record leaves its probe, which goes on empty, for
\* the probe of the next name.
Moved(old, lose, delay) ==
  LET next == {Name(x.kind, x.no + 1) : x \in lose} IN
    [x \in Names |->
       IF x \in next THEN Heir(old, Name(x.kind, x.no - 1), delay[x.kind])
       ELSE IF x \in lose THEN [old[x] EXCEPT !.rec = FALSE]
       ELSE old[x]]

\* A probe that is restarted is to end later; when it asks next stays as it was.  (A
\* first query that is due next tick comes after the restart, both being less than a
\* tick from now.)
Restarted(old, delay) ==
  [old EXCEPT !.rec = TRUE,
              !.left = Lifetime + IF ~Begun(old) /\ old.next = 1 THEN 1 ELSE delay]

\* update_hostname: a new host name changes the SRV record, which is probed for
\* again if it was active already, and whose probe otherwise is restarted.
Reprobed(moved, svc, isActive, delay) ==
  IF ~moved[svc].rec /\ ~isActive THEN moved
  ELSE [moved EXCEPT ![svc] =
          IF @.on THEN Restarted(@, delay) ELSE NewProbe(delay, FALSE)]

\* The service name comes before the host name in a response.
RenamedProbes(n, lose, delay) ==
  LET moved   == Moved(probing[n], lose, delay)
      renamed == {x.kind : x \in lose}
      svc     == IF "svc" \in renamed THEN Name("svc", name[n]["svc"] + 1)
                 ELSE Own(n, "svc")
  IN  IF "host" \in renamed
      THEN Reprobed(moved, svc, "svc" \in active[n], delay["host"]) ELSE moved

HandleResponse(p) ==
  LET n       == p.to
      lose    == Contested(n, p)
      renamed == {x.kind : x \in lose}
  IN  /\ p \in wire /\ p.is = "response"
      /\ \A x \in lose : x.no < MaxName
      /\ wire' = wire \ {p}
      /\ \E delay \in [Kinds -> 0..1] :
           probing' = [probing EXCEPT ![n] =
             IF lose = {} THEN @ ELSE RenamedProbes(n, lose, delay)]
      /\ name' = [name EXCEPT ![n] = [k \in Kinds |->
                    IF k \in renamed THEN @[k] + 1 ELSE @[k]]]
      /\ asks' = [asks EXCEPT ![n] = [k \in Kinds |->
                    IF k \in renamed THEN 0 ELSE @[k]]]
      /\ active' = [active EXCEPT ![n] =
                      IF "host" \in renamed THEN @ \ {"svc"} ELSE @]
      /\ UNCHANGED <<status, did, lost>>

Lose(p) ==
  /\ p \in wire /\ lost < MaxLost
  /\ wire' = wire \ {p}
  /\ lost' = lost + 1
  /\ UNCHANGED <<node, did>>

ProbeOlder(p) ==
  [p EXCEPT !.left = IF @ = 0 THEN 0 ELSE @ - 1,
            !.next = IF @ = 0 THEN 0 ELSE @ - 1]

\* A quarter of a second passes: what is due is done and packets are not under way
\* for longer.
QuarterPasses ==
  /\ wire = {}
  /\ \A n \in Nodes, x \in Names : ~Due(probing[n][x])
  /\ \E n \in Nodes, x \in Names : probing[n][x].on
  /\ probing' = [n \in Nodes |-> [x \in Names |-> ProbeOlder(probing[n][x])]]
  /\ UNCHANGED <<status, name, active, wire, asks, did, lost>>

ProbingNext ==
  \/ \E n \in Nodes : RegisterService(n) \/ UnregisterService(n) \/ ProbingHandler(n)
  \/ \E p \in wire : HandleProbe(p) \/ HandleResponse(p) \/ Lose(p)
  \/ QuarterPasses

\* The daemons' loops turn, packets that are not lost arrive, time passes.
ProbingFairness ==
  /\ \A n \in Nodes : WF_probingVars(ProbingHandler(n))
  /\ WF_probingVars(\E p \in wire : HandleProbe(p) \/ HandleResponse(p))
  /\ WF_probingVars(QuarterPasses)

ProbingSpec == ProbingInit /\ [][ProbingNext]_probingVars /\ ProbingFairness

-----------------------------------------------------------------------------
(* Properties *)

\* Two announced services have different names and live on hosts of different
\* names, whatever the order in which the nodes came and went and probed, the ties
\* and the renaming in between, and with a packet lost.  (Two are too many: if one
\* probe query comes before the other node has begun, two more are all there is.)
\* It holds of nodes that want the same two names.  Where they share only one of
\* them it does not: a host name that passed its probe is nobody's until the service
\* it is for is announced, and is not defended.
UniqueNames ==
  \A m, n \in Nodes :
    m # n /\ status[m] = "announced" /\ status[n] = "announced"
      => \A k \in Kinds : Own(m, k) # Own(n, k)

\* A service is announced only under names that were asked for three times while
\* they were its own: also when one of its names was contested, or its host was
\* renamed, after the other had passed.
\* It holds of nodes that want the same two names.  Where the host is renamed while
\* the service waits for having lost a tie, it does not: the probe of the service
\* ends before it asks again.
ProbedThrice ==
  [][\A n \in Nodes : status[n] # "announced" /\ status'[n] = "announced"
       => \A k \in Kinds : asks[n][k] = 3]_probingVars

\* Whatever names the nodes ask for, however often they come and go and whatever is
\* lost: no service is announced on a host whose name was not asked for three times,
\* nor under a name of its own that was never asked for.
NeverUnasked ==
  [][\A n \in Nodes : status[n] # "announced" /\ status'[n] = "announced"
       => asks[n]["host"] = 3 /\ asks[n]["svc"] # 0]_probingVars

\* A registered service is announced in the end or withdrawn: ties, renaming and
\* probes that go on empty leave none waiting for ever.
Announced ==
  \A n \in Nodes : status[n] = "probing" ~> status[n] # "probing"

=============================================================================
