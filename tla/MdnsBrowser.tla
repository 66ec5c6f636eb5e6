------------------------------ MODULE MdnsBrowser ------------------------------
(***************************************************************************)
(* Discovery over multicast DNS (crates/mdns with the two changes made in  *)
(* this repository: the cache outlives a browse, and resolve queries back  *)
(* off) and the scan of crates/stross-discovery on top of it.              *)
(*                                                                         *)
(* One device registers, changes and withdraws one service without a probe *)
(* (discovery/mdns.rs sets requires_probe to false), so a registration     *)
(* multicasts its PTR, SRV and address records at once; a withdrawal       *)
(* multicasts them with a lifetime of one second (the parser turns TTL 0   *)
(* into 1).  One browsing daemon keeps the received records until their    *)
(* lifetime ends, asks again before that, and reports the instance to the  *)
(* listener of the browse in progress.  Packets are lost, delayed and      *)
(* reordered.                                                              *)
(*                                                                         *)
(* A tick is one second.  The version of an SRV record stands for its      *)
(* port: a service that is registered again has a new one.  Left out: TXT  *)
(* records (kept as SRV records are, and never part of what makes a        *)
(* service valid), subtypes, host name queries, several interfaces.  The   *)
(* four refresh points of a record (80, 85, 90, 95%) are one.              *)
(***************************************************************************)
EXTENDS Naturals, Sequences, FiniteSets, SequencesExt

CONSTANTS
  PtrTtl,       \* lifetime of a PTR record, in ticks (75 minutes in the code)
  HostTtl,      \* lifetime of SRV and address records (120 s in the code)
  RefreshLeft,  \* ticks left of a lifetime when a record is asked for again
  MaxTries,     \* resolve queries sent for an instance that stays unresolved
  MaxVersion,   \* bound: registrations of the device
  MaxNet        \* bound: packets of the device under way at one time

ASSUME LifetimeAssumption ==
  /\ PtrTtl \in Nat /\ HostTtl \in Nat /\ RefreshLeft \in Nat
  /\ 1 < RefreshLeft /\ RefreshLeft < HostTtl
  /\ HostTtl <= PtrTtl /\ 2 * RefreshLeft < PtrTtl
  /\ MaxTries \in Nat \ {0} /\ MaxVersion \in Nat /\ MaxNet \in Nat

VARIABLES
  device,     \* [up, ver]: the service registered, if any; again: a second
              \* announcement is due; bye: the version whose goodbye is repeated;
              \* recent: the records multicast within the last second
  net,        \* responses under way
  asked,      \* queries under way
  ptr,        \* the cached PTR record
  srv,        \* the cached SRV records, newest first
  adr,        \* the cached address record
  browsing,   \* is there a listener?
  resolved,   \* is the instance in the daemon's set "resolved"?
  pending,    \* is it in "pending_resolves"?
  tries,      \* try_count of the Resolve command that is scheduled, 0: none
  shown,      \* what the last event told the listener
  listed      \* has the scan collected the instance?

browser == <<ptr, srv, adr, browsing, resolved, pending, tries, shown, listed>>
vars == <<device, net, asked, browser>>

Versions == 1..MaxVersion
PtrKey   == 0                \* keys of the once-a-second limit: the PTR record,
AdrKey   == MaxVersion + 1   \* the address, and every SRV record by its version
Keys     == Versions \cup {PtrKey, AdrKey}
NoRecord == [left |-> 0, here |-> FALSE, asked |-> FALSE]
Record   == [left : 0..PtrTtl, here : BOOLEAN, asked : BOOLEAN]
SrvRecord == [ver : Versions, left : 0..HostTtl, asked : BOOLEAN]
Response == [ptr : BOOLEAN, srv : 0..MaxVersion, adr : BOOLEAN, bye : BOOLEAN]
Queries  == {"ptr", "srv", "adr"}   \* "srv" stands for ANY too: same answer
Views    == [event : {"none", "found", "removed", "resolved"}, ver : 0..MaxVersion]
None     == [event |-> "none", ver |-> 0]
Found    == [event |-> "found", ver |-> 0]
Removed  == [event |-> "removed", ver |-> 0]
Shows(v) == [event |-> "resolved", ver |-> v]

TypeOK ==
  /\ device \in [up : BOOLEAN, ver : 0..MaxVersion, again : BOOLEAN,
                 bye : 0..MaxVersion, recent : SUBSET Keys]
  /\ net \subseteq Response /\ Cardinality(net) <= MaxNet
  /\ asked \subseteq Queries
  /\ ptr \in Record /\ adr \in Record
  /\ srv \in Seq(SrvRecord) /\ Len(srv) <= MaxVersion
  /\ {browsing, resolved, pending, listed} \subseteq BOOLEAN
  /\ tries \in 0..MaxTries
  /\ shown \in Views

Init ==
  /\ device = [up |-> FALSE, ver |-> 0, again |-> FALSE, bye |-> 0, recent |-> {}]
  /\ net = {} /\ asked = {}
  /\ ptr = NoRecord /\ srv = << >> /\ adr = NoRecord
  /\ browsing = FALSE /\ resolved = FALSE /\ pending = FALSE /\ tries = 0
  /\ shown = None /\ listed = FALSE

-----------------------------------------------------------------------------
(* The device *)

Nothing == [ptr |-> FALSE, srv |-> 0, adr |-> FALSE, bye |-> FALSE]

\* What the once-a-second limit leaves of a packet; goodbyes are exempt.
RateLimited(m) ==
  [ptr |-> m.ptr /\ PtrKey \notin device.recent,
   srv |-> IF m.srv \in device.recent THEN 0 ELSE m.srv,
   adr |-> m.adr /\ AdrKey \notin device.recent,
   bye |-> m.bye]

Sent(m) == {k \in Keys : \/ k = PtrKey /\ m.ptr
                         \/ k = AdrKey /\ m.adr
                         \/ k = m.srv /\ m.srv # 0}

\* MaxNet packets are under way at most: one more is lost.
Multicast(m) ==
  net' = IF Sent(m) # {} /\ Cardinality(net \cup {m}) <= MaxNet
         THEN net \cup {m} ELSE net

All(v)     == [ptr |-> TRUE, srv |-> v, adr |-> TRUE, bye |-> FALSE]
Goodbye(v) == [All(v) EXCEPT !.bye = TRUE]

\* start and redefine: the new info replaces the old under the same name; it is
\* announced now and once more in a little over a second.
Register ==
  /\ device.ver < MaxVersion
  /\ LET v == device.ver + 1
         m == RateLimited(All(v))
     IN  /\ Multicast(m)
         /\ device' = [device EXCEPT !.up = TRUE, !.ver = v, !.again = TRUE,
                                     !.recent = @ \cup Sent(m)]
  /\ UNCHANGED <<asked, browser>>

\* The second announcement says what is registered by then, if anything is.
RegisterResend ==
  /\ device.again
  /\ LET m == IF device.up THEN RateLimited(All(device.ver)) ELSE Nothing
     IN  /\ Multicast(m)
         /\ device' = [device EXCEPT !.again = FALSE, !.recent = @ \cup Sent(m)]
  /\ UNCHANGED <<asked, browser>>

Unregister ==
  /\ device.up
  /\ Multicast(Goodbye(device.ver))
  /\ device' = [device EXCEPT !.up = FALSE, !.bye = device.ver]
  /\ UNCHANGED <<asked, browser>>

\* The same packet once more, 120 ms later, whatever was registered meanwhile.
UnregisterResend ==
  /\ device.bye # 0
  /\ Multicast(Goodbye(device.bye))
  /\ device' = [device EXCEPT !.bye = 0]
  /\ UNCHANGED <<asked, browser>>

\* The device leaves the network without a word.
Vanish ==
  /\ device.up
  /\ device' = [device EXCEPT !.up = FALSE, !.again = FALSE]
  /\ UNCHANGED <<net, asked, browser>>

\* What a query is answered with.  A PTR query gets every record; an address is
\* added to an SRV record, and only if that one may be sent.
AnswerTo(q) ==
  LET all == All(device.ver) IN
  CASE q = "ptr" /\ PtrKey \notin device.recent -> RateLimited(all)
    [] q = "srv" /\ device.ver \notin device.recent ->
         RateLimited([all EXCEPT !.ptr = FALSE])
    [] q = "adr" -> RateLimited([all EXCEPT !.ptr = FALSE, !.srv = 0])
    [] OTHER -> Nothing

HandleQuery(q) ==
  /\ q \in asked
  /\ asked' = asked \ {q}
  /\ LET m == IF device.up THEN AnswerTo(q) ELSE Nothing
     IN  /\ Multicast(m)
         /\ device' = [device EXCEPT !.recent = @ \cup Sent(m)]
  /\ UNCHANGED browser

-----------------------------------------------------------------------------
(* The cache *)

Soon(r) == r.left <= 1                     \* expires_soon

\* A record that is in the cache and not about to go.
Fresh(r) == r.here /\ ~Soon(r)

\* reset_ttl on a record that is there, a new record on one that is not; a
\* record that is going is not asked for again, unless it is new.
Stored(r, ttl, bye) ==
  [left |-> IF bye THEN 1 ELSE ttl, here |-> TRUE, asked |-> bye /\ r.here]

Cached(v) == \E k \in DOMAIN srv : srv[k].ver = v

\* The cache-flush bit of an SRV record gives the others one more second, if they
\* are more than a second old and have more than one left.
Flushed(r) ==
  IF HostTtl - r.left > 1 /\ ~Soon(r)
  THEN [ver |-> r.ver, left |-> 1, asked |-> TRUE] ELSE r

\* add_or_update for the SRV record of version v.
SrvStored(v, bye) ==
  LET flushed == [k \in DOMAIN srv |-> Flushed(srv[k])]
      ttl     == IF bye THEN 1 ELSE HostTtl
  IN  IF Cached(v)
      THEN [k \in DOMAIN srv |->
              IF srv[k].ver = v THEN [ver |-> v, left |-> ttl, asked |-> bye]
              ELSE flushed[k]]
      ELSE <<[ver |-> v, left |-> ttl, asked |-> FALSE]>> \o flushed

\* resolve_service_from_cache: the port of the first SRV record that is not
\* about to go, valid if the address is not either; 0: not valid.
Resolution(s, a) ==
  LET live == {k \in DOMAIN s : ~Soon(s[k])}
  IN  IF live = {} \/ ~Fresh(a) THEN 0 ELSE s[Min(live)].ver

\* add_pending_resolve; one chain of retries stands for all there may be.
AddPending ==
  /\ pending' = TRUE
  /\ tries' = IF pending THEN tries ELSE 1

Tell(view) ==
  /\ shown' = view
  /\ UNCHANGED <<resolved, pending, tries, listed>>

\* The listener gets version v, and so does the scan that listens.
TellResolved(v) ==
  /\ shown' = Shows(v) /\ listed' = TRUE
  /\ resolved' = TRUE /\ pending' = FALSE
  /\ UNCHANGED tries

\* resolve_updated_instances over the cache p, s, a, for a listener whose view was
\* "view" by then.  A removal leaves the scan's collection alone: the scan looks
\* for the first field of the event there, which is the service type.
Resolve(p, s, a, view) ==
  IF ~browsing \/ ~Fresh(p) THEN Tell(view)
  ELSE IF Resolution(s, a) # 0 THEN TellResolved(Resolution(s, a))
  ELSE /\ AddPending
       /\ resolved' = FALSE
       /\ shown' = IF resolved THEN Removed ELSE view
       /\ UNCHANGED listed

\* handle_response, and ingest_records for the records a query carries.  Records
\* nobody asked for are kept too: the first scan of a node sets accept_unsolicited
\* for good, and the model starts after it.  A new PTR record is reported as found,
\* and any new record of the instance has it resolved again; a record that was
\* there is renewed and nothing else happens.
Deliver(m) ==
  /\ m \in net
  /\ net' = net \ {m}
  /\ LET p       == IF m.ptr THEN Stored(ptr, PtrTtl, m.bye) ELSE ptr
         s       == IF m.srv # 0 THEN SrvStored(m.srv, m.bye) ELSE srv
         a       == IF m.adr THEN Stored(adr, HostTtl, m.bye) ELSE adr
         foundIt == m.ptr /\ ~ptr.here /\ ~m.bye
         updated == \/ foundIt
                    \/ m.srv # 0 /\ ~Cached(m.srv)
                    \/ m.adr /\ ~adr.here /\ s # << >>
         view    == IF foundIt /\ browsing THEN Found ELSE shown
     IN  /\ ptr' = p /\ srv' = s /\ adr' = a
         /\ IF updated THEN Resolve(p, s, a, view) ELSE Tell(shown)
  /\ UNCHANGED <<device, asked, browsing>>

-----------------------------------------------------------------------------
(* The browsing daemon's commands and the rest of its loop *)

\* browse: the new listener is told what the cache knows.
Browse ==
  /\ ~browsing
  /\ browsing' = TRUE
  /\ LET v == Resolution(srv, adr) IN
     IF ~Fresh(ptr) THEN Tell(None)
     ELSE IF v # 0 THEN TellResolved(v)
     ELSE shown' = Found /\ AddPending /\ UNCHANGED <<resolved, listed>>
  /\ UNCHANGED <<device, net, asked, ptr, srv, adr>>

\* stop_browse: the cache stays; the retries for the instances of the type go.
StopBrowse ==
  /\ browsing
  /\ browsing' = FALSE
  /\ shown' = None /\ listed' = FALSE
  /\ pending' = (pending /\ ~Fresh(ptr))
  /\ tries' = IF Fresh(ptr) THEN 0 ELSE tries
  /\ UNCHANGED <<device, net, asked, ptr, srv, adr, resolved>>

\* The PTR query of a browse, repeated for as long as it lasts.  For half of the
\* lifetime of the cached PTR record it carries that record as a known answer, and
\* is then not answered: the step stands for the other queries.
KnownAnswer == Fresh(ptr) /\ 2 * (PtrTtl - ptr.left) <= PtrTtl
BrowseQuery ==
  /\ browsing /\ ~KnownAnswer
  /\ "ptr" \notin asked
  /\ asked' = asked \cup {"ptr"}
  /\ UNCHANGED <<device, net, browser>>

\* exec_command_resolve with query_unresolved: asks for what the cache has no
\* entry of, and is scheduled again only when it did ask.
ResolveRetry ==
  /\ tries # 0
  /\ LET queries == IF srv = << >> THEN {"srv"}
                    ELSE IF ~adr.here THEN {"adr"} ELSE {}
     IN  /\ asked' = asked \cup queries
         /\ tries' = IF queries # {} /\ tries < MaxTries THEN tries + 1 ELSE 0
  /\ UNCHANGED <<device, net, ptr, srv, adr, browsing,
                 resolved, pending, shown, listed>>

DueForRefresh(r) == r.left \in 1..RefreshLeft /\ ~r.asked
LivePtr   == ptr.here /\ ptr.left > 0
RefreshPtr == ptr.here /\ DueForRefresh(ptr)
RefreshSrv == LivePtr /\ \E k \in DOMAIN srv : DueForRefresh(srv[k])
RefreshAdr == LivePtr /\ srv # << >> /\ adr.here /\ DueForRefresh(adr)
RefreshDue == browsing /\ (RefreshPtr \/ RefreshSrv \/ RefreshAdr)

\* Mutant of Refresh: the record is renewed when it is asked for.
RefreshRenews ==
  /\ RefreshDue
  /\ asked' = asked \cup {"srv"}
  /\ ptr' = IF RefreshPtr THEN [ptr EXCEPT !.left = PtrTtl] ELSE ptr
  /\ srv' = [k \in DOMAIN srv |->
               IF DueForRefresh(srv[k]) THEN [srv[k] EXCEPT !.left = HostTtl] ELSE srv[k]]
  /\ adr' = IF adr.here /\ DueForRefresh(adr) THEN [adr EXCEPT !.left = HostTtl] ELSE adr
  /\ UNCHANGED <<device, net, browsing, resolved, pending, tries, shown, listed>>

\* refresh_active_services: only for a type that is being browsed.
Refresh ==
  /\ RefreshDue
  /\ asked' = asked \cup (IF RefreshPtr THEN {"ptr"} ELSE {})
                    \cup (IF RefreshSrv THEN {"srv"} ELSE {})
                    \cup (IF RefreshAdr THEN {"adr"} ELSE {})
  /\ ptr' = [ptr EXCEPT !.asked = @ \/ RefreshPtr]
  /\ srv' = [k \in DOMAIN srv |->
               [srv[k] EXCEPT !.asked = @ \/ (LivePtr /\ DueForRefresh(srv[k]))]]
  /\ adr' = [adr EXCEPT !.asked = @ \/ RefreshAdr]
  /\ UNCHANGED <<device, net, browsing, resolved, pending,
                 tries, shown, listed>>

Expired(r) == r.left = 0
SrvExpired == \E k \in DOMAIN srv : Expired(srv[k])
SrvRunOut  == srv # << >> /\ \A k \in DOMAIN srv : Expired(srv[k])
EvictDue == \/ adr.here /\ Expired(adr)
            \/ ptr.here /\ (Expired(ptr) \/ SrvExpired)

\* The SRV records that are not expired, in their order.
Unexpired ==
  LET kept     == {k \in DOMAIN srv : ~Expired(srv[k])}
      place(j) == CHOOSE k \in kept : Cardinality({i \in kept : i <= k}) = j
  IN  [j \in 1..Cardinality(kept) |-> srv[place(j)]]

\* What a round of eviction leaves of the cache and tells the listener, where "gone"
\* says whether the instance is reported with its SRV and PTR records.
EvictTelling(gone) ==
  LET s    == IF ptr.here THEN Unexpired ELSE srv
      p    == IF Expired(ptr) THEN NoRecord ELSE ptr
      a    == IF Expired(adr) THEN NoRecord ELSE adr
      view == IF gone /\ browsing THEN Removed ELSE shown
  IN  /\ ptr' = p /\ srv' = s /\ adr' = a
      /\ IF adr.here /\ ~a.here /\ s # << >> THEN Resolve(p, s, a, view)
         ELSE Tell(view)

\* Mutant of Evict: an expired PTR record takes the instance away quietly.
EvictPtrQuietly ==
  /\ EvictDue /\ EvictTelling(ptr.here /\ SrvRunOut)
  /\ UNCHANGED <<device, net, asked, browsing>>

\* Mutant of Evict: one expired SRV record is enough to report the instance.
EvictAnySrv ==
  /\ EvictDue /\ EvictTelling(ptr.here /\ (Expired(ptr) \/ SrvExpired))
  /\ UNCHANGED <<device, net, asked, browsing>>

\* evict_expired_services reaches an SRV record through the PTR record of its
\* instance, and reports the instance when the last SRV record or the PTR record
\* went; evict_expired_addr then has the instances of the host resolved again.
Evict ==
  /\ EvictDue /\ EvictTelling(ptr.here /\ (Expired(ptr) \/ SrvRunOut))
  /\ UNCHANGED <<device, net, asked, browsing>>

Older(r) == [r EXCEPT !.left = IF @ = 0 THEN 0 ELSE @ - 1]

\* A second passes; the loop wakes for every refresh and expiry, the goodbye is
\* repeated within it, and a packet that has not arrived in it is lost.
Tick ==
  /\ ~RefreshDue /\ ~EvictDue /\ device.bye = 0
  /\ net' = {} /\ asked' = {}
  /\ ptr' = Older(ptr) /\ adr' = Older(adr)
  /\ srv' = [k \in DOMAIN srv |-> Older(srv[k])]
  /\ device' = [device EXCEPT !.recent = {}]
  /\ UNCHANGED <<browsing, resolved, pending, tries, shown, listed>>

Next ==
  \/ Register \/ RegisterResend \/ Unregister \/ UnregisterResend \/ Vanish
  \/ \E q \in Queries : HandleQuery(q)
  \/ \E m \in net : Deliver(m)
  \/ Browse \/ StopBrowse \/ BrowseQuery \/ ResolveRetry
  \/ Refresh \/ Evict \/ Tick

\* Time passes, and the two daemons' loops turn before it does: both whatever a
\* user starts and stops in between.  No packet has to arrive.
Fairness ==
  /\ WF_vars(UnregisterResend) /\ WF_vars(Evict)
  /\ SF_vars(Refresh) /\ SF_vars(Tick)

Spec == Init /\ [][Next]_vars /\ Fairness

-----------------------------------------------------------------------------
(* Properties *)

\* A listener that was told a port still has the PTR and an SRV record of the
\* instance behind it in the daemon's cache: every path that drops one has to tell,
\* also when the SRV record outlived the PTR record that leads to it, or ran out
\* between two scans.  (The address may be gone: when it runs out in the last second
\* of a PTR record that is then renewed, nobody is told.)
ShownIsCached ==
  \A v \in Versions : shown = Shows(v) => ptr.here /\ srv # << >>

\* A listener is told that an instance is gone only when the cache can no longer
\* resolve it (in particular not when one of two SRV records ran out, as it does
\* after the device came back with another port).
RemovedIsGone ==
  [][shown' = Removed /\ shown # Removed =>
       \/ ~ptr'.here \/ srv' = << >>
       \/ Resolution(srv', adr') = 0]_vars

\* A device that left drops out of resolution, as the comment on the kept cache has
\* it: although the cache outlives a browse, whatever was lost or delayed, whether
\* the device said goodbye or not, and even if a late packet renewed its records.
GhostsGo ==
  <>[](~device.up) => <>[](shown.event # "resolved")

\* The scan's comment on ServiceRemoved: the entry is removed with the event.
RemovedNotReturned == shown = Removed => ~listed

\* "Subsequent scans return devices immediately": while a scan listens, what the
\* cache can resolve has been reported to it.
CachedIsShown ==
  browsing /\ Fresh(ptr) /\ Resolution(srv, adr) # 0
    => \E v \in Versions : shown = Shows(v)

=============================================================================
