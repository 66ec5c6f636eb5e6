----------------------------- MODULE MdnsProofs -----------------------------
(***************************************************************************)
(* Proofs about the multicast DNS library.                                 *)
(*                                                                         *)
(* Of MdnsBrowser: the types, that what the listener was told is in the    *)
(* cache, and that it is told of the end of an instance only when the      *)
(* cache can no longer resolve it; for every lifetime of the records,      *)
(* number of registrations and packets under way.                          *)
(*                                                                         *)
(* Of MdnsProbing: the types, and that no service is announced on a host   *)
(* whose name was not asked for three times, nor under a name never asked  *)
(* for; for all nodes, the names they want and the packets lost.           *)
(***************************************************************************)
EXTENDS MdnsBrowser, MdnsProbing, FiniteSetTheorems, WellFoundedInduction, TLAPS

-----------------------------------------------------------------------------
(* Places in the cache.                                                    *)

\* A set of natural numbers that is not empty has a least element.
LEMMA LeastOf ==
  ASSUME NEW T \in SUBSET Nat, T # {}
  PROVE  /\ \E m \in T : \A k \in T : m <= k
         /\ Min(T) \in T
<1>1. \E m \in T : \A k \in T : m <= k
  <2>. DEFINE below(m) == 0 .. m
              X == {below(m) : m \in T}
  <2>1. X \subseteq FiniteSubsetsOf(Nat) /\ X # {}
    <3>1. \A m \in T : IsFiniteSet(0 .. m) /\ 0 .. m \subseteq Nat
      BY FS_Interval
    <3>. QED  BY <3>1 DEF FiniteSubsetsOf
  <2>2. PICK x \in X : \A y \in X : <<y, x>> \notin StrictSubsetOrdering(Nat)
    <3>. HIDE DEF X
    <3>. QED  BY <2>1, FS_StrictSubsetOrderingWellFounded, WFMin
  <2>3. PICK m \in T : x = 0 .. m
    OBVIOUS
  <2>4. ASSUME NEW k \in T, k < m PROVE FALSE
    <3>1. 0 .. k \in X /\ 0 .. k \subseteq 0 .. m /\ 0 .. k # 0 .. m
      <4>1. m \in 0 .. m /\ m \notin 0 .. k
        BY <2>4
      <4>. QED  BY <2>4, <4>1
    <3>2. <<0 .. k, 0 .. m>> \in StrictSubsetOrdering(Nat)
      BY <3>1 DEF StrictSubsetOrdering
    <3>. QED  BY <2>2, <2>3, <3>1, <3>2
  <2>. QED  BY <2>4
<1>. QED  BY <1>1 DEF Min

\* As many members of a set of places are up to one of them as its rank says, and
\* every rank is somebody's.
UpTo(K, k) == {i \in K : i <= k}

LEMMA Ranked ==
  ASSUME NEW n \in Nat, NEW K \in SUBSET (1..n)
  PROVE  /\ IsFiniteSet(K) /\ Cardinality(K) \in Nat /\ (Cardinality(K) = 0 <=> K = {})
         /\ \A j \in 1..Cardinality(K) : \E k \in K : Cardinality(UpTo(K, k)) = j
<1>1. /\ IsFiniteSet(K) /\ Cardinality(K) \in Nat
      /\ \A k : IsFiniteSet(UpTo(K, k)) /\ Cardinality(UpTo(K, k)) \in Nat
  <2>1. IsFiniteSet(1..n)
    BY FS_Interval
  <2>2. \A k : UpTo(K, k) \in SUBSET (1..n)
    BY DEF UpTo
  <2>. QED  BY <2>1, <2>2, FS_Subset, FS_CardinalityType
<1>2. Cardinality(K) = 0 <=> K = {}
  BY <1>1, FS_EmptySet
<1>. \A i \in K : i \in Nat /\ 1 <= i /\ i <= n
  OBVIOUS
<1>. \A k, i \in Nat : i \in UpTo(K, k) <=> i \in K /\ i <= k
  BY DEF UpTo
<1>. \A k : UpTo(K, k) \in SUBSET Nat
  BY DEF UpTo
<1>3. ASSUME NEW j \in 1..Cardinality(K)
      PROVE  \E k \in K : Cardinality(UpTo(K, k)) = j
  <2>. DEFINE T == {k \in 0..n : Cardinality(UpTo(K, k)) >= j}
  <2>1. UpTo(K, n) = K /\ UpTo(K, 0) = {}
    <3>1. \A i \in Nat : i \in UpTo(K, n) <=> i \in K
      OBVIOUS
    <3>2. \A i \in Nat : i \notin UpTo(K, 0)
      OBVIOUS
    <3>. QED  BY <3>1, <3>2
  <2>2. n \in T
    BY <1>1, <2>1
  <2>3. PICK m \in T : \A k \in T : m <= k
    <3>1. T \in SUBSET Nat /\ T # {}
      BY <2>2
    <3>. QED  BY <3>1, LeastOf
  <2>4. m # 0 /\ m \in Nat
    <3>1. Cardinality({}) = 0
      BY FS_EmptySet
    <3>. QED  BY <2>1, <2>3, <3>1
  <2>5. m - 1 \in 0..n /\ m - 1 \notin T
    BY <2>3, <2>4
  <2>6. Cardinality(UpTo(K, m - 1)) < j
    BY <1>1, <2>5
  <2>7. CASE m \in K
    <3>1. UpTo(K, m) = UpTo(K, m - 1) \cup {m} /\ m \notin UpTo(K, m - 1)
      <4>1. \A i \in Nat : i \in UpTo(K, m) <=> i \in UpTo(K, m - 1) \/ i = m
        BY <2>4, <2>7
      <4>. QED  BY <2>3, <4>1
    <3>2. Cardinality(UpTo(K, m)) = Cardinality(UpTo(K, m - 1)) + 1
      BY <1>1, <3>1, FS_AddElement
    <3>3. Cardinality(UpTo(K, m)) >= j
      BY <2>3
    <3>. QED  BY <1>1, <2>6, <2>7, <3>2, <3>3
  <2>8. CASE m \notin K
    <3>1. UpTo(K, m) = UpTo(K, m - 1)
      <4>1. \A i \in Nat : i \in UpTo(K, m) <=> i \in UpTo(K, m - 1)
        BY <2>4, <2>8
      <4>. QED  BY <4>1
    <3>. QED  BY <1>1, <2>3, <2>6, <3>1
  <2>. QED  BY <2>7, <2>8
<1>. QED  BY <1>1, <1>2, <1>3

\* The SRV records in the cache are of different versions, so there are no more of
\* them than versions.
Cache(s) ==
  /\ s \in Seq(SrvRecord)
  /\ \A i, j \in DOMAIN s : s[i].ver = s[j].ver => i = j

LEMMA CacheIs ==
  ASSUME NEW s, Cache(s)
  PROVE  /\ Len(s) \in Nat /\ DOMAIN s = 1..Len(s) /\ s \in Seq(SrvRecord)
         /\ \A k \in DOMAIN s : s[k] \in SrvRecord /\ s[k].ver \in Versions
         /\ (s = << >> <=> DOMAIN s = {})
<1>1. s \in Seq(SrvRecord)
  BY DEF Cache
<1>2. Len(s) \in Nat /\ DOMAIN s = 1..Len(s) /\ \A k \in DOMAIN s : s[k] \in SrvRecord
  BY <1>1
<1>3. s = << >> <=> DOMAIN s = {}
  BY <1>1
<1>. QED  BY <1>1, <1>2, <1>3 DEF SrvRecord

LEMMA CacheBound == ASSUME NEW s, Cache(s) PROVE Len(s) <= MaxVersion
<1>1. Len(s) \in Nat /\ DOMAIN s = 1..Len(s) /\ \A k \in DOMAIN s : s[k].ver \in Versions
  BY CacheIs
<1>2. MaxVersion \in Nat
  BY LifetimeAssumption
<1>3. /\ IsFiniteSet(1..Len(s)) /\ Cardinality(1..Len(s)) = Len(s)
      /\ IsFiniteSet(Versions) /\ Cardinality(Versions) = MaxVersion
  <2>1. \A n \in Nat : IsFiniteSet(1..n) /\ Cardinality(1..n) = n
    <3>. SUFFICES ASSUME NEW n \in Nat PROVE IsFiniteSet(1..n) /\ Cardinality(1..n) = n
      OBVIOUS
    <3>1. IsFiniteSet(1..n) /\ Cardinality(1..n) = IF 1 > n THEN 0 ELSE n - 1 + 1
      BY FS_Interval
    <3>. QED  BY <3>1
  <2>. QED  BY <1>1, <1>2, <2>1 DEF Versions
<1>4. ASSUME MaxVersion < Len(s) PROVE FALSE
  <2>. DEFINE f == [k \in 1..Len(s) |-> s[k].ver]
  <2>1. f \in [1..Len(s) -> Versions]
    BY <1>1
  <2>2. \E x, y \in 1..Len(s) : x # y /\ f[x] = f[y]
    <3>. HIDE DEF f
    <3>. QED  BY <1>3, <1>4, <2>1, FS_PigeonHole
  <2>. QED  BY <1>1, <2>2 DEF Cache
<1>. QED  BY <1>1, <1>2, <1>4

\* The cache changed in its other fields.
LEMMA CacheMapped ==
  ASSUME NEW s, Cache(s), NEW t, t = [k \in DOMAIN s |-> t[k]],
         \A k \in DOMAIN s : t[k] \in SrvRecord /\ t[k].ver = s[k].ver
  PROVE  Cache(t) /\ (t = << >> <=> s = << >>)
<1>1. /\ Len(s) \in Nat /\ DOMAIN s = 1..Len(s) /\ (s = << >> <=> DOMAIN s = {})
      /\ \A k \in DOMAIN s : s[k].ver \in Versions
  BY CacheIs
<1>2. t \in Seq(SrvRecord) /\ DOMAIN t = DOMAIN s
  BY <1>1
<1>3. Cache(t)
  BY <1>2 DEF Cache
<1>4. t = << >> <=> DOMAIN t = {}
  BY <1>3, CacheIs
<1>. QED  BY <1>1, <1>2, <1>3, <1>4

LEMMA UnexpiredIs ==
  ASSUME Cache(srv)
  PROVE  /\ Cache(Unexpired)
         /\ Unexpired = << >> <=> \A k \in DOMAIN srv : Expired(srv[k])
<1>. DEFINE kept == {k \in DOMAIN srv : ~Expired(srv[k])}
            n == Cardinality(kept)
            place(j) == CHOOSE k \in kept : Cardinality({i \in kept : i <= k}) = j
            t == [j \in 1..n |-> srv[place(j)]]
<1>1. Unexpired = t
  BY DEF Unexpired
<1>2. /\ Len(srv) \in Nat /\ DOMAIN srv = 1..Len(srv)
      /\ \A k \in DOMAIN srv : srv[k] \in SrvRecord
  BY CacheIs
<1>3. /\ IsFiniteSet(kept) /\ n \in Nat /\ (n = 0 <=> kept = {})
      /\ \A j \in 1..n : \E k \in kept : Cardinality(UpTo(kept, k)) = j
  <2>1. kept \in SUBSET (1..Len(srv))
    BY <1>2
  <2>. HIDE DEF kept
  <2>. QED  BY <1>2, <2>1, Ranked
<1>4. \A j \in 1..n : place(j) \in kept /\ Cardinality(UpTo(kept, place(j))) = j
  <2>. HIDE DEF kept
  <2>. QED  BY <1>3 DEF UpTo
<1>. HIDE DEF place, n
<1>5. \A j \in 1..n : place(j) \in DOMAIN srv /\ t[j] = srv[place(j)] /\ t[j] \in SrvRecord
  BY <1>2, <1>4
<1>6. t \in Seq(SrvRecord) /\ DOMAIN t = 1..n
  BY <1>3, <1>5
<1>7. \A i, j \in 1..n : t[i].ver = t[j].ver => i = j
  <2>. SUFFICES ASSUME NEW i \in 1..n, NEW j \in 1..n, t[i].ver = t[j].ver PROVE i = j
    OBVIOUS
  <2>1. place(i) = place(j)
    BY <1>5 DEF Cache
  <2>. QED  BY <1>4, <2>1
<1>8. Cache(t)
  BY <1>6, <1>7 DEF Cache
<1>9. t = << >> <=> n = 0
  <2>1. t = << >> <=> DOMAIN t = {}
    BY <1>8, CacheIs
  <2>. QED  BY <1>3, <1>6, <2>1
<1>. QED  BY <1>1, <1>3, <1>8, <1>9

-----------------------------------------------------------------------------
(* The operators of the cache.                                             *)

LEMMA Lifetimes ==
  /\ PtrTtl \in Nat /\ HostTtl \in Nat /\ RefreshLeft \in Nat /\ MaxTries \in Nat \ {0}
  /\ MaxVersion \in Nat /\ MaxNet \in Nat /\ 1 <= HostTtl /\ HostTtl <= PtrTtl
BY LifetimeAssumption

\* A record that is stored is in the cache.
LEMMA StoredIs ==
  ASSUME NEW r \in Record, NEW ttl \in {PtrTtl, HostTtl}, NEW bye \in BOOLEAN
  PROVE  Stored(r, ttl, bye) \in Record /\ Stored(r, ttl, bye).here
<1>1. ttl \in 0..PtrTtl /\ 1 \in 0..PtrTtl
  BY Lifetimes
<1>2. r.here \in BOOLEAN
  BY DEF Record
<1>. DEFINE to == IF bye THEN 1 ELSE ttl
            marked == bye /\ r.here
<1>3. to \in 0..PtrTtl /\ marked \in BOOLEAN
  BY <1>1, <1>2
<1>4. Stored(r, ttl, bye) = [left |-> to, here |-> TRUE, asked |-> marked]
  BY DEF Stored
<1>. HIDE DEF to, marked
<1>. QED  BY <1>3, <1>4 DEF Record

LEMMA FlushedIs ==
  ASSUME NEW r \in SrvRecord
  PROVE  Flushed(r) \in SrvRecord /\ Flushed(r).ver = r.ver
<1>1. r.ver \in Versions
  BY DEF SrvRecord
<1>. DEFINE short == [ver |-> r.ver, left |-> 1, asked |-> TRUE]
            young == HostTtl - r.left > 1 /\ ~Soon(r)
<1>2. short \in SrvRecord /\ short.ver = r.ver
  BY <1>1, Lifetimes DEF SrvRecord
<1>3. Flushed(r) = IF young THEN short ELSE r
  BY DEF Flushed
<1>. HIDE DEF short
<1>4. CASE young
  BY <1>2, <1>3, <1>4
<1>5. CASE ~young
  BY <1>3, <1>5
<1>. QED  BY <1>4, <1>5

\* An SRV record that is stored is in the cache, once.
LEMMA SrvStoredIs ==
  ASSUME Cache(srv), NEW v \in Versions, NEW bye \in BOOLEAN
  PROVE  Cache(SrvStored(v, bye)) /\ SrvStored(v, bye) # << >>
<1>. DEFINE flushed == [k \in DOMAIN srv |-> Flushed(srv[k])]
            ttl == IF bye THEN 1 ELSE HostTtl
            old == [ver |-> v, left |-> ttl, asked |-> bye]
            new == [ver |-> v, left |-> ttl, asked |-> FALSE]
            mapped == [k \in DOMAIN srv |-> IF srv[k].ver = v THEN old ELSE flushed[k]]
<1>1. old \in SrvRecord /\ old.ver = v /\ new \in SrvRecord /\ new.ver = v
  BY Lifetimes DEF SrvRecord
<1>2. /\ Len(srv) \in Nat /\ DOMAIN srv = 1..Len(srv) /\ (srv = << >> <=> DOMAIN srv = {})
      /\ \A k \in DOMAIN srv : srv[k] \in SrvRecord
  BY CacheIs
<1>3. \A k \in DOMAIN srv : flushed[k] \in SrvRecord /\ flushed[k].ver = srv[k].ver
  BY <1>2, FlushedIs
<1>. HIDE DEF old, new, flushed
<1>4. CASE Cached(v)
  <2>1. \A k \in DOMAIN srv : mapped[k] \in SrvRecord /\ mapped[k].ver = srv[k].ver
    BY <1>1, <1>3
  <2>2. mapped = [k \in DOMAIN srv |-> mapped[k]]
    OBVIOUS
  <2>. HIDE DEF mapped
  <2>3. Cache(mapped) /\ (mapped = << >> <=> srv = << >>)
    BY <2>1, <2>2, CacheMapped
  <2>4. srv # << >>
    BY <1>2, <1>4 DEF Cached
  <2>5. SrvStored(v, bye) = mapped
    BY <1>4 DEF SrvStored, mapped, old, flushed
  <2>. QED  BY <2>3, <2>4, <2>5
<1>5. CASE ~Cached(v)
  <2>1. flushed = [k \in DOMAIN srv |-> flushed[k]]
    BY DEF flushed
  <2>2. Cache(flushed) /\ DOMAIN flushed = DOMAIN srv
    <3>1. DOMAIN flushed = DOMAIN srv
      BY DEF flushed
    <3>. QED  BY <1>3, <2>1, <3>1, CacheMapped
  <2>3. SrvStored(v, bye) = <<new>> \o flushed
    BY <1>5 DEF SrvStored, new, flushed
  <2>4. flushed \in Seq(SrvRecord) /\ Len(flushed) \in Nat /\ DOMAIN flushed = 1..Len(flushed)
    BY <2>2, CacheIs
  <2>. DEFINE t == <<new>> \o flushed
  <2>5. /\ t \in Seq(SrvRecord) /\ DOMAIN t = 1..(Len(flushed) + 1) /\ t[1] = new
        /\ \A k \in 2..(Len(flushed) + 1) : k - 1 \in DOMAIN flushed /\ t[k] = flushed[k - 1]
    BY <1>1, <2>4
  <2>6. \A k \in DOMAIN flushed : flushed[k].ver # v
    BY <1>3, <1>5, <2>2 DEF Cached
  <2>7. \A i, j \in DOMAIN flushed : flushed[i].ver = flushed[j].ver => i = j
    BY <2>2 DEF Cache
  <2>. HIDE DEF t
  <2>8. \A i, j \in DOMAIN t : t[i].ver = t[j].ver => i = j
    <3>. SUFFICES ASSUME NEW i \in DOMAIN t, NEW j \in DOMAIN t, t[i].ver = t[j].ver
                  PROVE  i = j
      OBVIOUS
    <3>1. i = 1 \/ i \in 2..(Len(flushed) + 1)
      BY <2>4, <2>5
    <3>2. j = 1 \/ j \in 2..(Len(flushed) + 1)
      BY <2>4, <2>5
    <3>3. CASE i = 1 /\ j \in 2..(Len(flushed) + 1)
      BY <1>1, <2>5, <2>6, <3>3
    <3>4. CASE j = 1 /\ i \in 2..(Len(flushed) + 1)
      BY <1>1, <2>5, <2>6, <3>4
    <3>5. CASE i \in 2..(Len(flushed) + 1) /\ j \in 2..(Len(flushed) + 1)
      <4>1. i - 1 = j - 1
        BY <2>5, <2>7, <3>5
      <4>. QED  BY <2>4, <3>5, <4>1
    <3>. QED  BY <3>1, <3>2, <3>3, <3>4, <3>5
  <2>9. Cache(t)
    BY <2>5, <2>8 DEF Cache
  <2>10. t # << >>
    <3>1. DOMAIN t # {}
      BY <2>4, <2>5
    <3>. QED  BY <2>9, <3>1, CacheIs
  <2>. QED  BY <2>3, <2>9, <2>10 DEF t
<1>. QED  BY <1>4, <1>5

\* What a cache resolves to is the version of a record in it.
LEMMA ResolutionIs ==
  ASSUME NEW s, Cache(s), NEW a
  PROVE  /\ Resolution(s, a) \in 0..MaxVersion
         /\ Resolution(s, a) # 0 => s # << >> /\ Resolution(s, a) \in Versions
<1>. DEFINE live == {k \in DOMAIN s : ~Soon(s[k])}
<1>1. /\ Len(s) \in Nat /\ DOMAIN s = 1..Len(s) /\ (s = << >> <=> DOMAIN s = {})
      /\ \A k \in DOMAIN s : s[k].ver \in Versions
  BY CacheIs
<1>2. MaxVersion \in Nat /\ Versions \subseteq 0..MaxVersion /\ 0 \notin Versions
  BY Lifetimes DEF Versions
<1>3. live \in SUBSET Nat
  BY <1>1
<1>4. CASE live = {} \/ ~Fresh(a)
  <2>1. Resolution(s, a) = 0
    BY <1>4 DEF Resolution
  <2>. QED  BY <1>2, <2>1
<1>5. CASE live # {} /\ Fresh(a)
  <2>1. Min(live) \in live
    <3>. HIDE DEF live
    <3>. QED  BY <1>3, <1>5, LeastOf
  <2>2. Resolution(s, a) = s[Min(live)].ver
    BY <1>5 DEF Resolution
  <2>. HIDE DEF live
  <2>3. Min(live) \in DOMAIN s
    BY <2>1 DEF live
  <2>. QED  BY <1>1, <1>2, <2>2, <2>3
<1>. QED  BY <1>4, <1>5

-----------------------------------------------------------------------------
(* The invariant: the types, the distinct versions in the cache, and that  *)
(* what a listener was told last is about records that are there.          *)

DeviceTypes ==
  /\ device \in [up : BOOLEAN, ver : 0..MaxVersion, again : BOOLEAN,
                 bye : 0..MaxVersion, recent : SUBSET Keys]
  /\ net \subseteq Response /\ IsFiniteSet(net) /\ Cardinality(net) <= MaxNet
  /\ asked \subseteq Queries

CacheTypes == ptr \in Record /\ adr \in Record /\ Cache(srv)

ListenerTypes ==
  /\ browsing \in BOOLEAN /\ resolved \in BOOLEAN /\ pending \in BOOLEAN
  /\ listed \in BOOLEAN /\ tries \in 0..MaxTries /\ shown \in Views

Told ==
  /\ ~browsing => shown = None
  /\ shown.event = "resolved" => ptr.here /\ srv # << >>

BrowserInv == DeviceTypes /\ CacheTypes /\ ListenerTypes /\ Told

LEMMA ViewsAre ==
  /\ {None, Found, Removed} \subseteq Views
  /\ None.event = "none" /\ Found.event = "found" /\ Removed.event = "removed"
  /\ \A v \in Versions : Shows(v) \in Views /\ Shows(v).event = "resolved"
BY Lifetimes DEF Views, None, Found, Removed, Shows, Versions

\* What resolve_updated_instances tells the listener, by its outcome.
LEMMA ResolveIs ==
  ASSUME NEW p, NEW s, NEW a, NEW view \in Views,
         Cache(s), ListenerTypes, Resolve(p, s, a, view)
  PROVE  /\ resolved' \in BOOLEAN /\ pending' \in BOOLEAN /\ listed' \in BOOLEAN
         /\ tries' \in 0..MaxTries /\ shown' \in Views
         /\ \/ shown' = view
            \/ browsing /\ p.here /\ s # << >> /\ shown'.event = "resolved"
            \/ browsing /\ shown' = Removed /\ Resolution(s, a) = 0
<1>. USE DEF ListenerTypes
<1>1. CASE ~browsing \/ ~Fresh(p)
  <2>1. Tell(view)
    BY <1>1 DEF Resolve
  <2>. QED  BY <2>1 DEF Tell
<1>2. CASE browsing /\ Fresh(p) /\ Resolution(s, a) # 0
  <2>1. TellResolved(Resolution(s, a))
    BY <1>2 DEF Resolve
  <2>2. Resolution(s, a) \in Versions /\ s # << >>
    BY <1>2, ResolutionIs
  <2>3. shown' \in Views /\ shown'.event = "resolved"
    BY <2>1, <2>2, ViewsAre DEF TellResolved
  <2>. QED  BY <1>2, <2>1, <2>2, <2>3 DEF TellResolved, Fresh
<1>3. CASE browsing /\ Fresh(p) /\ Resolution(s, a) = 0
  <2>1. /\ AddPending /\ resolved' = FALSE /\ UNCHANGED listed
        /\ shown' = IF resolved THEN Removed ELSE view
    BY <1>3 DEF Resolve
  <2>2. pending' \in BOOLEAN /\ tries' \in 0..MaxTries
    BY <2>1, Lifetimes DEF AddPending
  <2>. QED  BY <1>3, <2>1, <2>2, ViewsAre
<1>. QED  BY <1>1, <1>2, <1>3

-----------------------------------------------------------------------------
(* The device.                                                             *)

LEMMA MulticastIs ==
  ASSUME DeviceTypes, NEW m \in Response, Multicast(m)
  PROVE  net' \subseteq Response /\ IsFiniteSet(net') /\ Cardinality(net') <= MaxNet
<1>1. CASE net' = net
  BY <1>1 DEF DeviceTypes
<1>2. CASE net' = net \cup {m} /\ Cardinality(net \cup {m}) <= MaxNet
  <2>1. IsFiniteSet(net \cup {m})
    BY FS_AddElement DEF DeviceTypes
  <2>. QED  BY <1>2, <2>1 DEF DeviceTypes
<1>. QED  BY <1>1, <1>2 DEF Multicast

LEMMA RateLimitedIs ==
  ASSUME NEW m \in Response
  PROVE  RateLimited(m) \in Response /\ Sent(m) \subseteq Keys
<1>1. m.ptr \in BOOLEAN /\ m.srv \in 0..MaxVersion /\ m.adr \in BOOLEAN /\ m.bye \in BOOLEAN
  BY DEF Response
<1>2. Sent(m) \subseteq Keys
  BY DEF Sent
<1>3. RateLimited(m) \in Response
  BY <1>1, Lifetimes DEF RateLimited, Response
<1>. QED  BY <1>2, <1>3

LEMMA PacketsAre ==
  /\ Nothing \in Response
  /\ \A v \in 0..MaxVersion : All(v) \in Response /\ Goodbye(v) \in Response
<1>1. 0 \in 0..MaxVersion
  BY Lifetimes
<1>. QED  BY <1>1 DEF Nothing, All, Goodbye, Response

LEMMA AnswerIs ==
  ASSUME DeviceTypes, NEW q
  PROVE  AnswerTo(q) \in Response
<1>1. device.ver \in 0..MaxVersion
  BY DEF DeviceTypes
<1>. DEFINE all == All(device.ver)
            part == [all EXCEPT !.ptr = FALSE]
            last == [all EXCEPT !.ptr = FALSE, !.srv = 0]
<1>2. all \in Response /\ part \in Response /\ last \in Response
  <2>1. all \in Response
    BY <1>1, PacketsAre
  <2>2. \A m \in Response : [m EXCEPT !.ptr = FALSE] \in Response
    BY DEF Response
  <2>3. \A m \in Response : [m EXCEPT !.srv = 0] \in Response
    BY Lifetimes DEF Response
  <2>4. last = [part EXCEPT !.srv = 0]
    BY DEF All
  <2>. QED  BY <2>1, <2>2, <2>3, <2>4
<1>3. /\ RateLimited(all) \in Response /\ RateLimited(part) \in Response
      /\ RateLimited(last) \in Response /\ Nothing \in Response
  <2>. HIDE DEF all, part, last
  <2>. QED  BY <1>2, RateLimitedIs, PacketsAre
<1>4. AnswerTo(q) \in {RateLimited(all), RateLimited(part), RateLimited(last), Nothing}
  <2>. DEFINE first == q = "ptr" /\ PtrKey \notin device.recent
              second == q = "srv" /\ device.ver \notin device.recent
              third == q = "adr"
  <2>1. AnswerTo(q) = CASE first -> RateLimited(all) [] second -> RateLimited(part)
                        [] third -> RateLimited(last) [] OTHER -> Nothing
    BY DEF AnswerTo
  <2>. HIDE DEF all, part, last
  <2>. QED  BY <2>1
<1>. QED  BY <1>3, <1>4

LEMMA DeviceStep ==
  ASSUME DeviceTypes,
         \/ Register \/ RegisterResend \/ Unregister \/ UnregisterResend \/ Vanish
         \/ \E q \in Queries : HandleQuery(q)
  PROVE  DeviceTypes' /\ UNCHANGED browser
<1>. DEFINE NetTypes == net \subseteq Response /\ IsFiniteSet(net) /\ Cardinality(net) <= MaxNet
            Device == [up : BOOLEAN, ver : 0..MaxVersion, again : BOOLEAN,
                       bye : 0..MaxVersion, recent : SUBSET Keys]
<1>1. device \in Device /\ NetTypes /\ asked \subseteq Queries
  BY DEF DeviceTypes
<1>2. /\ device.ver \in 0..MaxVersion /\ device.bye \in 0..MaxVersion
      /\ device.recent \subseteq Keys /\ MaxVersion \in Nat
  BY <1>1, Lifetimes
<1>3. ASSUME NEW m \in Response PROVE Sent(m) \subseteq Keys
  BY RateLimitedIs
<1>4. SUFFICES device' \in Device /\ NetTypes' /\ asked' \subseteq Queries /\ UNCHANGED browser
  BY DEF DeviceTypes
<1>5. CASE Register
  <2>. DEFINE v == device.ver + 1
              m == RateLimited(All(v))
  <2>1. v \in 0..MaxVersion
    BY <1>2, <1>5 DEF Register
  <2>2. m \in Response /\ Sent(m) \subseteq Keys
    <3>. HIDE DEF v
    <3>. QED  BY <2>1, PacketsAre, RateLimitedIs
  <2>3. /\ Multicast(m) /\ UNCHANGED <<asked, browser>>
        /\ device' = [device EXCEPT !.up = TRUE, !.ver = v, !.again = TRUE,
                                    !.recent = @ \cup Sent(m)]
    BY <1>5 DEF Register
  <2>. HIDE DEF v, m
  <2>4. device' \in Device
    BY <1>1, <2>1, <2>2, <2>3
  <2>. QED  BY <1>1, <2>2, <2>3, <2>4, MulticastIs
<1>6. CASE RegisterResend
  <2>. DEFINE m == IF device.up THEN RateLimited(All(device.ver)) ELSE Nothing
  <2>1. m \in Response /\ Sent(m) \subseteq Keys
    BY <1>2, PacketsAre, RateLimitedIs
  <2>2. /\ Multicast(m) /\ UNCHANGED <<asked, browser>>
        /\ device' = [device EXCEPT !.again = FALSE, !.recent = @ \cup Sent(m)]
    BY <1>6 DEF RegisterResend
  <2>. HIDE DEF m
  <2>3. device' \in Device
    BY <1>1, <2>1, <2>2
  <2>. QED  BY <1>1, <2>1, <2>2, <2>3, MulticastIs
<1>7. CASE Unregister
  <2>1. Goodbye(device.ver) \in Response
    BY <1>2, PacketsAre
  <2>2. NetTypes'
    BY <1>7, <2>1, MulticastIs DEF Unregister
  <2>. QED  BY <1>1, <1>2, <1>7, <2>2 DEF Unregister
<1>8. CASE UnregisterResend
  <2>1. Goodbye(device.bye) \in Response
    BY <1>2, PacketsAre
  <2>2. NetTypes'
    BY <1>8, <2>1, MulticastIs DEF UnregisterResend
  <2>. QED  BY <1>1, <1>2, <1>8, <2>2 DEF UnregisterResend
<1>9. CASE Vanish
  BY <1>1, <1>9 DEF Vanish
<1>10. ASSUME NEW q \in Queries, HandleQuery(q)
       PROVE  device' \in Device /\ NetTypes' /\ asked' \subseteq Queries /\ UNCHANGED browser
  <2>. DEFINE m == IF device.up THEN AnswerTo(q) ELSE Nothing
  <2>1. m \in Response /\ Sent(m) \subseteq Keys
    BY <1>3, PacketsAre, AnswerIs
  <2>2. /\ Multicast(m) /\ UNCHANGED browser /\ asked' = asked \ {q}
        /\ device' = [device EXCEPT !.recent = @ \cup Sent(m)]
    BY <1>10 DEF HandleQuery
  <2>. HIDE DEF m
  <2>3. device' \in Device
    BY <1>1, <2>1, <2>2
  <2>. QED  BY <1>1, <2>1, <2>2, <2>3, MulticastIs
<1>. QED  BY <1>5, <1>6, <1>7, <1>8, <1>9, <1>10

-----------------------------------------------------------------------------
(* The steps of the browsing daemon.                                       *)

\* What RemovedIsGone says of a step.
RemovedRight ==
  shown' = Removed /\ shown # Removed =>
    ~ptr'.here \/ srv' = << >> \/ Resolution(srv', adr') = 0

\* A step that leaves the cache p, s, a behind and tells the listener "view", or what
\* resolving the instance has come to: the view has to be about records that are
\* there, and an end that the view is told of has to be one.
LEMMA ToldStep ==
  ASSUME BrowserInv, DeviceTypes', UNCHANGED browsing,
         NEW p \in Record, NEW s, Cache(s), NEW a \in Record, NEW view \in Views,
         ptr' = p, srv' = s, adr' = a,
         Resolve(p, s, a, view) \/ Tell(view),
         view.event = "resolved" => p.here /\ s # << >>,
         ~browsing => view = None,
         view = Removed => shown = Removed \/ ~p.here \/ s = << >>
  PROVE  BrowserInv' /\ RemovedRight
<1>. USE DEF BrowserInv
<1>1. CacheTypes'
  BY DEF CacheTypes, Cache
<1>2. ListenerTypes' /\ (\/ shown' = view
                         \/ browsing /\ p.here /\ s # << >> /\ shown'.event = "resolved"
                         \/ browsing /\ shown' = Removed /\ Resolution(s, a) = 0)
  <2>1. CASE Tell(view)
    BY <2>1 DEF Tell, ListenerTypes
  <2>2. CASE Resolve(p, s, a, view)
    BY <2>2, ResolveIs DEF ListenerTypes
  <2>. QED  BY <2>1, <2>2
<1>3. Removed.event = "removed"
  BY ViewsAre
<1>4. Told'
  BY <1>2, <1>3 DEF Told
<1>5. RemovedRight
  BY <1>2, <1>3 DEF RemovedRight
<1>. QED  BY <1>1, <1>2, <1>4, <1>5

LEMMA DeliverStep ==
  ASSUME BrowserInv, NEW m \in net, Deliver(m)
  PROVE  BrowserInv' /\ RemovedRight
<1>. DEFINE p == IF m.ptr THEN Stored(ptr, PtrTtl, m.bye) ELSE ptr
            s == IF m.srv # 0 THEN SrvStored(m.srv, m.bye) ELSE srv
            a == IF m.adr THEN Stored(adr, HostTtl, m.bye) ELSE adr
            foundIt == m.ptr /\ ~ptr.here /\ ~m.bye
            updated == \/ foundIt
                       \/ m.srv # 0 /\ ~Cached(m.srv)
                       \/ m.adr /\ ~adr.here /\ s # << >>
            view == IF foundIt /\ browsing THEN Found ELSE shown
<1>1. /\ DeviceTypes /\ ptr \in Record /\ adr \in Record /\ Cache(srv) /\ shown \in Views
      /\ (~browsing => shown = None) /\ (shown.event = "resolved" => ptr.here /\ srv # << >>)
  BY DEF BrowserInv, CacheTypes, ListenerTypes, Told
<1>2. m.ptr \in BOOLEAN /\ m.srv \in 0..MaxVersion /\ m.adr \in BOOLEAN /\ m.bye \in BOOLEAN
  BY <1>1 DEF DeviceTypes, Response
<1>3. p \in Record /\ (ptr.here => p.here)
  BY <1>1, <1>2, StoredIs
<1>4. a \in Record
  BY <1>1, <1>2, StoredIs
<1>5. Cache(s) /\ (srv # << >> => s # << >>)
  <2>1. CASE m.srv = 0
    BY <1>1, <2>1
  <2>2. CASE m.srv # 0
    <3>1. m.srv \in Versions
      BY <1>2, <2>2, Lifetimes DEF Versions
    <3>. QED  BY <1>1, <1>2, <2>2, <3>1, SrvStoredIs
  <2>. QED  BY <2>1, <2>2
<1>6. /\ net' = net \ {m} /\ UNCHANGED <<device, asked, browsing>>
      /\ ptr' = p /\ srv' = s /\ adr' = a
      /\ IF updated THEN Resolve(p, s, a, view) ELSE Tell(shown)
  BY DEF Deliver
<1>7. DeviceTypes'
  <2>1. IsFiniteSet(net \ {m}) /\ Cardinality(net \ {m}) <= MaxNet
    <3>1. IsFiniteSet(net) /\ Cardinality(net) \in Nat /\ Cardinality(net) <= MaxNet
      BY <1>1, FS_CardinalityType DEF DeviceTypes
    <3>2. IsFiniteSet(net \ {m}) /\ Cardinality(net \ {m}) = Cardinality(net) - 1
      BY <3>1, FS_RemoveElement
    <3>. QED  BY <3>1, <3>2, Lifetimes
  <2>. QED  BY <1>1, <1>6, <2>1 DEF DeviceTypes
<1>8. view \in Views /\ (view = shown \/ (browsing /\ view = Found))
  BY <1>1, ViewsAre
<1>. HIDE DEF p, s, a, view, foundIt, updated
<1>9. Resolve(p, s, a, view) \/ Tell(shown)
  BY <1>6
<1>10. Found.event = "found" /\ Removed.event = "removed"
  BY ViewsAre
<1>11. CASE Resolve(p, s, a, view)
  <2>1. view.event = "resolved" => p.here /\ s # << >>
    BY <1>1, <1>3, <1>5, <1>8, <1>10
  <2>2. (~browsing => view = None) /\ (view = Removed => shown = Removed)
    BY <1>1, <1>8, <1>10
  <2>. QED  BY <1>3, <1>4, <1>5, <1>6, <1>7, <1>8, <1>11, <2>1, <2>2, ToldStep
<1>12. CASE Tell(shown)
  BY <1>1, <1>3, <1>4, <1>5, <1>6, <1>7, <1>12, ToldStep
<1>. QED  BY <1>9, <1>11, <1>12

LEMMA EvictStep ==
  ASSUME BrowserInv, Evict
  PROVE  BrowserInv' /\ RemovedRight
<1>. DEFINE gone == ptr.here /\ (Expired(ptr) \/ SrvRunOut)
            s == IF ptr.here THEN Unexpired ELSE srv
            p == IF Expired(ptr) THEN NoRecord ELSE ptr
            a == IF Expired(adr) THEN NoRecord ELSE adr
            view == IF gone /\ browsing THEN Removed ELSE shown
<1>1. /\ DeviceTypes /\ ptr \in Record /\ adr \in Record /\ Cache(srv) /\ shown \in Views
      /\ (~browsing => shown = None) /\ (shown.event = "resolved" => ptr.here /\ srv # << >>)
  BY DEF BrowserInv, CacheTypes, ListenerTypes, Told
<1>2. NoRecord \in Record /\ ~NoRecord.here
  BY Lifetimes DEF NoRecord, Record
<1>3. p \in Record /\ a \in Record
  BY <1>1, <1>2
<1>4. Cache(s) /\ (ptr.here => (s = << >> <=> \A k \in DOMAIN srv : Expired(srv[k])))
  BY <1>1, UnexpiredIs
<1>5. /\ UNCHANGED <<device, net, asked, browsing>> /\ ptr' = p /\ srv' = s /\ adr' = a
      /\ Resolve(p, s, a, view) \/ Tell(view)
  BY DEF Evict, EvictTelling
<1>6. DeviceTypes'
  BY <1>1, <1>5 DEF DeviceTypes
<1>7. view \in Views
  BY <1>1, ViewsAre
<1>8. Removed.event = "removed" /\ None.event = "none"
  BY ViewsAre
\* A listener of an instance that is there is told when one of its records goes.
<1>9. view.event = "resolved" => p.here /\ s # << >>
  <2>. SUFFICES ASSUME view.event = "resolved" PROVE p.here /\ s # << >>
    OBVIOUS
  <2>1. shown.event = "resolved" /\ browsing /\ ~gone
    BY <1>1, <1>8
  <2>. QED  BY <1>1, <1>4, <2>1 DEF SrvRunOut
<1>10. ~browsing => view = None
  BY <1>1
<1>11. view = Removed => shown = Removed \/ ~p.here \/ s = << >>
  BY <1>2, <1>4 DEF SrvRunOut
<1>. HIDE DEF p, s, a, view, gone
<1>. QED  BY <1>3, <1>4, <1>5, <1>6, <1>7, <1>9, <1>10, <1>11, ToldStep

LEMMA ListenerStep ==
  ASSUME BrowserInv, Browse \/ StopBrowse \/ BrowseQuery \/ ResolveRetry
  PROVE  BrowserInv' /\ RemovedRight
<1>1. /\ DeviceTypes /\ CacheTypes /\ ListenerTypes /\ Told /\ Cache(srv)
      /\ device \in [up : BOOLEAN, ver : 0..MaxVersion, again : BOOLEAN,
                     bye : 0..MaxVersion, recent : SUBSET Keys]
  BY DEF BrowserInv, CacheTypes, DeviceTypes
<1>2. UNCHANGED <<device, net, ptr, srv, adr>>
  BY DEF Browse, StopBrowse, BrowseQuery, ResolveRetry, browser
<1>3. CacheTypes'
  BY <1>1, <1>2 DEF CacheTypes, Cache
<1>4. asked' \subseteq Queries => DeviceTypes'
  BY <1>1, <1>2 DEF DeviceTypes
<1>5. None.event = "none" /\ Found.event = "found" /\ Removed.event = "removed"
      /\ {None, Found} \subseteq Views
  BY ViewsAre
<1>6. SUFFICES /\ asked' \subseteq Queries /\ ListenerTypes' /\ Told'
               /\ (shown' = Removed => shown = Removed)
  BY <1>3, <1>4 DEF BrowserInv, RemovedRight
<1>7. CASE Browse
  <2>. DEFINE v == Resolution(srv, adr)
  <2>1. ~browsing /\ browsing' = TRUE /\ UNCHANGED asked
    BY <1>7 DEF Browse
  <2>2. CASE ~Fresh(ptr)
    <3>1. Tell(None)
      BY <1>7, <2>2 DEF Browse
    <3>. QED  BY <1>1, <1>5, <2>1, <3>1 DEF Tell, ListenerTypes, Told, DeviceTypes
  <2>3. CASE Fresh(ptr) /\ v # 0
    <3>1. TellResolved(v)
      BY <1>7, <2>3 DEF Browse
    <3>2. v \in Versions /\ srv # << >>
      BY <1>1, <2>3, ResolutionIs
    <3>3. shown' \in Views /\ shown'.event = "resolved"
      BY <3>1, <3>2, ViewsAre DEF TellResolved
    <3>4. ptr.here
      BY <2>3 DEF Fresh
    <3>. HIDE DEF v
    <3>. QED  BY <1>1, <1>2, <1>5, <2>1, <3>1, <3>2, <3>3, <3>4
              DEF TellResolved, ListenerTypes, Told, DeviceTypes
  <2>4. CASE Fresh(ptr) /\ v = 0
    <3>1. shown' = Found /\ AddPending /\ UNCHANGED <<resolved, listed>>
      BY <1>7, <2>4 DEF Browse
    <3>2. pending' \in BOOLEAN /\ tries' \in 0..MaxTries
      BY <1>1, <3>1, Lifetimes DEF AddPending, ListenerTypes
    <3>. QED  BY <1>1, <1>5, <2>1, <3>1, <3>2 DEF ListenerTypes, Told, DeviceTypes
  <2>. QED  BY <2>2, <2>3, <2>4
<1>8. CASE StopBrowse
  <2>1. /\ browsing' = FALSE /\ shown' = None /\ listed' = FALSE /\ UNCHANGED <<asked, resolved>>
        /\ pending' = (pending /\ ~Fresh(ptr)) /\ tries' = IF Fresh(ptr) THEN 0 ELSE tries
    BY <1>8 DEF StopBrowse
  <2>2. pending' \in BOOLEAN /\ tries' \in 0..MaxTries
    BY <1>1, <2>1, Lifetimes DEF ListenerTypes
  <2>. QED  BY <1>1, <1>5, <2>1, <2>2 DEF ListenerTypes, Told, DeviceTypes
<1>9. CASE BrowseQuery
  <2>1. asked' = asked \cup {"ptr"} /\ UNCHANGED browser
    BY <1>9 DEF BrowseQuery
  <2>. QED  BY <1>1, <2>1 DEF ListenerTypes, Told, DeviceTypes, Queries, browser
<1>10. CASE ResolveRetry
  <2>. DEFINE queries == IF srv = << >> THEN {"srv"} ELSE IF ~adr.here THEN {"adr"} ELSE {}
  <2>1. /\ asked' = asked \cup queries
        /\ tries' = IF queries # {} /\ tries < MaxTries THEN tries + 1 ELSE 0
        /\ UNCHANGED <<browsing, resolved, pending, shown, listed>>
    BY <1>10 DEF ResolveRetry
  <2>2. queries \subseteq Queries
    BY DEF Queries
  <2>. HIDE DEF queries
  <2>3. tries' \in 0..MaxTries
    BY <1>1, <2>1, Lifetimes DEF ListenerTypes
  <2>. QED  BY <1>1, <1>2, <2>1, <2>2, <2>3 DEF ListenerTypes, Told, DeviceTypes
<1>. QED  BY <1>7, <1>8, <1>9, <1>10

\* A step that changes the lifetimes and marks of the records and nothing else.
LEMMA RecordsStep ==
  ASSUME BrowserInv, Refresh \/ Tick
  PROVE  BrowserInv' /\ RemovedRight
<1>1. /\ DeviceTypes /\ CacheTypes /\ ListenerTypes /\ Told
      /\ Cache(srv) /\ ptr \in Record /\ adr \in Record
      /\ device \in [up : BOOLEAN, ver : 0..MaxVersion, again : BOOLEAN,
                     bye : 0..MaxVersion, recent : SUBSET Keys]
  BY DEF BrowserInv, CacheTypes, DeviceTypes
<1>2. UNCHANGED <<browsing, resolved, pending, tries, shown, listed>>
  BY DEF Refresh, Tick
<1>3. \A r \in Record : Older(r) \in Record /\ Older(r).here = r.here
  BY Lifetimes DEF Older, Record
<1>4. \A r \in SrvRecord : Older(r) \in SrvRecord /\ Older(r).ver = r.ver
  BY Lifetimes DEF Older, SrvRecord
<1>5. \A r \in Record, b \in BOOLEAN :
        [r EXCEPT !.asked = @ \/ b] \in Record /\ [r EXCEPT !.asked = @ \/ b].here = r.here
  BY DEF Record
<1>6. \A r \in SrvRecord, b \in BOOLEAN :
        [r EXCEPT !.asked = @ \/ b] \in SrvRecord /\ [r EXCEPT !.asked = @ \/ b].ver = r.ver
  BY DEF SrvRecord
<1>7. \A k \in DOMAIN srv : srv[k] \in SrvRecord
  BY <1>1, CacheIs
<1>8. /\ ptr' \in Record /\ ptr'.here = ptr.here /\ adr' \in Record
      /\ srv' = [k \in DOMAIN srv |-> srv'[k]]
      /\ \A k \in DOMAIN srv : srv'[k] \in SrvRecord /\ srv'[k].ver = srv[k].ver
  <2>1. CASE Refresh
    <3>1. /\ ptr' = [ptr EXCEPT !.asked = @ \/ RefreshPtr]
          /\ adr' = [adr EXCEPT !.asked = @ \/ RefreshAdr]
          /\ srv' = [k \in DOMAIN srv |->
                [srv[k] EXCEPT !.asked = @ \/ (LivePtr /\ DueForRefresh(srv[k]))]]
      BY <2>1 DEF Refresh
    <3>2. /\ RefreshPtr \in BOOLEAN /\ RefreshAdr \in BOOLEAN
          /\ \A k \in DOMAIN srv : (LivePtr /\ DueForRefresh(srv[k])) \in BOOLEAN
      BY <1>1 DEF RefreshPtr, RefreshAdr, LivePtr, DueForRefresh, Record
    <3>3. ptr' \in Record /\ ptr'.here = ptr.here /\ adr' \in Record
      BY <1>1, <1>5, <3>1, <3>2
    <3>4. \A k \in DOMAIN srv : srv'[k] \in SrvRecord /\ srv'[k].ver = srv[k].ver
      BY <1>6, <1>7, <3>1, <3>2
    <3>. QED  BY <3>1, <3>3, <3>4
  <2>2. CASE Tick
    <3>1. ptr' = Older(ptr) /\ adr' = Older(adr) /\ srv' = [k \in DOMAIN srv |-> Older(srv[k])]
      BY <2>2 DEF Tick
    <3>. QED  BY <1>1, <1>3, <1>4, <1>7, <3>1
  <2>. QED  BY <2>1, <2>2
<1>9. Cache(srv') /\ (srv' = << >> <=> srv = << >>)
  BY <1>1, <1>8, CacheMapped
<1>10. CacheTypes'
  BY <1>8, <1>9 DEF CacheTypes, Cache
<1>11. DeviceTypes'
  <2>1. CASE Refresh
    <3>1. /\ UNCHANGED <<device, net>>
          /\ asked' = asked \cup (IF RefreshPtr THEN {"ptr"} ELSE {})
                            \cup (IF RefreshSrv THEN {"srv"} ELSE {})
                            \cup (IF RefreshAdr THEN {"adr"} ELSE {})
      BY <2>1 DEF Refresh
    <3>2. asked' \subseteq Queries
      BY <1>1, <3>1 DEF DeviceTypes, Queries
    <3>. QED  BY <1>1, <3>1, <3>2 DEF DeviceTypes
  <2>2. CASE Tick
    <3>1. net' = {} /\ asked' = {} /\ device' = [device EXCEPT !.recent = {}]
      BY <2>2 DEF Tick
    <3>2. device' \in [up : BOOLEAN, ver : 0..MaxVersion, again : BOOLEAN,
                       bye : 0..MaxVersion, recent : SUBSET Keys]
      BY <1>1, <3>1
    <3>3. IsFiniteSet({}) /\ Cardinality({}) <= MaxNet
      BY FS_EmptySet, Lifetimes
    <3>. QED  BY <3>1, <3>2, <3>3 DEF DeviceTypes
  <2>. QED  BY <2>1, <2>2
<1>12. ListenerTypes' /\ Told'
  BY <1>1, <1>2, <1>8, <1>9 DEF ListenerTypes, Told
<1>. QED  BY <1>2, <1>10, <1>11, <1>12 DEF BrowserInv, RemovedRight

-----------------------------------------------------------------------------
(* The theorems.                                                           *)

LEMMA InitTold == ASSUME Init PROVE BrowserInv
<1>1. DeviceTypes
  <2>1. IsFiniteSet({}) /\ Cardinality({}) = 0
    BY FS_EmptySet
  <2>2. device \in [up : BOOLEAN, ver : 0..MaxVersion, again : BOOLEAN,
                    bye : 0..MaxVersion, recent : SUBSET Keys]
    BY Lifetimes DEF Init
  <2>. QED  BY <2>1, <2>2, Lifetimes DEF Init, DeviceTypes
<1>2. CacheTypes
  BY Lifetimes DEF Init, CacheTypes, Cache, Record, NoRecord
<1>3. ListenerTypes /\ Told
  <2>1. shown = None /\ None \in Views /\ None.event = "none"
    BY ViewsAre DEF Init
  <2>2. tries \in 0..MaxTries
    BY Lifetimes DEF Init
  <2>. QED  BY <2>1, <2>2 DEF Init, ListenerTypes, Told
<1>. QED  BY <1>1, <1>2, <1>3 DEF BrowserInv

LEMMA BrowserStep ==
  ASSUME BrowserInv, [Next]_vars
  PROVE  BrowserInv' /\ RemovedRight
<1>1. ASSUME DeviceTypes', UNCHANGED browser
      PROVE  BrowserInv' /\ RemovedRight
  BY <1>1 DEF BrowserInv, RemovedRight, browser, CacheTypes, Cache, ListenerTypes, Told
<1>2. CASE \/ Register \/ RegisterResend \/ Unregister \/ UnregisterResend \/ Vanish
           \/ \E q \in Queries : HandleQuery(q)
  BY <1>1, <1>2, DeviceStep DEF BrowserInv
<1>3. CASE \E m \in net : Deliver(m)
  BY <1>3, DeliverStep
<1>4. CASE Browse \/ StopBrowse \/ BrowseQuery \/ ResolveRetry
  BY <1>4, ListenerStep
<1>5. CASE Refresh \/ Tick
  BY <1>5, RecordsStep
<1>6. CASE Evict
  BY <1>6, EvictStep
<1>7. CASE UNCHANGED vars
  <2>1. DeviceTypes' /\ UNCHANGED browser
    BY <1>7 DEF vars, BrowserInv, DeviceTypes
  <2>. QED  BY <1>1, <2>1
<1>. QED  BY <1>2, <1>3, <1>4, <1>5, <1>6, <1>7 DEF Next

LEMMA AlwaysTold == Spec => []BrowserInv
<1>1. BrowserInv /\ [Next]_vars => BrowserInv'
  BY BrowserStep
<1>. QED  BY <1>1, InitTold, PTL DEF Spec

\* Every variable has its type; the cache never holds more SRV records of the service
\* than there were registrations, since a version is there once, and the network never
\* more packets than it is allowed.
THEOREM TypeCorrect == Spec => []TypeOK
<1>1. BrowserInv => TypeOK
  <2>. SUFFICES ASSUME BrowserInv PROVE TypeOK
    OBVIOUS
  <2>1. Cache(srv) /\ srv \in Seq(SrvRecord)
    BY DEF BrowserInv, CacheTypes, Cache
  <2>2. Len(srv) <= MaxVersion
    BY <2>1, CacheBound
  <2>3. {browsing, resolved, pending, listed} \subseteq BOOLEAN
    BY DEF BrowserInv, ListenerTypes
  <2>. QED  BY <2>1, <2>2, <2>3
            DEF BrowserInv, DeviceTypes, CacheTypes, ListenerTypes, TypeOK
<1>. QED  BY <1>1, AlwaysTold, PTL

\* A listener that was told a port still has the PTR record and an SRV record of the
\* instance behind it: no packet, goodbye, refresh, expiry or second browse takes them
\* away without telling (add_or_update, evict_expired_services, stop_browse).
THEOREM ShownIsCachedHolds == Spec => []ShownIsCached
<1>1. BrowserInv => ShownIsCached
  BY ViewsAre DEF BrowserInv, Told, ShownIsCached
<1>. QED  BY <1>1, AlwaysTold, PTL

\* A listener is told that an instance is gone only when its PTR record or its last SRV
\* record went, or what is left does not resolve (notify_service_removal,
\* resolve_updated_instances).
THEOREM RemovedIsGoneHolds == Spec => RemovedIsGone
<1>1. BrowserInv /\ [Next]_vars =>
        [shown' = Removed /\ shown # Removed =>
           \/ ~ptr'.here \/ srv' = << >>
           \/ Resolution(srv', adr') = 0]_vars
  BY BrowserStep DEF RemovedRight
<1>. QED  BY <1>1, AlwaysTold, PTL DEF Spec, RemovedIsGone

-----------------------------------------------------------------------------
(* Probing: the probes of a node.                                          *)

\* A probe of a host name with its record is on time: the queries it still has to send
\* and those it has sent are three at least.  That of a service name may end early
\* (its end is set anew when the host is renamed, its next query is not), but not
\* before it has asked once.
OnTime(k, p, sent) ==
  /\ k = "host" => p.next <= p.left /\ sent + (p.left - p.next) >= 3
  /\ k = "svc" /\ sent = 0 => p.next <= 1 /\ p.left >= Lifetime + p.next

\* The probes of a node, by the names it has come to, the kinds whose record is active
\* and the queries sent for a name: there is no probe of a name it has not come to; the
\* record is in the probe of the present name if that one is on, and in no other; and
\* a record is active only when its name was asked for.
Probes(pr, nm, act, sent) ==
  /\ \A x \in Names :
       /\ pr[x].on => x.no <= nm[x.kind]
       /\ pr[x].rec <=> pr[x].on /\ x.no = nm[x.kind]
       /\ pr[x].rec => x.kind \notin act /\ OnTime(x.kind, pr[x], sent[x.kind])
  /\ "host" \in act => sent["host"] = 3
  /\ "svc" \in act => sent["svc"] # 0

NodeTypes(pr, nm, act, sent) ==
  /\ pr \in [Names -> Probe] /\ nm \in [Kinds -> 0..MaxName]
  /\ act \subseteq Kinds /\ sent \in [Kinds -> 0..3]

LEMMA NamesAre ==
  ASSUME NEW n \in Nodes, name[n] \in [Kinds -> 0..MaxName]
  PROVE  /\ MaxName \in Nat /\ Kinds = {"svc", "host"}
         /\ \A x \in Names : /\ x.kind \in Kinds /\ x.no \in 0..MaxName
                             /\ name[n][x.kind] \in 0..MaxName
                             /\ x = Own(n, x.kind) <=> x.no = name[n][x.kind]
         /\ \A k \in Kinds : /\ Own(n, k) \in Names /\ Own(n, k).kind = k
                             /\ Own(n, k).no = name[n][k]
         /\ \A k \in Kinds, i \in 0..MaxName :
              Name(k, i) \in Names /\ Name(k, i).kind = k /\ Name(k, i).no = i
<1>1. MaxName \in Nat
  BY WantedAssumption
<1>2. \A k \in Kinds, i \in 0..MaxName :
        Name(k, i) \in Names /\ Name(k, i).kind = k /\ Name(k, i).no = i
  BY DEF Names, Name
<1>3. \A x \in Names : x.kind \in Kinds /\ x.no \in 0..MaxName /\ x = Name(x.kind, x.no)
  BY DEF Names, Name
<1>4. \A k \in Kinds : Own(n, k) = Name(k, name[n][k]) /\ name[n][k] \in 0..MaxName
  BY DEF Own
<1>. QED  BY <1>1, <1>2, <1>3, <1>4 DEF Kinds

LEMMA ProbeSet ==
  Probe = [on : BOOLEAN, left : 0..7, next : 0..4, rec : BOOLEAN, waits : BOOLEAN]
BY DEF Probe, Lifetime, Backoff

LEMMA ProbeIs ==
  ASSUME NEW p \in Probe
  PROVE  /\ p.on \in BOOLEAN /\ p.left \in 0..7 /\ p.next \in 0..4
         /\ p.rec \in BOOLEAN /\ p.waits \in BOOLEAN
BY DEF Probe, Lifetime, Backoff

LEMMA NewProbeIs ==
  ASSUME NEW d \in 0..1, NEW w \in BOOLEAN
  PROVE  /\ NewProbe(d, w) \in Probe /\ NewProbe(d, w).on /\ NewProbe(d, w).rec
         /\ NewProbe(d, w).left = 3 + d /\ NewProbe(d, w).next = d
BY DEF NewProbe, Probe, Lifetime, Backoff

LEMMA NoProbeIs == NoProbe \in Probe /\ ~NoProbe.on /\ ~NoProbe.rec
BY DEF NoProbe, Probe, Lifetime, Backoff

\* The changes of a probe.
LEMMA ProbeChanges ==
  ASSUME NEW p \in Probe
  PROVE  /\ LET q == [p EXCEPT !.rec = TRUE, !.waits = TRUE]
            IN  q \in Probe /\ q.on = p.on /\ q.rec /\ q.left = p.left /\ q.next = p.next
         /\ LET q == [p EXCEPT !.rec = FALSE]
            IN  q \in Probe /\ q.on = p.on /\ ~q.rec
         /\ LET q == [p EXCEPT !.next = 1]
            IN  /\ q \in Probe /\ q.on = p.on /\ q.rec = p.rec
                /\ q.left = p.left /\ q.next = 1
         /\ LET q == [p EXCEPT !.left = Backoff + Lifetime, !.next = Backoff]
            IN  q \in Probe /\ q.on = p.on /\ q.rec = p.rec /\ q.left = 7 /\ q.next = 4
<1>1. LET q == [p EXCEPT !.rec = TRUE, !.waits = TRUE]
      IN  q \in Probe /\ q.on = p.on /\ q.rec /\ q.left = p.left /\ q.next = p.next
  BY ProbeSet
<1>2. LET q == [p EXCEPT !.rec = FALSE]
      IN  q \in Probe /\ q.on = p.on /\ ~q.rec
  BY ProbeSet
<1>3. LET q == [p EXCEPT !.next = 1]
      IN  q \in Probe /\ q.on = p.on /\ q.rec = p.rec /\ q.left = p.left /\ q.next = 1
  BY ProbeSet
<1>4. LET q == [p EXCEPT !.left = Backoff + Lifetime, !.next = Backoff]
      IN  q \in Probe /\ q.on = p.on /\ q.rec = p.rec /\ q.left = 7 /\ q.next = 4
  <2>. DEFINE i == Backoff + Lifetime
              j == Backoff
              q == [p EXCEPT !.left = i, !.next = j]
  <2>1. i \in 0..7 /\ j \in 0..4 /\ i = 7 /\ j = 4
    BY DEF Backoff, Lifetime
  <2>. HIDE DEF i, j
  <2>2. q \in Probe
    BY <2>1, ProbeSet
  <2>3. q.on = p.on /\ q.rec = p.rec /\ q.left = i /\ q.next = j
    BY <2>1, ProbeSet
  <2>4. q \in Probe /\ q.on = p.on /\ q.rec = p.rec /\ q.left = 7 /\ q.next = 4
    BY <2>1, <2>2, <2>3
  <2>. QED  BY <2>4 DEF i, j
<1>. QED  BY <1>1, <1>2, <1>3, <1>4

LEMMA OlderIs ==
  ASSUME NEW p \in Probe
  PROVE  /\ ProbeOlder(p) \in Probe /\ ProbeOlder(p).on = p.on /\ ProbeOlder(p).rec = p.rec
         /\ ProbeOlder(p).left = (IF p.left = 0 THEN 0 ELSE p.left - 1)
         /\ ProbeOlder(p).next = (IF p.next = 0 THEN 0 ELSE p.next - 1)
<1>. DEFINE i == IF p.left = 0 THEN 0 ELSE p.left - 1
            j == IF p.next = 0 THEN 0 ELSE p.next - 1
            q == [p EXCEPT !.left = i, !.next = j]
<1>1. i \in 0..7 /\ j \in 0..4
  BY ProbeIs
<1>2. ProbeOlder(p) = q
  BY DEF ProbeOlder
<1>. HIDE DEF i, j
<1>3. q \in Probe
  BY <1>1, ProbeSet
<1>4. q.on = p.on /\ q.rec = p.rec /\ q.left = i /\ q.next = j
  BY <1>1, ProbeSet
<1>. HIDE DEF q
<1>. QED  BY <1>2, <1>3, <1>4 DEF i, j

LEMMA RestartedIs ==
  ASSUME NEW p \in Probe, NEW d \in 0..1
  PROVE  /\ Restarted(p, d) \in Probe /\ Restarted(p, d).on = p.on /\ Restarted(p, d).rec
         /\ Restarted(p, d).next = p.next
         /\ Restarted(p, d).left
              = 3 + (IF ~Begun(p) /\ p.next = 1 THEN 1 ELSE d)
<1>. DEFINE i == 3 + (IF ~Begun(p) /\ p.next = 1 THEN 1 ELSE d)
            q == [p EXCEPT !.rec = TRUE, !.left = i]
<1>1. i \in 0..7
  OBVIOUS
<1>2. Restarted(p, d) = q
  BY DEF Restarted, Lifetime
<1>. HIDE DEF i
<1>3. q \in Probe
  BY <1>1, ProbeSet
<1>4. q.on = p.on /\ q.rec /\ q.left = i /\ q.next = p.next
  BY <1>1, ProbeSet
<1>. HIDE DEF q
<1>. QED  BY <1>2, <1>3, <1>4 DEF i

\* The invariant of probing: the types, and every node's probes as above.
ProbingInv ==
  /\ ProbingTypeOK
  /\ \A n \in Nodes : Probes(probing[n], name[n], active[n], asks[n])

LEMMA NodeTypesAre ==
  ASSUME ProbingTypeOK, NEW n \in Nodes
  PROVE  NodeTypes(probing[n], name[n], active[n], asks[n])
BY DEF ProbingTypeOK, NodeTypes

\* A step of one node leaves the others' probes alone.
LEMMA NodeStep ==
  ASSUME ProbingInv, NEW n \in Nodes, NEW pr, NEW nm, NEW act, NEW sent,
         NodeTypes(pr, nm, act, sent), Probes(pr, nm, act, sent),
         probing' = [probing EXCEPT ![n] = pr], name' = [name EXCEPT ![n] = nm],
         active' = [active EXCEPT ![n] = act], asks' = [asks EXCEPT ![n] = sent]
  PROVE  /\ probing' \in [Nodes -> [Names -> Probe]]
         /\ name' \in [Nodes -> [Kinds -> 0..MaxName]]
         /\ active' \in [Nodes -> SUBSET Kinds] /\ asks' \in [Nodes -> [Kinds -> 0..3]]
         /\ \A m \in Nodes : Probes(probing'[m], name'[m], active'[m], asks'[m])
<1>1. /\ probing \in [Nodes -> [Names -> Probe]] /\ name \in [Nodes -> [Kinds -> 0..MaxName]]
      /\ active \in [Nodes -> SUBSET Kinds] /\ asks \in [Nodes -> [Kinds -> 0..3]]
      /\ \A m \in Nodes : Probes(probing[m], name[m], active[m], asks[m])
  BY DEF ProbingInv, ProbingTypeOK
<1>2. /\ pr \in [Names -> Probe] /\ nm \in [Kinds -> 0..MaxName]
      /\ act \in SUBSET Kinds /\ sent \in [Kinds -> 0..3]
  BY DEF NodeTypes
<1>3. ASSUME NEW m \in Nodes
      PROVE  Probes(probing'[m], name'[m], active'[m], asks'[m])
  <2>1. CASE m = n
    <3>1. probing'[m] = pr /\ name'[m] = nm /\ active'[m] = act /\ asks'[m] = sent
      BY <1>1, <2>1
    <3>. QED  BY <3>1
  <2>2. CASE m # n
    <3>1. /\ probing'[m] = probing[m] /\ name'[m] = name[m]
          /\ active'[m] = active[m] /\ asks'[m] = asks[m]
      BY <1>1, <2>2
    <3>. QED  BY <1>1, <3>1
  <2>. QED  BY <2>1, <2>2
<1>. QED  BY <1>1, <1>2, <1>3

\* What a node keeps is what it had.
LEMMA Kept ==
  ASSUME ProbingTypeOK, NEW n \in Nodes
  PROVE  /\ name = [name EXCEPT ![n] = name[n]] /\ active = [active EXCEPT ![n] = active[n]]
         /\ asks = [asks EXCEPT ![n] = asks[n]]
BY DEF ProbingTypeOK

LEMMA ToOthersIs ==
  ASSUME NEW n \in Nodes, NEW is \in {"query", "response"},
         NEW names \in SUBSET Names, NEW auth \in SUBSET Names
  PROVE  ToOthers(n, is, names, auth) \subseteq Packet
BY DEF ToOthers, Packet

\* is_probing_done: a record that is put into a probe has all its queries before it.
LEMMA ProbeForIs ==
  ASSUME NEW n \in Nodes, NEW pr, NEW act, NEW sent, NEW d \in 0..1,
         NodeTypes(pr, name[n], act, sent), Probes(pr, name[n], act, sent)
  PROVE  /\ NodeTypes(ProbeFor(n, pr, Kinds \ act, d), name[n], act, sent)
         /\ Probes(ProbeFor(n, pr, Kinds \ act, d), name[n], act, sent)
<1>. DEFINE q == ProbeFor(n, pr, Kinds \ act, d)
<1>1. /\ pr \in [Names -> Probe] /\ name[n] \in [Kinds -> 0..MaxName]
      /\ act \subseteq Kinds /\ sent \in [Kinds -> 0..3]
  BY DEF NodeTypes
<1>2. /\ Kinds = {"svc", "host"} /\ MaxName \in Nat
      /\ \A x \in Names : /\ x.kind \in Kinds /\ x.no \in 0..MaxName
                          /\ name[n][x.kind] \in 0..MaxName
                          /\ x = Own(n, x.kind) <=> x.no = name[n][x.kind]
  BY <1>1, NamesAre
<1>3. ASSUME NEW x \in Names
      PROVE  /\ q[x] \in Probe /\ (q[x].on => x.no <= name[n][x.kind])
             /\ q[x].rec <=> q[x].on /\ x.no = name[n][x.kind]
             /\ q[x].rec => x.kind \notin act /\ OnTime(x.kind, q[x], sent[x.kind])
  <2>. DEFINE mine == x.kind \notin act /\ x.no = name[n][x.kind]
  <2>1. q[x] = IF mine
               THEN IF pr[x].on THEN [pr[x] EXCEPT !.rec = TRUE, !.waits = TRUE]
                    ELSE NewProbe(d, TRUE)
               ELSE pr[x]
    BY <1>2 DEF ProbeFor
  <2>2. /\ pr[x] \in Probe /\ (pr[x].on => x.no <= name[n][x.kind])
        /\ pr[x].rec <=> pr[x].on /\ x.no = name[n][x.kind]
        /\ pr[x].rec => x.kind \notin act /\ OnTime(x.kind, pr[x], sent[x.kind])
    BY <1>1 DEF Probes
  <2>3. CASE mine /\ pr[x].on
    <3>1. /\ q[x] \in Probe /\ q[x].on /\ q[x].rec
          /\ q[x].left = pr[x].left /\ q[x].next = pr[x].next
      <4>1. q[x] = [pr[x] EXCEPT !.rec = TRUE, !.waits = TRUE]
        BY <2>1, <2>3
      <4>. DEFINE e == [pr[x] EXCEPT !.rec = TRUE, !.waits = TRUE]
      <4>2. e \in Probe /\ e.on = pr[x].on /\ e.rec /\ e.left = pr[x].left /\ e.next = pr[x].next
        BY <2>2, ProbeChanges
      <4>. HIDE DEF e
      <4>3. q[x] = e
        BY <4>1 DEF e
      <4>. HIDE DEF q
      <4>. QED  BY <2>3, <4>2, <4>3
    <3>2. OnTime(x.kind, q[x], sent[x.kind])
      BY <2>2, <2>3, <3>1 DEF OnTime
    <3>. QED  BY <2>2, <2>3, <3>1, <3>2
  <2>4. CASE mine /\ ~pr[x].on
    <3>1. q[x] \in Probe /\ q[x].on /\ q[x].rec /\ q[x].left = 3 + d /\ q[x].next = d
      BY <2>1, <2>4, NewProbeIs
    <3>2. sent[x.kind] \in 0..3
      BY <1>1, <1>2
    <3>3. OnTime(x.kind, q[x], sent[x.kind])
      BY <3>1, <3>2 DEF OnTime, Lifetime
    <3>. QED  BY <1>2, <2>4, <3>1, <3>3
  <2>5. CASE ~mine
    <3>1. q[x] = pr[x]
      BY <2>1, <2>5
    <3>. QED  BY <2>2, <3>1
  <2>. QED  BY <2>3, <2>4, <2>5
<1>4. q = [x \in Names |-> q[x]]
  BY DEF ProbeFor
<1>. HIDE DEF q
<1>5. q \in [Names -> Probe]
  BY <1>3, <1>4
<1>6. ("host" \in act => sent["host"] = 3) /\ ("svc" \in act => sent["svc"] # 0)
  BY DEF Probes
<1>7. NodeTypes(q, name[n], act, sent)
  BY <1>1, <1>5 DEF NodeTypes
<1>8. Probes(q, name[n], act, sent)
  BY <1>3, <1>6 DEF Probes
<1>. QED  BY <1>7, <1>8 DEF q

\* announce_service_on_intf of one node: the probes stay in order, and a service is
\* announced only when both its records are active.
LEMMA AnnounceIs ==
  ASSUME ProbingInv, NEW n \in Nodes, NEW pr, NEW done, NEW sent,
         NEW queries \in SUBSET Packet,
         NodeTypes(pr, name[n], done, sent), Probes(pr, name[n], done, sent),
         Announce(n, pr, done, queries)
  PROVE  /\ status' \in [Nodes -> {"none", "probing", "announced"}] /\ wire' \subseteq Packet
         /\ \E q : /\ probing' = [probing EXCEPT ![n] = q]
                   /\ NodeTypes(q, name[n], done, sent) /\ Probes(q, name[n], done, sent)
         /\ \A m \in Nodes : status[m] # "announced" /\ status'[m] = "announced"
              => m = n /\ done = Kinds
<1>1. status \in [Nodes -> {"none", "probing", "announced"}] /\ wire \subseteq Packet
      /\ name[n] \in [Kinds -> 0..MaxName]
  BY DEF ProbingInv, ProbingTypeOK
<1>2. CASE done = Kinds
  <2>1. /\ status' = [status EXCEPT ![n] = "announced"]
        /\ probing' = [probing EXCEPT ![n] = pr]
        /\ wire' = wire \cup queries \cup ToOthers(n, "response", OwnNames(n), {})
    BY <1>2 DEF Announce
  <2>2. OwnNames(n) \subseteq Names
    BY <1>1, NamesAre DEF OwnNames
  <2>3. wire' \subseteq Packet
    BY <1>1, <2>1, <2>2, ToOthersIs
  <2>. QED  BY <1>1, <1>2, <2>1, <2>3
<1>3. CASE done # Kinds
  <2>1. /\ status' = [status EXCEPT ![n] = "probing"] /\ wire' = wire \cup queries
        /\ \E d \in 0..1 :
             probing' = [probing EXCEPT ![n] = ProbeFor(n, pr, Kinds \ done, d)]
    BY <1>3 DEF Announce
  <2>2. PICK d \in 0..1 :
          probing' = [probing EXCEPT ![n] = ProbeFor(n, pr, Kinds \ done, d)]
    BY <2>1
  <2>3. /\ NodeTypes(ProbeFor(n, pr, Kinds \ done, d), name[n], done, sent)
        /\ Probes(ProbeFor(n, pr, Kinds \ done, d), name[n], done, sent)
    BY ProbeForIs
  <2>. QED  BY <1>1, <2>1, <2>2, <2>3
<1>. QED  BY <1>2, <1>3

\* What NeverUnasked says of a step.
AskedRight ==
  \A n \in Nodes : status[n] # "announced" /\ status'[n] = "announced"
    => asks[n]["host"] = 3 /\ asks[n]["svc"] # 0

LEMMA RegisterServiceStep ==
  ASSUME ProbingInv, NEW n \in Nodes, RegisterService(n)
  PROVE  ProbingInv' /\ AskedRight
<1>1. /\ ProbingTypeOK /\ NodeTypes(probing[n], name[n], active[n], asks[n])
      /\ Probes(probing[n], name[n], active[n], asks[n])
  BY NodeTypesAre DEF ProbingInv
<1>2. /\ Announce(n, probing[n], active[n], {})
      /\ did' = [did EXCEPT ![n].reg = @ + 1] /\ did[n].reg < MaxRegisters
      /\ UNCHANGED <<name, active, asks, lost>>
  BY DEF RegisterService
<1>3. /\ status' \in [Nodes -> {"none", "probing", "announced"}] /\ wire' \subseteq Packet
      /\ \E q : /\ probing' = [probing EXCEPT ![n] = q]
                /\ NodeTypes(q, name[n], active[n], asks[n])
                /\ Probes(q, name[n], active[n], asks[n])
      /\ \A m \in Nodes : status[m] # "announced" /\ status'[m] = "announced"
           => m = n /\ active[n] = Kinds
  <2>1. {} \in SUBSET Packet
    OBVIOUS
  <2>. QED  BY <1>1, <1>2, <2>1, AnnounceIs
<1>4. PICK q : /\ probing' = [probing EXCEPT ![n] = q]
               /\ NodeTypes(q, name[n], active[n], asks[n])
               /\ Probes(q, name[n], active[n], asks[n])
  BY <1>3
<1>5. /\ name' = [name EXCEPT ![n] = name[n]] /\ active' = [active EXCEPT ![n] = active[n]]
      /\ asks' = [asks EXCEPT ![n] = asks[n]]
  BY <1>1, <1>2, Kept
<1>6. /\ probing' \in [Nodes -> [Names -> Probe]]
      /\ name' \in [Nodes -> [Kinds -> 0..MaxName]]
      /\ active' \in [Nodes -> SUBSET Kinds] /\ asks' \in [Nodes -> [Kinds -> 0..3]]
      /\ \A m \in Nodes : Probes(probing'[m], name'[m], active'[m], asks'[m])
  BY <1>4, <1>5, NodeStep
<1>7. did' \in [Nodes -> [reg : 0..MaxRegisters, unreg : 0..MaxUnregisters]]
  <2>. DEFINE Done == [reg : 0..MaxRegisters, unreg : 0..MaxUnregisters]
  <2>1. did \in [Nodes -> Done] /\ did[n] \in Done
    BY <1>1 DEF ProbingTypeOK
  <2>2. did[n].reg + 1 \in 0..MaxRegisters
    BY <1>2, <2>1, WantedAssumption
  <2>3. [did[n] EXCEPT !.reg = @ + 1] \in Done
    BY <2>1, <2>2
  <2>4. did' = [did EXCEPT ![n] = [did[n] EXCEPT !.reg = @ + 1]]
    BY <1>2, <2>1
  <2>. HIDE DEF Done
  <2>5. did' \in [Nodes -> Done]
    BY <2>1, <2>3, <2>4
  <2>. QED  BY <2>5 DEF Done
<1>8. lost' \in 0..MaxLost
  BY <1>1, <1>2 DEF ProbingTypeOK
<1>9. AskedRight
  BY <1>1, <1>3 DEF AskedRight, Probes, Kinds
<1>. QED  BY <1>3, <1>6, <1>7, <1>8, <1>9 DEF ProbingInv, ProbingTypeOK

\* exec_command_unregister leaves the registry as it is.
LEMMA UnregisterServiceStep ==
  ASSUME ProbingInv, NEW n \in Nodes, UnregisterService(n)
  PROVE  ProbingInv' /\ AskedRight
<1>1. ProbingTypeOK /\ \A m \in Nodes : Probes(probing[m], name[m], active[m], asks[m])
  BY DEF ProbingInv
<1>2. /\ did' = [did EXCEPT ![n].unreg = @ + 1] /\ did[n].unreg < MaxUnregisters
      /\ status' = [status EXCEPT ![n] = "none"]
      /\ wire' = wire \cup ToOthers(n, "response", {Name(k, Wanted[n][k]) : k \in Kinds}, {})
      /\ UNCHANGED <<name, probing, active, asks, lost>>
  BY DEF UnregisterService
<1>3. status' \in [Nodes -> {"none", "probing", "announced"}] /\ AskedRight
  BY <1>1, <1>2 DEF ProbingTypeOK, AskedRight
<1>4. wire' \subseteq Packet
  <2>1. {Name(k, Wanted[n][k]) : k \in Kinds} \subseteq Names
    BY WantedAssumption DEF Name, Names, Kinds
  <2>. QED  BY <1>1, <1>2, <2>1, ToOthersIs DEF ProbingTypeOK
<1>5. did' \in [Nodes -> [reg : 0..MaxRegisters, unreg : 0..MaxUnregisters]]
  <2>. DEFINE Done == [reg : 0..MaxRegisters, unreg : 0..MaxUnregisters]
  <2>1. did \in [Nodes -> Done] /\ did[n] \in Done
    BY <1>1 DEF ProbingTypeOK
  <2>2. did[n].unreg + 1 \in 0..MaxUnregisters
    BY <1>2, <2>1, WantedAssumption
  <2>3. [did[n] EXCEPT !.unreg = @ + 1] \in Done
    BY <2>1, <2>2
  <2>4. did' = [did EXCEPT ![n] = [did[n] EXCEPT !.unreg = @ + 1]]
    BY <1>2, <2>1
  <2>. HIDE DEF Done
  <2>5. did' \in [Nodes -> Done]
    BY <2>1, <2>3, <2>4
  <2>. QED  BY <2>5 DEF Done
<1>. QED  BY <1>1, <1>2, <1>3, <1>4, <1>5 DEF ProbingInv, ProbingTypeOK

\* probing_handler: what it sends is counted, and what it finishes was asked for.
LEMMA ProbingHandlerStep ==
  ASSUME ProbingInv, NEW n \in Nodes, ProbingHandler(n)
  PROVE  ProbingInv' /\ AskedRight
<1>. DEFINE pr       == probing[n]
            finished == {x \in Names : Finished(pr[x])}
            sends    == {x \in Names : Due(pr[x])} \ finished
            with     == {x \in finished : pr[x].rec}
            done     == active[n] \cup {x.kind : x \in with}
            wakes    == status[n] = "probing" /\ \E x \in with : pr[x].waits
            queries  == ToOthers(n, "query", sends, {x \in sends : pr[x].rec})
            after    == [x \in Names |->
                           IF x \in finished THEN NoProbe
                           ELSE IF x \in sends THEN [pr[x] EXCEPT !.next = 1]
                           ELSE pr[x]]
            sent     == [k \in Kinds |-> IF Own(n, k) \in sends /\ asks[n][k] < 3
                                         THEN asks[n][k] + 1 ELSE asks[n][k]]
<1>1. ProbingTypeOK /\ NodeTypes(pr, name[n], active[n], asks[n])
      /\ Probes(pr, name[n], active[n], asks[n])
  BY NodeTypesAre DEF ProbingInv
<1>2. /\ asks' = [asks EXCEPT ![n] = sent] /\ active' = [active EXCEPT ![n] = done]
      /\ IF wakes THEN Announce(n, after, done, queries)
         ELSE /\ probing' = [probing EXCEPT ![n] = after] /\ wire' = wire \cup queries
              /\ UNCHANGED status
      /\ UNCHANGED <<name, did, lost>>
  <2>1. asks' = [asks EXCEPT ![n] = [k \in Kinds |->
                   IF Own(n, k) \in sends /\ @[k] < 3 THEN @[k] + 1 ELSE @[k]]]
    BY DEF ProbingHandler
  <2>2. asks' = [asks EXCEPT ![n] = sent]
    BY <2>1
  <2>. QED  BY <2>2 DEF ProbingHandler
<1>3. /\ pr \in [Names -> Probe] /\ name[n] \in [Kinds -> 0..MaxName]
      /\ active[n] \subseteq Kinds /\ asks[n] \in [Kinds -> 0..3]
  BY <1>1 DEF NodeTypes
<1>4. /\ Kinds = {"svc", "host"} /\ MaxName \in Nat
      /\ \A x \in Names : /\ x.kind \in Kinds /\ x.no \in 0..MaxName
                          /\ name[n][x.kind] \in 0..MaxName
                          /\ x = Own(n, x.kind) <=> x.no = name[n][x.kind]
      /\ \A k \in Kinds : /\ Own(n, k) \in Names /\ Own(n, k).kind = k
                          /\ Own(n, k).no = name[n][k]
  BY <1>3, NamesAre
<1>5. /\ \A x \in Names :
           /\ pr[x] \in Probe /\ (pr[x].on => x.no <= name[n][x.kind])
           /\ pr[x].rec <=> pr[x].on /\ x.no = name[n][x.kind]
           /\ pr[x].rec => x.kind \notin active[n] /\ OnTime(x.kind, pr[x], asks[n][x.kind])
      /\ "host" \in active[n] => asks[n]["host"] = 3
      /\ "svc" \in active[n] => asks[n]["svc"] # 0
  BY <1>1, <1>3 DEF Probes
<1>6. \A x \in Names : /\ x \in finished <=> pr[x].on /\ pr[x].next = 0 /\ pr[x].left = 0
                       /\ x \in sends <=> pr[x].on /\ pr[x].next = 0 /\ pr[x].left # 0
  BY DEF Finished, Due
<1>7. sent \in [Kinds -> 0..3]
      /\ \A k \in Kinds : sent[k] = IF Own(n, k) \in sends /\ asks[n][k] < 3
                                    THEN asks[n][k] + 1 ELSE asks[n][k]
  BY <1>3
<1>8. finished \subseteq Names /\ sends \subseteq Names /\ with \subseteq finished
  OBVIOUS
<1>9. \A x \in Names : x \in with <=> x \in finished /\ pr[x].rec
  OBVIOUS
<1>10. \A k : k \in done <=> k \in active[n] \/ \E x \in with : x.kind = k
  OBVIOUS
<1>. HIDE DEF finished, sends, with, done, sent
\* The active kinds were asked for.
<1>11. done \subseteq Kinds /\ ("host" \in done => asks[n]["host"] = 3)
       /\ ("svc" \in done => asks[n]["svc"] # 0)
  <2>1. ASSUME NEW x \in with
        PROVE  /\ x.kind \in Kinds /\ (x.kind = "host" => asks[n]["host"] = 3)
               /\ (x.kind = "svc" => asks[n]["svc"] # 0)
    <3>1. /\ x \in Names /\ pr[x].rec /\ pr[x].next = 0 /\ pr[x].left = 0
          /\ x.kind \in Kinds /\ asks[n][x.kind] \in 0..3
      BY <1>3, <1>4, <1>6, <1>8, <1>9
    <3>2. OnTime(x.kind, pr[x], asks[n][x.kind])
      BY <1>5, <3>1
    <3>. QED  BY <3>1, <3>2 DEF OnTime, Lifetime
  <2>. QED  BY <1>3, <1>5, <1>10, <2>1
<1>12. ("host" \in done => sent["host"] = 3) /\ ("svc" \in done => sent["svc"] # 0)
  BY <1>3, <1>4, <1>7, <1>11
<1>13. ASSUME NEW x \in Names
       PROVE  /\ after[x] \in Probe /\ (after[x].on => x.no <= name[n][x.kind])
              /\ after[x].rec <=> after[x].on /\ x.no = name[n][x.kind]
              /\ after[x].rec => x.kind \notin done /\ OnTime(x.kind, after[x], sent[x.kind])
  <2>1. after[x] = IF x \in finished THEN NoProbe
                   ELSE IF x \in sends THEN [pr[x] EXCEPT !.next = 1] ELSE pr[x]
    OBVIOUS
  <2>2. /\ pr[x] \in Probe /\ (pr[x].on => x.no <= name[n][x.kind])
        /\ pr[x].rec <=> pr[x].on /\ x.no = name[n][x.kind]
        /\ pr[x].rec => x.kind \notin active[n] /\ OnTime(x.kind, pr[x], asks[n][x.kind])
        /\ x.kind \in Kinds /\ asks[n][x.kind] \in 0..3
    BY <1>3, <1>4, <1>5
  \* A record in an unfinished probe has not become active.
  <2>3. pr[x].rec /\ x \notin finished => x.kind \notin done
    <3>. SUFFICES ASSUME pr[x].rec, x \notin finished, NEW y \in with, y.kind = x.kind
                  PROVE  FALSE
      BY <1>10, <2>2
    <3>1. y \in Names /\ pr[y].rec /\ y \in finished
      BY <1>8, <1>9
    <3>2. y.no = name[n][y.kind] /\ x.no = name[n][x.kind]
      BY <1>5, <2>2, <3>1
    <3>3. y = x
      BY <1>4, <3>1, <3>2
    <3>. QED  BY <3>1, <3>3
  <2>4. CASE x \in finished
    BY <2>1, <2>4, NoProbeIs
  <2>5. CASE x \notin finished /\ x \in sends
    <3>. DEFINE e == [pr[x] EXCEPT !.next = 1]
    <3>1. e \in Probe /\ e.on = pr[x].on /\ e.rec = pr[x].rec /\ e.left = pr[x].left
          /\ e.next = 1
      BY <2>2, ProbeChanges
    <3>2. after[x] = e
      BY <2>1, <2>5
    <3>. HIDE DEF e, after
    <3>3. e.rec => OnTime(x.kind, e, sent[x.kind])
      <4>. SUFFICES ASSUME e.rec PROVE OnTime(x.kind, e, sent[x.kind])
        OBVIOUS
      <4>1. OnTime(x.kind, pr[x], asks[n][x.kind]) /\ x = Own(n, x.kind)
        BY <1>4, <2>2, <3>1
      <4>2. sent[x.kind] = IF asks[n][x.kind] < 3 THEN asks[n][x.kind] + 1 ELSE asks[n][x.kind]
        BY <1>7, <2>2, <2>5, <4>1
      <4>3. pr[x].next = 0 /\ pr[x].left # 0 /\ pr[x].left \in 0..7
        BY <1>6, <2>2, <2>5, ProbeIs
      <4>. QED  BY <2>2, <3>1, <4>1, <4>2, <4>3 DEF OnTime, Lifetime
    <3>. QED  BY <2>2, <2>3, <2>5, <3>1, <3>2, <3>3
  <2>6. CASE x \notin finished /\ x \notin sends
    <3>1. after[x] = pr[x]
      BY <2>1, <2>6
    <3>2. pr[x].rec => sent[x.kind] = asks[n][x.kind]
      BY <1>4, <1>7, <2>2, <2>6
    <3>. HIDE DEF after
    <3>. QED  BY <2>2, <2>3, <2>6, <3>1, <3>2
  <2>. QED  BY <2>4, <2>5, <2>6
<1>14. after = [x \in Names |-> after[x]]
  OBVIOUS
<1>15. queries \in SUBSET Packet
  <2>. DEFINE auth == {x \in sends : pr[x].rec}
  <2>1. sends \in SUBSET Names /\ auth \in SUBSET Names
    BY <1>8
  <2>. HIDE DEF auth
  <2>. QED  BY <2>1, ToOthersIs
<1>. HIDE DEF after, queries, wakes
<1>16. NodeTypes(after, name[n], done, sent) /\ Probes(after, name[n], done, sent)
  <2>1. after \in [Names -> Probe]
    BY <1>13, <1>14
  <2>2. NodeTypes(after, name[n], done, sent)
    BY <1>3, <1>7, <1>11, <2>1 DEF NodeTypes
  <2>3. Probes(after, name[n], done, sent)
    BY <1>12, <1>13 DEF Probes
  <2>. QED  BY <2>2, <2>3
<1>17. /\ status' \in [Nodes -> {"none", "probing", "announced"}] /\ wire' \subseteq Packet
       /\ \E q : /\ probing' = [probing EXCEPT ![n] = q]
                 /\ NodeTypes(q, name[n], done, sent) /\ Probes(q, name[n], done, sent)
       /\ \A m \in Nodes : status[m] # "announced" /\ status'[m] = "announced"
            => m = n /\ done = Kinds
  <2>1. CASE wakes
    <3>1. Announce(n, after, done, queries)
      BY <1>2, <2>1
    <3>. QED  BY <1>15, <1>16, <3>1, AnnounceIs
  <2>2. CASE ~wakes
    <3>1. /\ probing' = [probing EXCEPT ![n] = after] /\ wire' = wire \cup queries
          /\ UNCHANGED status
      BY <1>2, <2>2
    <3>. QED  BY <1>1, <1>15, <1>16, <3>1 DEF ProbingTypeOK
  <2>. QED  BY <2>1, <2>2
<1>18. PICK q : /\ probing' = [probing EXCEPT ![n] = q]
                /\ NodeTypes(q, name[n], done, sent) /\ Probes(q, name[n], done, sent)
  BY <1>17
<1>19. name' = [name EXCEPT ![n] = name[n]]
  BY <1>1, <1>2, Kept
<1>20. /\ probing' \in [Nodes -> [Names -> Probe]]
       /\ name' \in [Nodes -> [Kinds -> 0..MaxName]]
       /\ active' \in [Nodes -> SUBSET Kinds] /\ asks' \in [Nodes -> [Kinds -> 0..3]]
       /\ \A m \in Nodes : Probes(probing'[m], name'[m], active'[m], asks'[m])
  BY <1>2, <1>18, <1>19, NodeStep
<1>21. UNCHANGED <<did, lost>>
  BY <1>2
<1>22. AskedRight
  BY <1>4, <1>11, <1>17 DEF AskedRight
<1>. QED  BY <1>1, <1>17, <1>20, <1>21, <1>22 DEF ProbingInv, ProbingTypeOK

\* handle_query for a probe: only a probe that has asked can lose a tie, and one that
\* lost has all its queries before it.
LEMMA HandleProbeStep ==
  ASSUME ProbingInv, NEW p \in wire, HandleProbe(p)
  PROVE  ProbingInv' /\ AskedRight
<1>. DEFINE n == p.to
            pr == probing[n]
            loses(x) == x \in p.names /\ LosesTie(n, p.from, x, p.auth)
            q == [x \in Names |->
                    IF loses(x) THEN [pr[x] EXCEPT !.left = Backoff + Lifetime, !.next = Backoff]
                    ELSE pr[x]]
<1>1. ProbingTypeOK /\ \A m \in Nodes : Probes(probing[m], name[m], active[m], asks[m])
  BY DEF ProbingInv
<1>2. n \in Nodes /\ p.names \subseteq Names
  BY <1>1 DEF ProbingTypeOK, Packet
<1>3. /\ probing' = [probing EXCEPT ![n] = q]
      /\ wire' = (wire \ {p}) \cup
           (IF status[n] = "announced"
            THEN ToOthers(n, "response", p.names \cap OwnNames(n), {}) ELSE {})
      /\ UNCHANGED <<status, name, active, asks, did, lost>>
  <2>1. probing \in [Nodes -> [Names -> Probe]]
    BY <1>1 DEF ProbingTypeOK
  <2>. QED  BY <1>2, <2>1 DEF HandleProbe
<1>4. NodeTypes(pr, name[n], active[n], asks[n]) /\ Probes(pr, name[n], active[n], asks[n])
  BY <1>1, <1>2, NodeTypesAre
<1>5. /\ pr \in [Names -> Probe] /\ name[n] \in [Kinds -> 0..MaxName]
      /\ active[n] \subseteq Kinds /\ asks[n] \in [Kinds -> 0..3]
  BY <1>4 DEF NodeTypes
<1>6. \A x \in Names : x.kind \in Kinds
  BY DEF Names
<1>7. ASSUME NEW x \in Names
      PROVE  /\ q[x] \in Probe /\ (q[x].on => x.no <= name[n][x.kind])
             /\ q[x].rec <=> q[x].on /\ x.no = name[n][x.kind]
             /\ q[x].rec => x.kind \notin active[n] /\ OnTime(x.kind, q[x], asks[n][x.kind])
  <2>1. /\ pr[x] \in Probe /\ (pr[x].on => x.no <= name[n][x.kind])
        /\ pr[x].rec <=> pr[x].on /\ x.no = name[n][x.kind]
        /\ pr[x].rec => x.kind \notin active[n] /\ OnTime(x.kind, pr[x], asks[n][x.kind])
        /\ asks[n][x.kind] \in 0..3
    BY <1>4, <1>5, <1>6 DEF Probes
  <2>2. CASE loses(x)
    <3>. DEFINE e == [pr[x] EXCEPT !.left = Backoff + Lifetime, !.next = Backoff]
    <3>1. q[x] = e
      BY <2>2
    <3>2. e \in Probe /\ e.on = pr[x].on /\ e.rec = pr[x].rec /\ e.left = 7 /\ e.next = 4
      BY <2>1, ProbeChanges
    <3>. HIDE DEF e, q
    <3>3. Begun(pr[x]) /\ pr[x].left \in 0..7 /\ pr[x].next \in 0..4
      BY <2>1, <2>2, ProbeIs DEF LosesTie
    <3>4. e.rec => OnTime(x.kind, e, asks[n][x.kind])
      BY <2>1, <3>2, <3>3 DEF OnTime, Begun, Lifetime
    <3>. QED  BY <2>1, <3>1, <3>2, <3>4
  <2>3. CASE ~loses(x)
    <3>1. q[x] = pr[x]
      BY <2>3
    <3>. HIDE DEF q
    <3>. QED  BY <2>1, <3>1
  <2>. QED  BY <2>2, <2>3
<1>8. q = [x \in Names |-> q[x]]
  OBVIOUS
<1>. HIDE DEF q
<1>9. NodeTypes(q, name[n], active[n], asks[n]) /\ Probes(q, name[n], active[n], asks[n])
  <2>1. q \in [Names -> Probe]
    BY <1>7, <1>8
  <2>2. NodeTypes(q, name[n], active[n], asks[n])
    BY <1>5, <2>1 DEF NodeTypes
  <2>3. Probes(q, name[n], active[n], asks[n])
    BY <1>4, <1>7 DEF Probes
  <2>. QED  BY <2>2, <2>3
<1>10. /\ name' = [name EXCEPT ![n] = name[n]] /\ active' = [active EXCEPT ![n] = active[n]]
       /\ asks' = [asks EXCEPT ![n] = asks[n]]
  BY <1>1, <1>2, <1>3, Kept
<1>11. /\ probing' \in [Nodes -> [Names -> Probe]]
       /\ name' \in [Nodes -> [Kinds -> 0..MaxName]]
       /\ active' \in [Nodes -> SUBSET Kinds] /\ asks' \in [Nodes -> [Kinds -> 0..3]]
       /\ \A m \in Nodes : Probes(probing'[m], name'[m], active'[m], asks'[m])
  <2>1. probing' = [probing EXCEPT ![n] = q]
    BY <1>3
  <2>2. /\ NodeTypes(q, name[n], active[n], asks[n]) /\ Probes(q, name[n], active[n], asks[n])
        /\ name' = [name EXCEPT ![n] = name[n]] /\ active' = [active EXCEPT ![n] = active[n]]
        /\ asks' = [asks EXCEPT ![n] = asks[n]] /\ n \in Nodes
    BY <1>2, <1>9, <1>10
  <2>. HIDE DEF n
  <2>. QED  BY <2>1, <2>2, NodeStep, ZenonT(60)
<1>12. wire' \subseteq Packet
  <2>1. ToOthers(n, "response", p.names \cap OwnNames(n), {}) \subseteq Packet
    BY <1>2, ToOthersIs
  <2>. QED  BY <1>1, <1>3, <2>1 DEF ProbingTypeOK
<1>13. UNCHANGED <<status, did, lost>> /\ AskedRight
  BY <1>3 DEF AskedRight
<1>. QED  BY <1>1, <1>11, <1>12, <1>13 DEF ProbingInv, ProbingTypeOK

LEMMA LoseStep ==
  ASSUME ProbingInv, NEW p \in wire, Lose(p)
  PROVE  ProbingInv' /\ AskedRight
<1>1. ProbingTypeOK /\ \A m \in Nodes : Probes(probing[m], name[m], active[m], asks[m])
  BY DEF ProbingInv
<1>2. /\ wire' = wire \ {p} /\ lost' = lost + 1 /\ lost < MaxLost
      /\ UNCHANGED <<status, name, probing, active, asks, did>>
  BY DEF Lose, node
<1>3. lost' \in 0..MaxLost
  BY <1>1, <1>2, WantedAssumption DEF ProbingTypeOK
<1>. QED  BY <1>1, <1>2, <1>3 DEF ProbingInv, ProbingTypeOK, AskedRight

\* Time passes only while nothing is due, so that no query is skipped.
LEMMA QuarterPassesStep ==
  ASSUME ProbingInv, QuarterPasses
  PROVE  ProbingInv' /\ AskedRight
<1>1. ProbingTypeOK /\ \A m \in Nodes : Probes(probing[m], name[m], active[m], asks[m])
  BY DEF ProbingInv
<1>2. /\ \A n \in Nodes, x \in Names : ~Due(probing[n][x])
      /\ probing' = [n \in Nodes |-> [x \in Names |-> ProbeOlder(probing[n][x])]]
      /\ UNCHANGED <<status, name, active, wire, asks, did, lost>>
  BY DEF QuarterPasses
<1>3. probing \in [Nodes -> [Names -> Probe]] /\ asks \in [Nodes -> [Kinds -> 0..3]]
      /\ \A x \in Names : x.kind \in Kinds
  BY <1>1 DEF ProbingTypeOK, Names
<1>4. \A n \in Nodes, x \in Names :
        probing'[n][x] = ProbeOlder(probing[n][x]) /\ probing[n][x] \in Probe
  BY <1>2, <1>3
<1>5. probing' \in [Nodes -> [Names -> Probe]]
  <2>1. \A n \in Nodes, x \in Names : ProbeOlder(probing[n][x]) \in Probe
    BY <1>4, OlderIs
  <2>. QED  BY <1>2, <2>1
<1>6. ASSUME NEW n \in Nodes
      PROVE  Probes(probing'[n], name[n], active[n], asks[n])
  <2>1. ASSUME NEW x \in Names
        PROVE  LET e == probing'[n][x] IN
               /\ e.on => x.no <= name[n][x.kind]
               /\ e.rec <=> e.on /\ x.no = name[n][x.kind]
               /\ e.rec => x.kind \notin active[n] /\ OnTime(x.kind, e, asks[n][x.kind])
    <3>. DEFINE e == probing'[n][x]
                b == probing[n][x]
    <3>1. /\ b.on => x.no <= name[n][x.kind]
          /\ b.rec <=> b.on /\ x.no = name[n][x.kind]
          /\ b.rec => x.kind \notin active[n] /\ OnTime(x.kind, b, asks[n][x.kind])
      BY <1>1 DEF Probes
    <3>2. b \in Probe /\ e = ProbeOlder(b) /\ asks[n][x.kind] \in 0..3
      BY <1>3, <1>4
    <3>3. b.on => b.next # 0
      BY <1>2 DEF Due
    <3>. HIDE DEF e, b
    <3>4. /\ e.on = b.on /\ e.rec = b.rec
          /\ e.left = (IF b.left = 0 THEN 0 ELSE b.left - 1)
          /\ e.next = (IF b.next = 0 THEN 0 ELSE b.next - 1)
          /\ b.left \in 0..7 /\ b.next \in 0..4
      BY <3>2, OlderIs, ProbeIs
    <3>5. e.rec => OnTime(x.kind, e, asks[n][x.kind])
      <4>1. CASE ~b.rec
        BY <3>4, <4>1
      <4>2. CASE b.rec
        <5>1. b.next # 0 /\ OnTime(x.kind, b, asks[n][x.kind])
          BY <3>1, <3>3, <4>2
        <5>. QED  BY <3>2, <3>4, <5>1 DEF OnTime, Lifetime
      <4>. QED  BY <4>1, <4>2
    <3>6. /\ e.on => x.no <= name[n][x.kind]
          /\ e.rec <=> e.on /\ x.no = name[n][x.kind]
          /\ e.rec => x.kind \notin active[n] /\ OnTime(x.kind, e, asks[n][x.kind])
      BY <3>1, <3>4, <3>5
    <3>. QED  BY <3>6 DEF e
  <2>2. /\ "host" \in active[n] => asks[n]["host"] = 3
        /\ "svc" \in active[n] => asks[n]["svc"] # 0
    BY <1>1 DEF Probes
  <2>. QED  BY <2>1, <2>2 DEF Probes
<1>7. \A n \in Nodes : Probes(probing[n], name[n], active[n], asks[n])'
  BY <1>2, <1>6
<1>. QED  BY <1>1, <1>2, <1>5, <1>7 DEF ProbingInv, ProbingTypeOK, AskedRight

\* conflict_handler and update_hostname: a record that has to take another name begins
\* with all its queries before it, and a service whose host is renamed either begins
\* again or goes on with a probe that has asked or has all its queries before it.
LEMMA RenamedProbesIs ==
  ASSUME ProbingTypeOK, NEW n \in Nodes, NEW lose \in SUBSET Names,
         Probes(probing[n], name[n], active[n], asks[n]),
         \A x \in lose : probing[n][x].on /\ probing[n][x].rec /\ x.no < MaxName,
         NEW delay \in [Kinds -> 0..1], NEW nm, NEW sent, NEW act,
         nm = [k \in Kinds |-> IF k \in {x.kind : x \in lose} THEN name[n][k] + 1
                               ELSE name[n][k]],
         sent = [k \in Kinds |-> IF k \in {x.kind : x \in lose} THEN 0 ELSE asks[n][k]],
         act = IF "host" \in {x.kind : x \in lose} THEN active[n] \ {"svc"} ELSE active[n]
  PROVE  /\ NodeTypes(RenamedProbes(n, lose, delay), nm, act, sent)
         /\ Probes(RenamedProbes(n, lose, delay), nm, act, sent)
<1>. DEFINE pr == probing[n]
            renamed == {x.kind : x \in lose}
            next == {Name(x.kind, x.no + 1) : x \in lose}
            moved == Moved(pr, lose, delay)
            svc == IF "svc" \in renamed THEN Name("svc", name[n]["svc"] + 1) ELSE Own(n, "svc")
<1>1. /\ pr \in [Names -> Probe] /\ name[n] \in [Kinds -> 0..MaxName]
      /\ active[n] \subseteq Kinds /\ asks[n] \in [Kinds -> 0..3]
  BY NodeTypesAre DEF NodeTypes
<1>2. /\ Kinds = {"svc", "host"} /\ MaxName \in Nat
      /\ \A x \in Names : /\ x.kind \in Kinds /\ x.no \in 0..MaxName
                          /\ name[n][x.kind] \in 0..MaxName
                          /\ x = Own(n, x.kind) <=> x.no = name[n][x.kind]
      /\ \A k \in Kinds : /\ Own(n, k) \in Names /\ Own(n, k).kind = k
                          /\ Own(n, k).no = name[n][k]
      /\ \A k \in Kinds, i \in 0..MaxName :
           Name(k, i) \in Names /\ Name(k, i).kind = k /\ Name(k, i).no = i
  BY <1>1, NamesAre
<1>3. \A x \in Names :
        /\ pr[x] \in Probe /\ (pr[x].on => x.no <= name[n][x.kind])
        /\ pr[x].rec <=> pr[x].on /\ x.no = name[n][x.kind]
        /\ pr[x].rec => x.kind \notin active[n] /\ OnTime(x.kind, pr[x], asks[n][x.kind])
  BY <1>1 DEF Probes
\* What is contested is the present name of its kind.
<1>4. \A x \in lose : /\ x \in Names /\ x = Own(n, x.kind) /\ x.no = name[n][x.kind]
                      /\ x.no < MaxName /\ x.kind \notin active[n]
  BY <1>2, <1>3
<1>5. \A k \in renamed : /\ k \in Kinds /\ Own(n, k) \in lose /\ k \notin active[n]
                         /\ name[n][k] + 1 \in 0..MaxName
  BY <1>2, <1>4
<1>6. \A k \in Kinds : /\ nm[k] = IF k \in renamed THEN name[n][k] + 1 ELSE name[n][k]
                       /\ sent[k] = IF k \in renamed THEN 0 ELSE asks[n][k]
  OBVIOUS
<1>7. nm \in [Kinds -> 0..MaxName] /\ sent \in [Kinds -> 0..3] /\ act \subseteq active[n]
  BY <1>1, <1>2, <1>5
<1>8. act = IF "host" \in renamed THEN active[n] \ {"svc"} ELSE active[n]
  OBVIOUS
<1>9. \A x \in Names : /\ x \in lose <=> x.kind \in renamed /\ x.no = name[n][x.kind]
                       /\ x \in next <=> x.kind \in renamed /\ x.no = name[n][x.kind] + 1
  <2>. SUFFICES ASSUME NEW x \in Names
                PROVE  /\ x \in lose <=> x.kind \in renamed /\ x.no = name[n][x.kind]
                       /\ x \in next <=> x.kind \in renamed /\ x.no = name[n][x.kind] + 1
    OBVIOUS
  <2>1. x \in lose <=> x.kind \in renamed /\ x.no = name[n][x.kind]
    BY <1>2, <1>4, <1>5
  <2>2. ASSUME x \in next
        PROVE  x.kind \in renamed /\ x.no = name[n][x.kind] + 1
    <3>1. PICK y \in lose : x = Name(y.kind, y.no + 1)
      BY <2>2
    <3>2. y \in Names /\ y.no = name[n][y.kind] /\ y.no + 1 \in 0..MaxName /\ y.kind \in renamed
      BY <1>2, <1>4, <1>5
    <3>. QED  BY <1>2, <3>1, <3>2
  <2>3. ASSUME x.kind \in renamed, x.no = name[n][x.kind] + 1
        PROVE  x \in next
    <3>1. Own(n, x.kind) \in lose /\ x.kind \in Kinds
      BY <1>5, <2>3
    <3>2. Own(n, x.kind).kind = x.kind /\ Own(n, x.kind).no = name[n][x.kind]
      BY <1>2, <3>1
    <3>3. x = Name(x.kind, x.no)
      BY DEF Names, Name
    <3>. QED  BY <2>3, <3>1, <3>2, <3>3
  <2>. QED  BY <2>1, <2>2, <2>3
<1>. HIDE DEF renamed
<1>10. ASSUME NEW x \in Names
       PROVE  /\ moved[x] \in Probe /\ (moved[x].on => x.no <= nm[x.kind])
              /\ moved[x].rec <=> moved[x].on /\ x.no = nm[x.kind]
              /\ moved[x].rec => x.kind \notin active[n] /\ OnTime(x.kind, moved[x], sent[x.kind])
  <2>1. moved[x] = IF x \in next THEN Heir(pr, Name(x.kind, x.no - 1), delay[x.kind])
                   ELSE IF x \in lose THEN [pr[x] EXCEPT !.rec = FALSE] ELSE pr[x]
    BY DEF Moved
  <2>2. /\ pr[x] \in Probe /\ (pr[x].on => x.no <= name[n][x.kind])
        /\ pr[x].rec <=> pr[x].on /\ x.no = name[n][x.kind]
        /\ pr[x].rec => x.kind \notin active[n] /\ OnTime(x.kind, pr[x], asks[n][x.kind])
        /\ x.kind \in Kinds /\ x.no \in 0..MaxName /\ name[n][x.kind] \in 0..MaxName
    BY <1>2, <1>3
  <2>. HIDE DEF next, moved
  <2>3. CASE x \in next
    <3>1. x.kind \in renamed /\ x.no = name[n][x.kind] + 1 /\ x.kind \notin active[n]
      BY <1>5, <1>9, <2>3
    <3>. DEFINE y == Name(x.kind, x.no - 1)
    <3>2. x.no - 1 \in 0..MaxName
      <4>1. x.no \in Nat /\ x.no >= 1 /\ x.no <= MaxName
        BY <1>2, <2>2, <3>1
      <4>. QED  BY <1>2, <4>1
    <3>3. y \in Names /\ y.kind = x.kind /\ y.no = x.no - 1
      BY <1>2, <2>2, <3>2
    <3>4. Name(y.kind, y.no + 1) = x
      <4>1. x.no - 1 + 1 = x.no /\ x = Name(x.kind, x.no)
        BY <2>2 DEF Names, Name
      <4>. QED  BY <3>3, <4>1
    <3>5. ~pr[x].on
      BY <2>2, <3>1
    <3>. HIDE DEF y
    <3>6. Heir(pr, y, delay[x.kind]) = NewProbe(delay[x.kind], pr[y].waits)
      BY <3>4, <3>5 DEF Heir, HeirAs
    <3>7. delay[x.kind] \in 0..1 /\ pr[y].waits \in BOOLEAN
      BY <1>3, <2>2, <3>3, ProbeIs
    <3>8. moved[x] = NewProbe(delay[x.kind], pr[y].waits)
      BY <2>1, <2>3, <3>6 DEF y
    <3>9. /\ moved[x] \in Probe /\ moved[x].on /\ moved[x].rec
          /\ moved[x].left = 3 + delay[x.kind] /\ moved[x].next = delay[x.kind]
      BY <3>7, <3>8, NewProbeIs
    <3>10. nm[x.kind] = x.no /\ sent[x.kind] = 0
      BY <1>6, <2>2, <3>1
    <3>11. OnTime(x.kind, moved[x], sent[x.kind])
      BY <3>7, <3>9, <3>10 DEF OnTime, Lifetime
    <3>. QED  BY <2>2, <3>1, <3>9, <3>10, <3>11
  <2>4. CASE x \notin next /\ x \in lose
    <3>1. moved[x] = [pr[x] EXCEPT !.rec = FALSE]
      BY <2>1, <2>4
    <3>. DEFINE e == [pr[x] EXCEPT !.rec = FALSE]
    <3>2. e \in Probe /\ e.on = pr[x].on /\ ~e.rec
      BY <2>2, ProbeChanges
    <3>. HIDE DEF e
    <3>3. moved[x] = e
      BY <3>1 DEF e
    <3>4. x.kind \in renamed /\ x.no = name[n][x.kind] /\ nm[x.kind] = name[n][x.kind] + 1
      BY <1>6, <1>9, <2>2, <2>4
    <3>. QED  BY <2>2, <3>2, <3>3, <3>4
  <2>5. CASE x \notin next /\ x \notin lose
    <3>1. moved[x] = pr[x]
      BY <2>1, <2>5
    <3>2. CASE x.kind \in renamed
      <4>1. x.no # name[n][x.kind] /\ x.no # nm[x.kind] /\ nm[x.kind] = name[n][x.kind] + 1
        BY <1>6, <1>9, <2>2, <2>5, <3>2
      <4>. QED  BY <2>2, <3>1, <4>1
    <3>3. CASE x.kind \notin renamed
      <4>1. nm[x.kind] = name[n][x.kind] /\ sent[x.kind] = asks[n][x.kind]
        BY <1>6, <2>2, <3>3
      <4>. QED  BY <2>2, <3>1, <4>1
    <3>. QED  BY <3>2, <3>3
  <2>. QED  BY <2>3, <2>4, <2>5
<1>11. moved = [x \in Names |-> moved[x]]
  BY DEF Moved
<1>12. RenamedProbes(n, lose, delay)
         = IF "host" \in renamed THEN Reprobed(moved, svc, "svc" \in active[n], delay["host"])
           ELSE moved
  BY DEF RenamedProbes, renamed
<1>13. svc \in Names /\ svc.kind = "svc" /\ svc.no = nm["svc"]
  BY <1>2, <1>5, <1>6
<1>14. \A x \in Names : x.kind = "svc" /\ x.no = nm["svc"] => x = svc
  BY <1>13 DEF Names
<1>. HIDE DEF moved, svc
<1>15. moved \in [Names -> Probe]
  BY <1>10, <1>11
<1>16. ("host" \in active[n] => sent["host"] = 3) /\ ("svc" \in active[n] => sent["svc"] # 0)
  BY <1>2, <1>5, <1>6 DEF Probes
<1>17. delay["host"] \in 0..1
  BY <1>2
\* The probes after the step differ from those moved in that of the service at most.
<1>. DEFINE q == RenamedProbes(n, lose, delay)
<1>18. q \in [Names -> Probe] /\ \A x \in Names :
          \/ q[x] = moved[x] /\ (moved[x].rec => x.kind \notin act)
          \/ /\ x = svc /\ "svc" \notin act
             /\ q[x].on /\ q[x].rec /\ OnTime("svc", q[x], sent["svc"])
  <2>1. CASE "host" \notin renamed
    BY <1>8, <1>10, <1>12, <1>15, <2>1
  <2>2. CASE "host" \in renamed /\ ~moved[svc].rec /\ "svc" \notin active[n]
    <3>1. q = moved
      BY <1>12, <2>2 DEF Reprobed
    <3>. QED  BY <1>7, <1>10, <1>15, <3>1
  <2>3. CASE "host" \in renamed /\ ~(~moved[svc].rec /\ "svc" \notin active[n])
    <3>. DEFINE b == moved[svc]
                d == delay["host"]
                e == IF b.on THEN Restarted(b, d) ELSE NewProbe(d, FALSE)
    <3>1. q = [moved EXCEPT ![svc] = e]
      BY <1>12, <1>13, <1>15, <2>3 DEF Reprobed
    <3>2. /\ b \in Probe /\ (b.rec <=> b.on)
          /\ b.rec => "svc" \notin active[n] /\ OnTime("svc", b, sent["svc"])
          /\ sent["svc"] \in 0..3
      BY <1>2, <1>7, <1>10, <1>13
    <3>3. "svc" \notin act
      BY <1>8, <2>3
    <3>4. e \in Probe /\ e.on /\ e.rec /\ OnTime("svc", e, sent["svc"])
      <4>1. CASE b.on
        <5>1. OnTime("svc", b, sent["svc"]) /\ e = Restarted(b, d)
          BY <3>2, <4>1
        <5>2. /\ e \in Probe /\ e.on = b.on /\ e.rec /\ e.next = b.next
              /\ e.left = 3 + (IF ~Begun(b) /\ b.next = 1 THEN 1 ELSE d)
          <6>. HIDE DEF b, d, e
          <6>1. d \in 0..1 /\ b \in Probe
            BY <1>17, <3>2 DEF d
          <6>2. /\ Restarted(b, d) \in Probe /\ Restarted(b, d).on = b.on
                /\ Restarted(b, d).rec /\ Restarted(b, d).next = b.next
                /\ Restarted(b, d).left = 3 + (IF ~Begun(b) /\ b.next = 1 THEN 1 ELSE d)
            BY <6>1, RestartedIs
          <6>. QED  BY <5>1, <6>2
        <5>3. b.left \in 0..7 /\ b.next \in 0..4
          BY <3>2, ProbeIs
        <5>4. sent["svc"] = 0 => e.next <= 1 /\ e.left >= 3 + e.next
          <6>. SUFFICES ASSUME sent["svc"] = 0 PROVE e.next <= 1 /\ e.left >= 3 + e.next
            OBVIOUS
          <6>. HIDE DEF b, e, d
          <6>1. b.next <= 1 /\ b.left >= 3 + b.next
            BY <5>1 DEF OnTime, Lifetime
          <6>2. CASE b.next = 1
            <7>1. ~Begun(b)
              BY <5>3, <6>1, <6>2 DEF Begun, Lifetime
            <7>. QED  BY <5>2, <6>2, <7>1
          <6>3. CASE b.next = 0
            BY <1>17, <5>2, <6>3 DEF d
          <6>. QED  BY <5>3, <6>1, <6>2, <6>3
        <5>. HIDE DEF b, e, d
        <5>. QED  BY <4>1, <5>2, <5>4 DEF OnTime, Lifetime
      <4>2. CASE ~b.on
        <5>1. e = NewProbe(d, FALSE)
          BY <4>2
        <5>. HIDE DEF e
        <5>2. e \in Probe /\ e.on /\ e.rec /\ e.left = 3 + d /\ e.next = d
          BY <1>17, <5>1, NewProbeIs
        <5>. QED  BY <1>17, <5>2 DEF OnTime, Lifetime
      <4>. QED  BY <4>1, <4>2
    <3>. HIDE DEF e, b, q
    <3>5. q \in [Names -> Probe] /\ q[svc] = e /\ \A x \in Names : x # svc => q[x] = moved[x]
      BY <1>13, <1>15, <3>1, <3>4
    <3>6. \A x \in Names : moved[x].rec => x.kind \notin act
      BY <1>7, <1>10
    <3>. QED  BY <3>3, <3>4, <3>5, <3>6
  <2>. QED  BY <2>1, <2>2, <2>3
<1>. HIDE DEF q
<1>19. NodeTypes(q, nm, act, sent)
  BY <1>1, <1>7, <1>18 DEF NodeTypes
<1>20. Probes(q, nm, act, sent)
  <2>1. ASSUME NEW x \in Names
        PROVE  /\ q[x].on => x.no <= nm[x.kind]
               /\ q[x].rec <=> q[x].on /\ x.no = nm[x.kind]
               /\ q[x].rec => x.kind \notin act /\ OnTime(x.kind, q[x], sent[x.kind])
    <3>1. CASE q[x] = moved[x] /\ (moved[x].rec => x.kind \notin act)
      BY <1>10, <3>1
    <3>2. CASE /\ x = svc /\ "svc" \notin act
               /\ q[x].on /\ q[x].rec /\ OnTime("svc", q[x], sent["svc"])
      <4>1. x.no \in 0..MaxName
        BY <1>2
      <4>. QED  BY <1>2, <1>13, <3>2, <4>1
    <3>. QED  BY <1>18, <3>1, <3>2
  <2>2. ("host" \in act => sent["host"] = 3) /\ ("svc" \in act => sent["svc"] # 0)
    BY <1>7, <1>16
  <2>. QED  BY <2>1, <2>2 DEF Probes
<1>. QED  BY <1>19, <1>20 DEF q

LEMMA HandleResponseStep ==
  ASSUME ProbingInv, NEW p \in wire, HandleResponse(p)
  PROVE  ProbingInv' /\ AskedRight
<1>. DEFINE n == p.to
            lose == Contested(n, p)
            renamed == {x.kind : x \in lose}
            nm == [k \in Kinds |-> IF k \in renamed THEN name[n][k] + 1 ELSE name[n][k]]
            sent == [k \in Kinds |-> IF k \in renamed THEN 0 ELSE asks[n][k]]
            act == IF "host" \in renamed THEN active[n] \ {"svc"} ELSE active[n]
<1>1. ProbingTypeOK /\ \A m \in Nodes : Probes(probing[m], name[m], active[m], asks[m])
  BY DEF ProbingInv
<1>2. n \in Nodes /\ p.names \subseteq Names
  BY <1>1 DEF ProbingTypeOK, Packet
<1>3. /\ name' = [name EXCEPT ![n] = nm] /\ asks' = [asks EXCEPT ![n] = sent]
      /\ active' = [active EXCEPT ![n] = act]
      /\ \A x \in lose : x.no < MaxName
      /\ wire' = wire \ {p} /\ UNCHANGED <<status, did, lost>>
      /\ \E delay \in [Kinds -> 0..1] :
           probing' = [probing EXCEPT ![n] = IF lose = {} THEN probing[n]
                                             ELSE RenamedProbes(n, lose, delay)]
  <2>1. /\ probing \in [Nodes -> [Names -> Probe]] /\ name \in [Nodes -> [Kinds -> 0..MaxName]]
        /\ active \in [Nodes -> SUBSET Kinds] /\ asks \in [Nodes -> [Kinds -> 0..3]]
    BY <1>1 DEF ProbingTypeOK
  <2>. QED  BY <1>2, <2>1 DEF HandleResponse
<1>4. PICK delay \in [Kinds -> 0..1] :
        probing' = [probing EXCEPT ![n] = IF lose = {} THEN probing[n]
                                          ELSE RenamedProbes(n, lose, delay)]
  BY <1>3
<1>. DEFINE q == IF lose = {} THEN probing[n] ELSE RenamedProbes(n, lose, delay)
<1>5. /\ lose \in SUBSET Names
      /\ \A x \in lose : probing[n][x].on /\ probing[n][x].rec /\ x.no < MaxName
  BY <1>2, <1>3 DEF Contested
<1>6. NodeTypes(q, nm, act, sent) /\ Probes(q, nm, act, sent)
  <2>1. CASE lose = {}
    <3>1. NodeTypes(probing[n], name[n], active[n], asks[n])
      BY <1>1, <1>2, NodeTypesAre
    <3>2. nm = name[n] /\ sent = asks[n] /\ act = active[n]
      BY <2>1, <3>1 DEF NodeTypes
    <3>3. q = probing[n]
      BY <2>1
    <3>. HIDE DEF q, nm, sent, act
    <3>. QED  BY <1>1, <1>2, <3>1, <3>2, <3>3
  <2>2. CASE lose # {}
    <3>1. /\ NodeTypes(RenamedProbes(n, lose, delay), nm, act, sent)
          /\ Probes(RenamedProbes(n, lose, delay), nm, act, sent)
      <4>. HIDE DEF lose, n
      <4>. QED  BY <1>1, <1>2, <1>5, RenamedProbesIs
    <3>. QED  BY <2>2, <3>1
  <2>. QED  BY <2>1, <2>2
<1>7. /\ probing' \in [Nodes -> [Names -> Probe]]
      /\ name' \in [Nodes -> [Kinds -> 0..MaxName]]
      /\ active' \in [Nodes -> SUBSET Kinds] /\ asks' \in [Nodes -> [Kinds -> 0..3]]
      /\ \A m \in Nodes : Probes(probing'[m], name'[m], active'[m], asks'[m])
  <2>1. probing' = [probing EXCEPT ![n] = q]
    BY <1>4
  <2>. HIDE DEF n, q, nm, sent, act
  <2>. QED  BY <1>2, <1>3, <1>6, <2>1, NodeStep
<1>8. wire' \subseteq Packet /\ AskedRight
  BY <1>1, <1>3 DEF ProbingTypeOK, AskedRight
<1>. QED  BY <1>1, <1>3, <1>7, <1>8 DEF ProbingInv, ProbingTypeOK

LEMMA ProbingStep ==
  ASSUME ProbingInv, [ProbingNext]_probingVars
  PROVE  ProbingInv' /\ AskedRight
<1>1. ASSUME NEW n \in Nodes, RegisterService(n) \/ UnregisterService(n) \/ ProbingHandler(n)
      PROVE  ProbingInv' /\ AskedRight
  BY <1>1, RegisterServiceStep, UnregisterServiceStep, ProbingHandlerStep
<1>2. ASSUME NEW p \in wire, HandleProbe(p) \/ HandleResponse(p) \/ Lose(p)
      PROVE  ProbingInv' /\ AskedRight
  BY <1>2, HandleProbeStep, HandleResponseStep, LoseStep
<1>3. CASE QuarterPasses
  BY <1>3, QuarterPassesStep
<1>4. CASE UNCHANGED probingVars
  BY <1>4 DEF probingVars, ProbingInv, ProbingTypeOK, AskedRight
<1>. QED  BY <1>1, <1>2, <1>3, <1>4 DEF ProbingNext

LEMMA InitProbing == ASSUME ProbingInit PROVE ProbingInv
<1>1. \A n \in Nodes : Wanted[n] \in [Kinds -> 0..MaxName]
  BY WantedAssumption DEF Kinds
<1>2. ProbingTypeOK
  <2>1. name \in [Nodes -> [Kinds -> 0..MaxName]]
    BY WantedAssumption DEF ProbingInit, Kinds
  <2>2. probing \in [Nodes -> [Names -> Probe]]
    BY NoProbeIs DEF ProbingInit
  <2>3. did \in [Nodes -> [reg : 0..MaxRegisters, unreg : 0..MaxUnregisters]]
    BY WantedAssumption DEF ProbingInit
  <2>4. lost \in 0..MaxLost
    BY WantedAssumption DEF ProbingInit
  <2>. QED  BY <2>1, <2>2, <2>3, <2>4 DEF ProbingInit, ProbingTypeOK
<1>3. ASSUME NEW n \in Nodes
      PROVE  Probes(probing[n], name[n], active[n], asks[n])
  <2>1. active[n] = {} /\ \A x \in Names : probing[n][x] = NoProbe
    BY DEF ProbingInit
  <2>. QED  BY <2>1, NoProbeIs DEF Probes
<1>. QED  BY <1>2, <1>3 DEF ProbingInv

LEMMA AlwaysProbing == ProbingSpec => []ProbingInv
<1>1. ProbingInv /\ [ProbingNext]_probingVars => ProbingInv'
  BY ProbingStep
<1>. QED  BY <1>1, InitProbing, PTL DEF ProbingSpec

\* Every variable of probing has its type; in particular no name runs past the last one
\* and no probe is due later than a lost tie makes it.
THEOREM ProbingTypeCorrect == ProbingSpec => []ProbingTypeOK
<1>1. ProbingInv => ProbingTypeOK
  BY DEF ProbingInv
<1>. QED  BY <1>1, AlwaysProbing, PTL

\* For every set of nodes, order of their data and choice of names: no service is
\* announced on a host whose name was not asked for three times, nor under a name that
\* was never asked for, through ties, conflicts, renaming of the host, withdrawals and
\* loss (Probe::expired, Probe::tiebreaking, conflict_handler, update_hostname).
THEOREM NeverUnaskedHolds == ProbingSpec => NeverUnasked
<1>1. ProbingInv /\ [ProbingNext]_probingVars =>
        [\A n \in Nodes : status[n] # "announced" /\ status'[n] = "announced"
           => asks[n]["host"] = 3 /\ asks[n]["svc"] # 0]_probingVars
  BY ProbingStep DEF AskedRight
<1>. QED  BY <1>1, AlwaysProbing, PTL DEF ProbingSpec, NeverUnasked

=============================================================================
