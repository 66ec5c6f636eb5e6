----------------------------- MODULE QuicProofs -----------------------------
(***************************************************************************)
(* Proofs about QuicLink: its variables keep their types, and the relay    *)
(* pairs every stream with the announcement of the session that opened it, *)
(* for any number of sessions and ids.                                     *)
(***************************************************************************)
EXTENDS QuicLink, Integers, SequenceTheorems, TLAPS

-----------------------------------------------------------------------------
(* The matching that the pairing in order of arrival relies on.  `os` are  *)
(* the announcements the peer loop has not paired, `q` the control stream, *)
(* `u` the sessions whose streams are not paired, in the order they were   *)
(* opened, and `half` those that have opened theirs and not announced it.  *)
(* P enumerates the announcements among the messages of the control stream.*)

Enumerates(P, k, q) ==
    /\ P \in [1 .. k -> 1 .. Len(q)]
    /\ \A i, j \in 1 .. k : i < j => P[i] < P[j]
    /\ \A i \in 1 .. k : q[P[i]].type = "OpenStream"
    /\ \A n \in 1 .. Len(q) :
          q[n].type = "OpenStream" => \E i \in 1 .. k : P[i] = n

Aligned(os, q, u, P, k) ==
    /\ \A i \in 1 .. Len(os) : os[i] = Open(u[i])
    /\ \A i \in 1 .. k : q[P[i]] = Open(u[Len(os) + i])

\* Whoever is halfway has opened the last stream of all.
Remaining(u, n, half) ==
    /\ half = {} => Len(u) = n
    /\ \A s \in half : Len(u) = n + 1 /\ u[n + 1] = s

Matching(os, q, u, half) ==
    \E k \in Nat : \E P \in [1 .. k -> 1 .. Len(q)] :
        /\ Enumerates(P, k, q)
        /\ Aligned(os, q, u, P, k)
        /\ Remaining(u, Len(os) + k, half)

LEMMA OpenFields ==
    ASSUME NEW s
    PROVE  /\ Open(s).type = "OpenStream"
           /\ Open(s).id = Sid[s] /\ Open(s).role = Role[s]
BY DEF Open

LEMMA OpenType == ASSUME NEW s \in Sessions PROVE Open(s) \in ToRelay
BY QuicAssumption DEF Open, ToRelay

LEMMA CloseType ==
    ASSUME NEW id \in Ids
    PROVE  Close(id) \in ToRelay /\ Close(id).type # "OpenStream"
BY DEF Close, ToRelay

\* A message at the head of the control stream, or after its end.
LEMMA TailOf ==
    ASSUME NEW q \in Seq(ToRelay), q # <<>>
    PROVE  /\ Tail(q) \in Seq(ToRelay) /\ Len(Tail(q)) = Len(q) - 1
           /\ Len(q) \in Nat /\ Len(q) >= 1 /\ Head(q) = q[1] /\ Head(q) \in ToRelay
           /\ \A n \in 1 .. Len(q) - 1 : Tail(q)[n] = q[n + 1]
OBVIOUS

LEMMA EnumerateTailOther ==
    ASSUME NEW q \in Seq(ToRelay), q # <<>>, Head(q).type # "OpenStream",
           NEW k \in Nat, NEW P, Enumerates(P, k, q)
    PROVE  Enumerates([i \in 1 .. k |-> P[i] - 1], k, Tail(q))
<1>. DEFINE R == [i \in 1 .. k |-> P[i] - 1]
            t == Tail(q)
<1>1. \A i \in 1 .. k : P[i] \in 2 .. Len(q)
  BY TailOf DEF Enumerates
<1>2. \A i \in 1 .. k : R[i] = P[i] - 1 /\ R[i] \in 1 .. Len(t)
  BY <1>1, TailOf
<1>3. \A i \in 1 .. k : t[R[i]] = q[P[i]]
  BY <1>1, <1>2, TailOf
<1>4. ASSUME NEW n \in 1 .. Len(t), t[n].type = "OpenStream"
      PROVE  \E i \in 1 .. k : R[i] = n
  <2>1. n + 1 \in 1 .. Len(q) /\ q[n + 1].type = "OpenStream"
    BY <1>4, TailOf
  <2>2. PICK i \in 1 .. k : P[i] = n + 1
    BY <2>1 DEF Enumerates
  <2>. QED  BY <1>2, <2>2
<1>5. \A i, j \in 1 .. k : i < j => R[i] < R[j]
  BY <1>1, <1>2 DEF Enumerates
<1>6. R \in [1 .. k -> 1 .. Len(t)]
  BY <1>2
<1>. HIDE DEF R, t
<1>. QED  BY <1>3, <1>4, <1>5, <1>6 DEF Enumerates, R, t

LEMMA EnumerateTailOpen ==
    ASSUME NEW q \in Seq(ToRelay), q # <<>>, Head(q).type = "OpenStream",
           NEW k \in Nat, NEW P, Enumerates(P, k, q)
    PROVE  /\ k >= 1 /\ P[1] = 1
           /\ Enumerates([i \in 1 .. k - 1 |-> P[i + 1] - 1], k - 1, Tail(q))
<1>. DEFINE R == [i \in 1 .. k - 1 |-> P[i + 1] - 1]
            t == Tail(q)
<1>1. PICK h \in 1 .. k : P[h] = 1
  BY TailOf DEF Enumerates
<1>2. h = 1
  <2>. SUFFICES ASSUME 1 < h PROVE FALSE
    BY <1>1
  <2>1. P[1] < P[h] /\ P[1] \in 1 .. Len(q)
    BY <1>1 DEF Enumerates
  <2>. QED  BY <1>1, <2>1
<1>3. k >= 1 /\ P[1] = 1
  BY <1>1, <1>2
<1>4. \A i \in 1 .. k - 1 : P[i + 1] \in 2 .. Len(q)
  <2>. TAKE i \in 1 .. k - 1
  <2>1. P[1] < P[i + 1] /\ P[i + 1] \in 1 .. Len(q)
    BY <1>3 DEF Enumerates
  <2>. QED  BY <1>3, <2>1
<1>5. \A i \in 1 .. k - 1 : R[i] = P[i + 1] - 1 /\ R[i] \in 1 .. Len(t)
  BY <1>4, TailOf
<1>6. \A i \in 1 .. k - 1 : t[R[i]] = q[P[i + 1]]
  BY <1>4, <1>5, TailOf
<1>7. ASSUME NEW n \in 1 .. Len(t), t[n].type = "OpenStream"
      PROVE  \E i \in 1 .. k - 1 : R[i] = n
  <2>1. n + 1 \in 1 .. Len(q) /\ q[n + 1].type = "OpenStream"
    BY <1>7, TailOf
  <2>2. PICK i \in 1 .. k : P[i] = n + 1
    BY <2>1 DEF Enumerates
  <2>3. i # 1 /\ i - 1 \in 1 .. k - 1
    BY <1>3, <2>2
  <2>4. R[i - 1] = n
    BY <1>5, <2>2, <2>3
  <2>. QED  BY <2>3, <2>4
<1>8. \A i, j \in 1 .. k - 1 : i < j => R[i] < R[j]
  <2>. TAKE i, j \in 1 .. k - 1
  <2>1. i < j => P[i + 1] < P[j + 1]
    BY DEF Enumerates
  <2>. QED  BY <1>4, <1>5, <2>1
<1>9. R \in [1 .. k - 1 -> 1 .. Len(t)]
  BY <1>5
<1>10. \A i \in 1 .. k - 1 : t[R[i]].type = "OpenStream"
  BY <1>3, <1>6 DEF Enumerates
<1>. HIDE DEF R, t
<1>. QED  BY <1>3, <1>7, <1>8, <1>9, <1>10 DEF Enumerates, R, t

-----------------------------------------------------------------------------
(* What the steps do to the matching.                                      *)

LEMMA MatchRegister ==
    ASSUME NEW os \in Seq(ToRelay), NEW q \in Seq(ToRelay), NEW u \in Seq(Sessions),
           NEW s \in Sessions, Matching(os, q, u, {})
    PROVE  Matching(os, q, Append(u, s), {s})
<1>0. PICK k \in Nat : \E P \in [1 .. k -> 1 .. Len(q)] :
        Enumerates(P, k, q) /\ Aligned(os, q, u, P, k) /\ Remaining(u, Len(os) + k, {})
  BY DEF Matching
<1>1. PICK P \in [1 .. k -> 1 .. Len(q)] :
        Enumerates(P, k, q) /\ Aligned(os, q, u, P, k) /\ Remaining(u, Len(os) + k, {})
  BY <1>0
<1>2. Len(u) = Len(os) + k /\ Len(os) \in Nat
  BY <1>1 DEF Remaining
<1>3. \A n \in 1 .. Len(u) : Append(u, s)[n] = u[n]
  OBVIOUS
<1>4. Append(u, s)[Len(u) + 1] = s /\ Len(Append(u, s)) = Len(u) + 1
  OBVIOUS
<1>5. Aligned(os, q, Append(u, s), P, k)
  BY <1>1, <1>2, <1>3 DEF Aligned
<1>6. Remaining(Append(u, s), Len(os) + k, {s})
  BY <1>2, <1>4 DEF Remaining
<1>. QED  BY <1>1, <1>5, <1>6 DEF Matching

LEMMA MatchSendOpen ==
    ASSUME NEW os \in Seq(ToRelay), NEW q \in Seq(ToRelay), NEW u \in Seq(Sessions),
           NEW s \in Sessions, Matching(os, q, u, {s})
    PROVE  Matching(os, q \o <<Open(s)>>, u, {})
<1>0. PICK k \in Nat : \E P \in [1 .. k -> 1 .. Len(q)] :
        Enumerates(P, k, q) /\ Aligned(os, q, u, P, k) /\ Remaining(u, Len(os) + k, {s})
  BY DEF Matching
<1>1. PICK P \in [1 .. k -> 1 .. Len(q)] :
        Enumerates(P, k, q) /\ Aligned(os, q, u, P, k) /\ Remaining(u, Len(os) + k, {s})
  BY <1>0
<1>. PICK m \in ToRelay : m = Open(s)
  BY OpenType
<1>. DEFINE t == q \o <<m>>
            R == [i \in 1 .. k + 1 |-> IF i = k + 1 THEN Len(q) + 1 ELSE P[i]]
<1>2. Len(t) = Len(q) + 1 /\ Len(q) \in Nat /\ Len(os) \in Nat
  OBVIOUS
<1>3. t[Len(q) + 1] = m /\ \A n \in 1 .. Len(q) : t[n] = q[n]
  OBVIOUS
<1>4. R[k + 1] = Len(q) + 1 /\ \A i \in 1 .. k : R[i] = P[i]
  OBVIOUS
<1>5. \A i \in 1 .. k : P[i] \in 1 .. Len(q)
  OBVIOUS
<1>6. R \in [1 .. k + 1 -> 1 .. Len(t)]
  BY <1>2
<1>. HIDE DEF R, t
<1>7. \A i \in 1 .. k + 1 : i \in 1 .. k \/ i = k + 1
  OBVIOUS
<1>8. \A i \in 1 .. k : i \in 1 .. k + 1
  OBVIOUS
<1>9. Enumerates(R, k + 1, t)
  <2>1. \A i, j \in 1 .. k + 1 : i < j => R[i] < R[j]
    <3>. SUFFICES ASSUME NEW i \in 1 .. k + 1, NEW j \in 1 .. k + 1, i < j
                  PROVE  R[i] < R[j]
      OBVIOUS
    <3>1. i \in 1 .. k
      OBVIOUS
    <3>2. CASE j \in 1 .. k
      BY <1>1, <1>4, <3>1, <3>2 DEF Enumerates
    <3>3. CASE j = k + 1
      <4>1. R[i] = P[i] /\ R[j] = Len(q) + 1
        BY <1>4, <3>1, <3>3
      <4>. QED  BY <1>2, <1>5, <3>1, <4>1
    <3>. QED  BY <1>7, <3>2, <3>3
  <2>2. \A i \in 1 .. k + 1 : t[R[i]].type = "OpenStream"
    <3>. TAKE i \in 1 .. k + 1
    <3>1. CASE i \in 1 .. k
      BY <1>1, <1>3, <1>4, <1>5, <3>1 DEF Enumerates
    <3>2. CASE i = k + 1
      BY <1>3, <1>4, <3>2, OpenFields
    <3>. QED  BY <1>7, <3>1, <3>2
  <2>3. ASSUME NEW n \in 1 .. Len(t), t[n].type = "OpenStream"
        PROVE  \E i \in 1 .. k + 1 : R[i] = n
    <3>1. CASE n = Len(q) + 1
      BY <1>4, <3>1
    <3>2. CASE n # Len(q) + 1
      <4>1. n \in 1 .. Len(q) /\ q[n].type = "OpenStream"
        BY <1>2, <1>3, <2>3, <3>2
      <4>2. PICK i \in 1 .. k : P[i] = n
        BY <1>1, <4>1 DEF Enumerates
      <4>. QED  BY <1>4, <1>8, <4>2
    <3>. QED  BY <3>1, <3>2
  <2>. QED  BY <1>6, <2>1, <2>2, <2>3 DEF Enumerates
<1>10. Len(u) = Len(os) + (k + 1) /\ u[Len(os) + (k + 1)] = s
  BY <1>1, <1>2 DEF Remaining
<1>11. Aligned(os, t, u, R, k + 1)
  <2>1. \A i \in 1 .. k : t[R[i]] = Open(u[Len(os) + i])
    BY <1>1, <1>3, <1>4, <1>5 DEF Aligned
  <2>2. t[R[k + 1]] = Open(u[Len(os) + (k + 1)])
    BY <1>3, <1>4, <1>10
  <2>3. \A i \in 1 .. k + 1 : i \in 1 .. k \/ i = k + 1
    OBVIOUS
  <2>. QED  BY <1>1, <2>1, <2>2, <2>3 DEF Aligned
<1>12. Remaining(u, Len(os) + (k + 1), {})
  BY <1>10 DEF Remaining
<1>13. k + 1 \in Nat
  OBVIOUS
<1>. QED  BY <1>6, <1>9, <1>11, <1>12, <1>13 DEF Matching, t

LEMMA MatchStop ==
    ASSUME NEW os \in Seq(ToRelay), NEW q \in Seq(ToRelay), NEW u \in Seq(Sessions),
           NEW half, NEW m, m.type # "OpenStream", Matching(os, q, u, half)
    PROVE  Matching(os, q \o <<m, m>>, u, half)
<1>0. PICK k \in Nat : \E P \in [1 .. k -> 1 .. Len(q)] :
        Enumerates(P, k, q) /\ Aligned(os, q, u, P, k) /\ Remaining(u, Len(os) + k, half)
  BY DEF Matching
<1>1. PICK P \in [1 .. k -> 1 .. Len(q)] :
        Enumerates(P, k, q) /\ Aligned(os, q, u, P, k) /\ Remaining(u, Len(os) + k, half)
  BY <1>0
<1>. DEFINE t == q \o <<m, m>>
<1>2. Len(t) = Len(q) + 2 /\ Len(q) \in Nat
  OBVIOUS
<1>3. /\ \A n \in 1 .. Len(q) : t[n] = q[n]
      /\ t[Len(q) + 1] = m /\ t[Len(q) + 2] = m
  OBVIOUS
<1>4. \A i \in 1 .. k : P[i] \in 1 .. Len(q)
  OBVIOUS
<1>. HIDE DEF t
<1>5. P \in [1 .. k -> 1 .. Len(t)]
  BY <1>2, <1>4
<1>6. Enumerates(P, k, t)
  <2>1. \A n \in 1 .. Len(t) : t[n].type = "OpenStream" => n \in 1 .. Len(q)
    BY <1>2, <1>3
  <2>. QED  BY <1>1, <1>3, <1>4, <1>5, <2>1 DEF Enumerates
<1>7. Aligned(os, t, u, P, k)
  BY <1>1, <1>3, <1>4 DEF Aligned
<1>. QED  BY <1>1, <1>5, <1>6, <1>7 DEF Matching, t

LEMMA MatchRecvOpen ==
    ASSUME NEW os \in Seq(ToRelay), NEW q \in Seq(ToRelay), NEW u \in Seq(Sessions),
           NEW half, q # <<>>, Head(q).type = "OpenStream", Matching(os, q, u, half)
    PROVE  Matching(Append(os, Head(q)), Tail(q), u, half)
<1>0. PICK k \in Nat : \E P \in [1 .. k -> 1 .. Len(q)] :
        Enumerates(P, k, q) /\ Aligned(os, q, u, P, k) /\ Remaining(u, Len(os) + k, half)
  BY DEF Matching
<1>1. PICK P \in [1 .. k -> 1 .. Len(q)] :
        Enumerates(P, k, q) /\ Aligned(os, q, u, P, k) /\ Remaining(u, Len(os) + k, half)
  BY <1>0
<1>. DEFINE a == Append(os, Head(q))
            t == Tail(q)
            R == [i \in 1 .. k - 1 |-> P[i + 1] - 1]
<1>2. k >= 1 /\ P[1] = 1 /\ Enumerates(R, k - 1, t)
  BY <1>1, EnumerateTailOpen
<1>3. Len(a) = Len(os) + 1 /\ Len(os) \in Nat
  OBVIOUS
<1>4. a[Len(os) + 1] = Head(q) /\ \A i \in 1 .. Len(os) : a[i] = os[i]
  OBVIOUS
<1>5. Head(q) = Open(u[Len(os) + 1])
  BY <1>1, <1>2, TailOf DEF Aligned
<1>6. \A i \in 1 .. k - 1 : R[i] = P[i + 1] - 1 /\ R[i] \in 1 .. Len(t)
  BY <1>2 DEF Enumerates
<1>7. \A i \in 1 .. k - 1 : t[R[i]] = q[P[i + 1]]
  BY <1>6, TailOf
<1>. HIDE DEF a, t, R
<1>8. Aligned(a, t, u, R, k - 1)
  <2>1. \A i \in 1 .. Len(a) : a[i] = Open(u[i])
    BY <1>1, <1>3, <1>4, <1>5 DEF Aligned
  <2>2. ASSUME NEW i \in 1 .. k - 1
        PROVE  t[R[i]] = Open(u[Len(a) + i])
    <3>1. q[P[i + 1]] = Open(u[Len(os) + (i + 1)])
      BY <1>1 DEF Aligned
    <3>2. Len(os) + (i + 1) = Len(a) + i
      BY <1>3
    <3>. QED  BY <1>7, <3>1, <3>2
  <2>. QED  BY <2>1, <2>2 DEF Aligned
<1>9. Remaining(u, Len(a) + (k - 1), half)
  <2>1. Len(a) + (k - 1) = Len(os) + k
    BY <1>3
  <2>. QED  BY <1>1, <2>1
<1>10. k - 1 \in Nat /\ R \in [1 .. k - 1 -> 1 .. Len(t)]
  BY <1>2 DEF Enumerates
<1>. QED  BY <1>2, <1>8, <1>9, <1>10 DEF Matching, a, t

LEMMA MatchRecvClose ==
    ASSUME NEW os \in Seq(ToRelay), NEW q \in Seq(ToRelay), NEW u \in Seq(Sessions),
           NEW half, q # <<>>, Head(q).type # "OpenStream", Matching(os, q, u, half)
    PROVE  Matching(os, Tail(q), u, half)
<1>0. PICK k \in Nat : \E P \in [1 .. k -> 1 .. Len(q)] :
        Enumerates(P, k, q) /\ Aligned(os, q, u, P, k) /\ Remaining(u, Len(os) + k, half)
  BY DEF Matching
<1>1. PICK P \in [1 .. k -> 1 .. Len(q)] :
        Enumerates(P, k, q) /\ Aligned(os, q, u, P, k) /\ Remaining(u, Len(os) + k, half)
  BY <1>0
<1>. DEFINE t == Tail(q)
            R == [i \in 1 .. k |-> P[i] - 1]
<1>2. Enumerates(R, k, t)
  BY <1>1, EnumerateTailOther
<1>3. \A i \in 1 .. k : R[i] = P[i] - 1 /\ R[i] \in 1 .. Len(t)
  BY <1>2 DEF Enumerates
<1>4. \A i \in 1 .. k : t[R[i]] = q[P[i]]
  BY <1>3, TailOf
<1>. HIDE DEF R, t
<1>5. Aligned(os, t, u, R, k)
  BY <1>1, <1>4 DEF Aligned
<1>6. R \in [1 .. k -> 1 .. Len(t)]
  BY <1>2 DEF Enumerates
<1>. QED  BY <1>1, <1>2, <1>5, <1>6 DEF Matching, t

\* The first announcement is that of the first stream.
LEMMA MatchPair ==
    ASSUME NEW os \in Seq(ToRelay), NEW q \in Seq(ToRelay), NEW u \in Seq(Sessions),
           NEW half, os # <<>>, Matching(os, q, u, half)
    PROVE  /\ u # <<>> /\ Head(os) = Open(Head(u))
           /\ Matching(Tail(os), q, Tail(u), half)
<1>0. PICK k \in Nat : \E P \in [1 .. k -> 1 .. Len(q)] :
        Enumerates(P, k, q) /\ Aligned(os, q, u, P, k) /\ Remaining(u, Len(os) + k, half)
  BY DEF Matching
<1>1. PICK P \in [1 .. k -> 1 .. Len(q)] :
        Enumerates(P, k, q) /\ Aligned(os, q, u, P, k) /\ Remaining(u, Len(os) + k, half)
  BY <1>0
<1>2. Len(os) \in Nat /\ Len(os) >= 1 /\ Head(os) = os[1] /\ Len(Tail(os)) = Len(os) - 1
  BY TailOf
<1>3. \A i \in 1 .. Len(os) - 1 : Tail(os)[i] = os[i + 1]
  BY TailOf
<1>4. Len(u) >= Len(os) + k /\ Len(u) \in Nat
  <2>1. CASE half = {}
    BY <1>1, <1>2, <2>1 DEF Remaining
  <2>2. CASE half # {}
    BY <1>1, <1>2, <2>2 DEF Remaining
  <2>. QED  BY <2>1, <2>2
<1>5. u # <<>> /\ Head(u) = u[1] /\ Len(Tail(u)) = Len(u) - 1
  BY <1>2, <1>4
<1>6. \A i \in 1 .. Len(u) - 1 : Tail(u)[i] = u[i + 1]
  BY <1>5
<1>7. Head(os) = Open(Head(u))
  BY <1>1, <1>2, <1>5 DEF Aligned
<1>. DEFINE n == Len(Tail(os))
<1>8. Aligned(Tail(os), q, Tail(u), P, k)
  <2>1. ASSUME NEW i \in 1 .. n
        PROVE  Tail(os)[i] = Open(Tail(u)[i])
    <3>1. i + 1 \in 1 .. Len(os) /\ i \in 1 .. Len(os) - 1 /\ i \in 1 .. Len(u) - 1
      BY <1>2, <1>4
    <3>2. os[i + 1] = Open(u[i + 1])
      BY <1>1, <3>1 DEF Aligned
    <3>. QED  BY <1>3, <1>6, <3>1, <3>2
  <2>2. ASSUME NEW i \in 1 .. k
        PROVE  q[P[i]] = Open(Tail(u)[n + i])
    <3>1. n + i \in 1 .. Len(u) - 1 /\ (n + i) + 1 = Len(os) + i
      BY <1>2, <1>4
    <3>2. q[P[i]] = Open(u[Len(os) + i])
      BY <1>1 DEF Aligned
    <3>3. Tail(u)[n + i] = u[(n + i) + 1]
      BY <1>6, <3>1
    <3>. QED  BY <3>1, <3>2, <3>3
  <2>. QED  BY <2>1, <2>2 DEF Aligned
<1>9. Remaining(Tail(u), n + k, half)
  <2>1. ASSUME NEW s \in half
        PROVE  Len(Tail(u)) = (n + k) + 1 /\ Tail(u)[(n + k) + 1] = s
    <3>1. Len(u) = (Len(os) + k) + 1 /\ u[(Len(os) + k) + 1] = s
      BY <1>1 DEF Remaining
    <3>2. (n + k) + 1 \in 1 .. Len(u) - 1 /\ ((n + k) + 1) + 1 = (Len(os) + k) + 1
      BY <1>2, <3>1
    <3>3. Tail(u)[(n + k) + 1] = u[((n + k) + 1) + 1]
      BY <1>6, <3>2
    <3>. QED  BY <1>2, <1>5, <3>1, <3>2, <3>3
  <2>2. half = {} => Len(Tail(u)) = n + k
    BY <1>1, <1>2, <1>5 DEF Remaining
  <2>. QED  BY <2>1, <2>2 DEF Remaining
<1>. QED  BY <1>1, <1>5, <1>7, <1>8, <1>9 DEF Matching

-----------------------------------------------------------------------------
(* The state.                                                              *)

\* TypeOK, and what it leaves open: only announcements wait to be paired.
TypeInv ==
    /\ TypeOK
    /\ \A i \in 1 .. Len(opens) : opens[i].type = "OpenStream"

Opening == {s \in Sessions : phase[s] = "opening"}

\* As long as the connection is there, the announcements that are not paired
\* are those of the streams that are not, in the same order.
Matched == up => Matching(opens, toRelay, streams \o arriving, Opening)

Inv == TypeInv /\ Matched /\ Paired

LEMMA ToRelayFields ==
    ASSUME NEW m \in ToRelay
    PROVE  /\ m.id \in Ids /\ m.type \in {"OpenStream", "CloseStream"}
           /\ m.type = "OpenStream" => m.role \in {"push", "watch"}
BY DEF ToRelay

\* The task of a stream, once there is one.
Works(t) ==
    /\ t \in [at : {"gate", "forward", "serve", "ended"},
              id : Ids, role : {"push", "watch"},
              feed : Sessions \cup {Nobody, Other}]
    /\ t # NoTask

LEMMA TaskWorks ==
    ASSUME TypeOK, NEW q \in Sessions, task[q].at # "none"
    PROVE  Works(task[q])
BY DEF TypeOK, Works, NoTask

\* A task goes on: it stays with its announcement.
TasksOK ==
    task \in [Sessions -> {NoTask}
        \cup [at : {"gate", "forward", "serve", "ended"},
              id : Ids, role : {"push", "watch"},
              feed : Sessions \cup {Nobody, Other}]]

LEMMA TaskBecomes ==
    ASSUME TypeOK, Paired, NEW q \in Sessions, task[q].at # "none",
           NEW t, Works(t), t.id = task[q].id, t.role = task[q].role,
           task' = [task EXCEPT ![q] = t]
    PROVE  TasksOK' /\ Paired'
<1>1. Works(task[q])
  BY TaskWorks
<1>2. t.id = Sid[q] /\ t.role = Role[q]
  BY <1>1 DEF Paired, Works
<1>. QED  BY <1>2 DEF Paired, Works, TypeOK, TasksOK

LEMMA TaskMoves ==
    ASSUME TypeOK, Paired, NEW q \in Sessions, task[q].at # "none",
           NEW at \in {"forward", "serve", "ended"},
           task' = [task EXCEPT ![q].at = at]
    PROVE  TasksOK' /\ Paired'
<1>1. Works(task[q])
  BY TaskWorks
<1>. PICK t : t = [task[q] EXCEPT !.at = at]
  OBVIOUS
<1>2. Works(t) /\ t.id = task[q].id /\ t.role = task[q].role
  BY <1>1 DEF Works, NoTask
<1>3. task' = [task EXCEPT ![q] = t]
  OBVIOUS
<1>. QED  BY <1>2, <1>3, TaskBecomes

\* Nothing of the pairing changes.
LEMMA MatchedKept ==
    ASSUME Matched, up' = up, UNCHANGED <<opens, toRelay, streams, arriving>>,
           Opening' = Opening
    PROVE  Matched'
BY DEF Matched

-----------------------------------------------------------------------------
(* The device.                                                             *)

Unpaired == streams \o arriving

LEMMA UnpairedType ==
    ASSUME TypeOK
    PROVE  Unpaired \in Seq(Sessions) /\ opens \in Seq(ToRelay) /\ toRelay \in Seq(ToRelay)
BY ConcatProperties DEF TypeOK, Unpaired

LEMMA RegisterStep ==
    ASSUME Inv, NEW s \in Sessions, Register(s)
    PROVE  Inv'
<1>1. TypeInv'
  <2>1. semantic' \in [Ids -> Sessions \cup {Nobody}]
    BY QuicAssumption DEF Inv, TypeInv, TypeOK, Register, RegisterLocked
  <2>2. phase' \in [Sessions -> {"idle", "opening", "waiting", "live", "done"}]
    BY DEF Inv, TypeInv, TypeOK, Register, RegisterLocked
  <2>3. arriving' \in Seq(Sessions)
    BY DEF Inv, TypeInv, TypeOK, Register, RegisterLocked
  <2>. QED  BY <2>1, <2>2, <2>3 DEF Inv, TypeInv, TypeOK, Register, RegisterLocked
<1>2. Paired'
  BY DEF Inv, Paired, Register, RegisterLocked
<1>3. Matched'
  <2>1. Opening = {} /\ Opening' = {s}
    BY DEF Opening, Register, RegisterLocked, Inv, TypeInv, TypeOK
  <2>2. Matching(opens, toRelay, Unpaired, {})
    BY <2>1 DEF Inv, Matched, Unpaired, Register, RegisterLocked
  <2>3. Matching(opens, toRelay, Append(Unpaired, s), {s})
    BY <2>2, MatchRegister, UnpairedType DEF Inv, TypeInv
  <2>4. streams' \o arriving' = Append(Unpaired, s)
    <3>1. streams \in Seq(Sessions) /\ arriving \in Seq(Sessions) /\ <<s>> \in Seq(Sessions)
      BY DEF Inv, TypeInv, TypeOK
    <3>2. (streams \o arriving) \o <<s>> = streams \o (arriving \o <<s>>)
      BY <3>1, ConcatAssociative
    <3>3. Append(arriving, s) = arriving \o <<s>> /\ Append(Unpaired, s) = Unpaired \o <<s>>
      BY <3>1, AppendIsConcat, UnpairedType DEF Inv, TypeInv
    <3>. QED  BY <3>2, <3>3 DEF Register, RegisterLocked, Unpaired
  <2>. QED  BY <2>1, <2>3, <2>4 DEF Matched, Register, RegisterLocked
<1>. QED  BY <1>1, <1>2, <1>3 DEF Inv

LEMMA RegisterFailsStep ==
    ASSUME Inv, NEW s \in Sessions, RegisterFails(s)
    PROVE  Inv'
<1>1. TypeInv'
  BY DEF Inv, TypeInv, TypeOK, RegisterFails, peer
<1>2. Paired' /\ Matched'
  BY DEF Inv, Paired, Matched, RegisterFails
<1>. QED  BY <1>1, <1>2 DEF Inv

LEMMA SendOpenStep ==
    ASSUME Inv, NEW s \in Sessions, SendOpen(s)
    PROVE  Inv'
<1>1. TypeInv'
  <2>1. toRelay' \in Seq(ToRelay)
    <3>1. <<Open(s)>> \in Seq(ToRelay) /\ toRelay \in Seq(ToRelay)
      BY OpenType DEF Inv, TypeInv, TypeOK
    <3>. QED  BY <3>1, ConcatProperties DEF SendOpen, SentToRelay
  <2>. QED  BY <2>1 DEF Inv, TypeInv, TypeOK, SendOpen, peer
<1>2. Paired'
  BY DEF Inv, Paired, SendOpen
<1>3. Matched'
  <2>. SUFFICES ASSUME up PROVE Matched'
    BY DEF Matched, SendOpen
  <2>1. Matching(opens, toRelay, Unpaired, Opening)
    BY DEF Inv, Matched, Unpaired
  <2>2. Opening = {s}
    <3>1. \A r \in Opening : Unpaired[Len(Unpaired)] = r
      BY <2>1, UnpairedType DEF Matching, Remaining, Inv, TypeInv
    <3>2. s \in Opening
      BY DEF Opening, SendOpen
    <3>. QED  BY <3>1, <3>2
  <2>3. Opening' = {}
    BY <2>2 DEF Opening, SendOpen, Inv, TypeInv, TypeOK
  <2>4. Matching(opens, toRelay \o <<Open(s)>>, Unpaired, {})
    BY <2>1, <2>2, MatchSendOpen, UnpairedType DEF Inv, TypeInv
  <2>. QED  BY <2>3, <2>4 DEF Matched, SendOpen, SentToRelay, peer, Unpaired
<1>. QED  BY <1>1, <1>2, <1>3 DEF Inv

LEMMA RouteStep ==
    ASSUME Inv, Route
    PROVE  Inv'
<1>1. TypeInv'
  <2>1. toDevice' \in Seq(ToDevice) /\ Head(toDevice) \in ToDevice
    BY DEF Route, Inv, TypeInv, TypeOK
  <2>2. EventOf(Head(toDevice)) \in {"Opened", "Error", "Closed"}
    BY <2>1 DEF EventOf, ToDevice, Error
  <2>3. events' \in [Sessions -> Seq({"Opened", "Error", "Closed"})]
    BY <2>2 DEF Route, Inv, TypeInv, TypeOK
  <2>. QED  BY <2>1, <2>3 DEF Inv, TypeInv, TypeOK, Route, peer
<1>2. Paired'
  BY DEF Inv, Paired, Route
<1>3. Matched'
  BY MatchedKept DEF Inv, Route, peer, Opening
<1>. QED  BY <1>1, <1>2, <1>3 DEF Inv

\* Sessions that are past the announcement.
LEMMA OpeningKept ==
    ASSUME TypeOK, NEW s \in Sessions, phase[s] # "opening",
           phase' \in {phase, [phase EXCEPT ![s] = "live"], [phase EXCEPT ![s] = "done"]}
    PROVE  Opening' = Opening
BY DEF Opening, TypeOK

LEMMA ReceiveStep ==
    ASSUME Inv, NEW s \in Sessions, Receive(s)
    PROVE  Inv'
<1>0. phase' \in {phase, [phase EXCEPT ![s] = "live"], [phase EXCEPT ![s] = "done"]}
  BY DEF Receive, Drop
<1>1. TypeInv'
  <2>1. events' \in [Sessions -> Seq({"Opened", "Error", "Closed"})]
    BY DEF Receive, Inv, TypeInv, TypeOK
  <2>2. phase' \in [Sessions -> {"idle", "opening", "waiting", "live", "done"}]
    BY <1>0 DEF Inv, TypeInv, TypeOK
  <2>3. fin' \subseteq Sessions
    BY DEF Receive, Drop, Inv, TypeInv, TypeOK
  <2>. QED  BY <2>1, <2>2, <2>3 DEF Inv, TypeInv, TypeOK, Receive, peer
<1>2. Paired'
  BY DEF Inv, Paired, Receive
<1>3. Opening' = Opening
  BY <1>0, OpeningKept DEF Receive, Inv, TypeInv
<1>4. Matched'
  BY <1>3, MatchedKept DEF Inv, Receive, peer
<1>. QED  BY <1>1, <1>2, <1>4 DEF Inv

LEMMA MediaEndsStep ==
    ASSUME Inv, NEW s \in Sessions, MediaEnds(s)
    PROVE  Inv'
<1>1. TypeInv'
  BY DEF MediaEnds, Drop, Inv, TypeInv, TypeOK, peer
<1>2. Paired'
  BY DEF Inv, Paired, MediaEnds
<1>3. Opening' = Opening
  BY OpeningKept DEF MediaEnds, Drop, Inv, TypeInv
<1>4. Matched'
  BY <1>3, MatchedKept DEF Inv, MediaEnds, peer
<1>. QED  BY <1>1, <1>2, <1>4 DEF Inv

LEMMA StopStep ==
    ASSUME Inv, NEW s \in Sessions, Stop(s)
    PROVE  Inv'
<1>. PICK m : m = Close(Sid[s])
  OBVIOUS
<1>1. m \in ToRelay /\ m.type # "OpenStream"
  BY CloseType, QuicAssumption
<1>2. toRelay' \in {toRelay, toRelay \o <<m, m>>}
  <2>1. toRelay \o <<>> = toRelay
    BY ConcatEmptySeq DEF Inv, TypeInv, TypeOK
  <2>2. CASE up /\ Role[s] = "push"
    BY <2>2 DEF Stop, SentToRelay
  <2>3. CASE up /\ Role[s] # "push"
    BY <2>1, <2>3 DEF Stop, SentToRelay
  <2>4. CASE ~up
    BY <2>4 DEF Stop, SentToRelay
  <2>. QED  BY <2>2, <2>3, <2>4
<1>3. toRelay' \in Seq(ToRelay)
  <2>1. <<m, m>> \in Seq(ToRelay) /\ toRelay \in Seq(ToRelay)
    BY <1>1 DEF Inv, TypeInv, TypeOK
  <2>2. toRelay \o <<m, m>> \in Seq(ToRelay)
    BY <2>1, ConcatProperties
  <2>. QED  BY <1>2, <2>1, <2>2
<1>4. TypeInv'
  <2>1. phase' \in [Sessions -> {"idle", "opening", "waiting", "live", "done"}] /\ fin' \subseteq Sessions
    BY DEF Stop, Drop, Inv, TypeInv, TypeOK
  <2>2. semantic' = semantic /\ UNCHANGED <<up, toDevice, peer, task, table>>
    BY DEF Stop
  <2>3. events' \in [Sessions -> Seq({"Opened", "Error", "Closed"})]
    <3>1. events' = [events EXCEPT ![s] = <<>>]
      BY DEF Stop
    <3>2. <<>> \in Seq({"Opened", "Error", "Closed"})
      OBVIOUS
    <3>. QED  BY <3>1, <3>2 DEF Inv, TypeInv, TypeOK
  <2>. QED  BY <1>3, <2>1, <2>2, <2>3 DEF Inv, TypeInv, TypeOK, peer
<1>5. Paired'
  BY DEF Inv, Paired, Stop
<1>6. Opening' = Opening
  BY OpeningKept DEF Stop, Drop, Inv, TypeInv
<1>7. Matched'
  <2>. SUFFICES ASSUME up PROVE Matched'
    BY DEF Matched, Stop
  <2>1. Matching(opens, toRelay, Unpaired, Opening)
    BY DEF Inv, Matched, Unpaired
  <2>2. Matching(opens, toRelay \o <<m, m>>, Unpaired, Opening)
    BY <1>1, <2>1, MatchStop, UnpairedType DEF Inv, TypeInv
  <2>. QED  BY <1>2, <1>6, <2>1, <2>2 DEF Matched, Stop, peer, Unpaired
<1>. QED  BY <1>4, <1>5, <1>7 DEF Inv

-----------------------------------------------------------------------------
(* The relay: the pairing.                                                 *)

LEMMA TailConcat ==
    ASSUME NEW ss \in Seq(Sessions), NEW rest \in Seq(Sessions), ss # <<>>
    PROVE  /\ Head(ss \o rest) = Head(ss) /\ ss \o rest \in Seq(Sessions)
           /\ Tail(ss \o rest) = Tail(ss) \o rest
<1>1. Head(ss) \in Sessions /\ Tail(ss) \in Seq(Sessions)
  OBVIOUS
<1>2. ss = <<Head(ss)>> \o Tail(ss) /\ <<Head(ss)>> \in Seq(Sessions)
  BY <1>1
<1>3. ss \o rest = <<Head(ss)>> \o (Tail(ss) \o rest)
  BY <1>1, <1>2, ConcatAssociative
<1>. PICK h \in Sessions, t \in Seq(Sessions) : h = Head(ss) /\ t = Tail(ss) \o rest
  BY <1>1, ConcatProperties
<1>4. Head(<<h>> \o t) = h /\ Tail(<<h>> \o t) = t
  OBVIOUS
<1>5. ss \o rest \in Seq(Sessions)
  BY ConcatProperties
<1>. QED  BY <1>3, <1>4, <1>5

PairTypes ==
    /\ opens \in Seq(ToRelay) /\ streams \in Seq(Sessions)
    /\ \A i \in 1 .. Len(opens) : opens[i].type = "OpenStream"
    /\ bySem \in [Ids -> Sessions \cup {Nobody}] /\ byQuic \subseteq Sessions
    /\ TasksOK

LEMMA PairStep ==
    ASSUME TypeOK, Paired,
           NEW os \in Seq(ToRelay), \A i \in 1 .. Len(os) : os[i].type = "OpenStream",
           NEW ss \in Seq(Sessions), NEW rest \in Seq(Sessions), NEW q \in Seq(ToRelay),
           Matching(os, q, ss \o rest, Opening), Pair(os, ss)
    PROVE  PairTypes' /\ Paired' /\ Matching(opens', q, streams' \o rest, Opening)
<1>1. CASE os = <<>> \/ ss = <<>>
  BY <1>1 DEF Pair, TypeOK, PairTypes, TasksOK, Paired
<1>2. CASE os # <<>> /\ ss # <<>>
  <2>. PICK o, s : o = Head(os) /\ s = Head(ss)
    OBVIOUS
  <2>1. o \in ToRelay /\ s \in Sessions /\ o.type = "OpenStream"
    <3>1. o = os[1] /\ 1 \in 1 .. Len(os) /\ o \in ToRelay
      BY <1>2, TailOf
    <3>2. s \in Sessions
      BY <1>2
    <3>. QED  BY <3>1, <3>2
  <2>2. /\ o = Open(s)
        /\ Matching(Tail(os), q, Tail(ss) \o rest, Opening)
    <3>. PICK u : u = ss \o rest
      OBVIOUS
    <3>1. u \in Seq(Sessions) /\ Head(u) = s /\ Tail(u) = Tail(ss) \o rest
      BY <1>2, TailConcat
    <3>2. Head(os) = Open(Head(u)) /\ Matching(Tail(os), q, Tail(u), Opening)
      BY <1>2, <3>1, MatchPair
    <3>. QED  BY <3>1, <3>2
  <2>3. /\ opens' = Tail(os) /\ streams' = Tail(ss)
        /\ byQuic' = byQuic \cup {s} /\ bySem' = [bySem EXCEPT ![o.id] = s]
        /\ task' = [task EXCEPT ![s] =
              [at |-> "gate", id |-> o.id, role |-> o.role, feed |-> Nobody]]
    BY <1>2 DEF Pair
  <2>4. o.id = Sid[s] /\ o.role = Role[s] /\ o.id \in Ids /\ o.role \in {"push", "watch"}
    BY <2>1, <2>2, OpenFields, QuicAssumption
  <2>. PICK t : t = [at |-> "gate", id |-> o.id, role |-> o.role, feed |-> Nobody]
    OBVIOUS
  <2>5. Works(t) /\ t.id = Sid[s] /\ t.role = Role[s] /\ task' = [task EXCEPT ![s] = t]
    BY <2>3, <2>4 DEF Works, NoTask
  <2>6. TasksOK' /\ Paired'
    BY <2>1, <2>5 DEF TypeOK, TasksOK, Works, Paired
  <2>7. /\ opens' \in Seq(ToRelay) /\ streams' \in Seq(Sessions)
        /\ \A i \in 1 .. Len(opens') : opens'[i].type = "OpenStream"
    <3>1. \A i \in 1 .. Len(opens') : opens'[i] = os[i + 1] /\ i + 1 \in 1 .. Len(os)
      BY <1>2, <2>3, TailOf
    <3>. QED  BY <1>2, <2>3, <3>1
  <2>8. bySem' \in [Ids -> Sessions \cup {Nobody}] /\ byQuic' \subseteq Sessions
    BY <2>1, <2>3 DEF TypeOK
  <2>. QED  BY <2>2, <2>3, <2>6, <2>7, <2>8 DEF PairTypes
<1>. QED  BY <1>1, <1>2

LEMMA RecvOpenStep ==
    ASSUME Inv, RecvOpen
    PROVE  Inv'
<1>1. /\ toRelay \in Seq(ToRelay) /\ toRelay # <<>> /\ Head(toRelay) \in ToRelay
      /\ Head(toRelay).type = "OpenStream" /\ toRelay' = Tail(toRelay)
      /\ toRelay' \in Seq(ToRelay)
  BY DEF RecvOpen, Inv, TypeInv, TypeOK
<1>2. Matching(Append(opens, Head(toRelay)), toRelay', Unpaired, Opening)
  BY <1>1, MatchRecvOpen, UnpairedType DEF Inv, TypeInv, Matched, Unpaired, RecvOpen
<1>3. /\ Append(opens, Head(toRelay)) \in Seq(ToRelay)
      /\ \A i \in 1 .. Len(Append(opens, Head(toRelay))) :
            Append(opens, Head(toRelay))[i].type = "OpenStream"
  <2>1. opens \in Seq(ToRelay) /\ \A i \in 1 .. Len(opens) : opens[i].type = "OpenStream"
    BY DEF Inv, TypeInv, TypeOK
  <2>. PICK m \in ToRelay : m = Head(toRelay)
    BY <1>1
  <2>2. /\ Len(Append(opens, m)) = Len(opens) + 1 /\ Append(opens, m)[Len(opens) + 1] = m
        /\ \A i \in 1 .. Len(opens) : Append(opens, m)[i] = opens[i]
        /\ Append(opens, m) \in Seq(ToRelay)
    BY <2>1
  <2>. QED  BY <1>1, <2>1, <2>2
<1>4. streams \in Seq(Sessions) /\ arriving \in Seq(Sessions)
  BY DEF Inv, TypeInv, TypeOK
<1>5. PairTypes' /\ Paired' /\ Matching(opens', toRelay', streams' \o arriving, Opening)
  BY <1>1, <1>2, <1>3, <1>4, PairStep DEF RecvOpen, Inv, TypeInv, Unpaired
<1>6. Opening' = Opening /\ arriving' = arriving
  BY DEF Opening, RecvOpen, device
<1>7. TypeInv'
  BY <1>1, <1>5 DEF PairTypes, TasksOK, RecvOpen, device, Inv, TypeInv, TypeOK
<1>. QED  BY <1>5, <1>6, <1>7 DEF Inv, Matched

LEMMA AcceptStreamStep ==
    ASSUME Inv, AcceptStream
    PROVE  Inv'
<1>1. /\ streams \in Seq(Sessions) /\ arriving \in Seq(Sessions) /\ arriving # <<>>
      /\ Head(arriving) \in Sessions
      /\ arriving' = Tail(arriving) /\ arriving' \in Seq(Sessions)
  BY DEF AcceptStream, Inv, TypeInv, TypeOK
<1>2. Append(streams, Head(arriving)) \in Seq(Sessions)
  BY <1>1
<1>3. Append(streams, Head(arriving)) \o arriving' = streams \o arriving
  <2>. PICK h \in Sessions, t \in Seq(Sessions) : h = Head(arriving) /\ t = Tail(arriving)
    BY <1>1
  <2>1. arriving = <<h>> \o t /\ <<h>> \in Seq(Sessions)
    BY <1>1
  <2>2. Append(streams, h) = streams \o <<h>>
    BY <1>1, AppendIsConcat
  <2>3. (streams \o <<h>>) \o t = streams \o (<<h>> \o t)
    BY <1>1, <2>1, ConcatAssociative
  <2>. QED  BY <1>1, <2>1, <2>2, <2>3
<1>4. opens \in Seq(ToRelay) /\ toRelay \in Seq(ToRelay)
      /\ \A i \in 1 .. Len(opens) : opens[i].type = "OpenStream"
  BY DEF Inv, TypeInv, TypeOK
<1>5. Matching(opens, toRelay, Append(streams, Head(arriving)) \o arriving', Opening)
  BY <1>3 DEF Inv, Matched, AcceptStream
<1>6. PairTypes' /\ Paired' /\ Matching(opens', toRelay, streams' \o arriving', Opening)
  BY <1>1, <1>2, <1>4, <1>5, PairStep DEF AcceptStream, Inv, TypeInv
<1>7. Opening' = Opening /\ toRelay' = toRelay
  BY DEF Opening, AcceptStream, device
<1>8. TypeInv'
  BY <1>1, <1>6 DEF PairTypes, TasksOK, AcceptStream, device, Inv, TypeInv, TypeOK
<1>. QED  BY <1>6, <1>7, <1>8 DEF Inv, Matched

LEMMA RecvCloseStep ==
    ASSUME Inv, RecvClose
    PROVE  Inv'
<1>1. /\ toRelay \in Seq(ToRelay) /\ toRelay # <<>> /\ Head(toRelay) \in ToRelay
      /\ Head(toRelay).type # "OpenStream" /\ toRelay' = Tail(toRelay)
      /\ toRelay' \in Seq(ToRelay)
  BY DEF RecvClose, Inv, TypeInv, TypeOK
<1>2. Matching(opens, toRelay', Unpaired, Opening)
  BY <1>1, MatchRecvClose, UnpairedType DEF Inv, TypeInv, Matched, Unpaired, RecvClose
<1>. PICK id \in Ids : id = Head(toRelay).id
  BY <1>1, ToRelayFields
<1>. DEFINE q == bySem[id]
<1>3. bySem' = [bySem EXCEPT ![id] = Nobody] /\ byQuic' = byQuic \ {q}
  BY DEF RecvClose
<1>4. table' \in [Ids -> Sessions \cup {Nobody, Other}]
  BY DEF RecvClose, Inv, TypeInv, TypeOK
<1>5. TypeInv'
  BY <1>1, <1>3, <1>4 DEF RecvClose, device, Inv, TypeInv, TypeOK
<1>6. Paired'
  BY DEF Inv, Paired, RecvClose
<1>7. Matched'
  BY <1>2 DEF Matched, Unpaired, RecvClose, device, Opening
<1>. QED  BY <1>5, <1>6, <1>7 DEF Inv

-----------------------------------------------------------------------------
(* The relay: the tasks of the streams, and the connection.                *)

\* What the relay says is of its kind.
LEMMA ToDeviceGrows ==
    ASSUME TypeOK, NEW ms \in Seq(ToDevice), SentToDevice(ms)
    PROVE  toDevice' \in Seq(ToDevice)
BY ConcatProperties DEF TypeOK, SentToDevice

LEMMA Answers ==
    ASSUME NEW id \in Ids
    PROVE  /\ <<Opened(id)>> \in Seq(ToDevice) /\ <<Close(id)>> \in Seq(ToDevice)
           /\ <<Error, Close(id)>> \in Seq(ToDevice)
<1>1. Opened(id) \in ToDevice /\ Close(id) \in ToDevice /\ Error \in ToDevice
  BY DEF ToDevice, Opened, Close
<1>. QED  BY <1>1

\* A step of a task: it may answer, and change the table.
LEMMA TaskStep ==
    ASSUME Inv, TasksOK', Paired', toDevice' \in Seq(ToDevice),
           table' \in [Ids -> Sessions \cup {Nobody, Other}],
           UNCHANGED <<up, device, toRelay, peer>>
    PROVE  Inv'
<1>1. TypeInv'
  BY DEF Inv, TypeInv, TypeOK, TasksOK, device, peer
<1>2. Matched'
  BY DEF Inv, Matched, device, peer, Opening
<1>. QED  BY <1>1, <1>2 DEF Inv

LEMMA StreamTaskStep ==
    ASSUME Inv, NEW q \in Sessions,
           Refuse(q) \/ Admit(q) \/ PushEnd(q) \/ Serve(q) \/ WatchEnd(q)
    PROVE  Inv'
<1>1. TypeOK /\ Paired /\ task[q].at # "none"
  BY DEF Inv, TypeInv, Refuse, Admit, PushEnd, PushEndLeaving, Serve, WatchEnd
<1>. PICK id : id = task[q].id
  OBVIOUS
<1>2. Works(task[q]) /\ id \in Ids
  BY <1>1, TaskWorks DEF Works
<1>3. CASE Refuse(q)
  <2>1. toDevice' \in Seq(ToDevice)
    BY <1>1, <1>2, <1>3, Answers, ToDeviceGrows DEF Refuse
  <2>2. TasksOK' /\ Paired'
    BY <1>1, <1>3, TaskMoves DEF Refuse
  <2>. QED  BY <1>1, <1>3, <2>1, <2>2, TaskStep DEF Refuse, TypeOK
<1>4. CASE Admit(q)
  <2>1. toDevice' \in Seq(ToDevice)
    BY <1>1, <1>2, <1>4, Answers, ToDeviceGrows DEF Admit
  <2>2. TasksOK' /\ Paired'
    BY <1>1, <1>4, TaskMoves DEF Admit
  <2>3. table' \in [Ids -> Sessions \cup {Nobody, Other}]
    BY <1>1, <1>2, <1>4 DEF Admit, TypeOK
  <2>. QED  BY <1>4, <2>1, <2>2, <2>3, TaskStep DEF Admit
<1>5. CASE PushEnd(q)
  <2>1. toDevice' \in Seq(ToDevice)
    BY <1>1, <1>2, <1>5, Answers, ToDeviceGrows DEF PushEnd, PushEndLeaving
  <2>2. TasksOK' /\ Paired'
    BY <1>1, <1>5, TaskMoves DEF PushEnd, PushEndLeaving
  <2>3. table' \in [Ids -> Sessions \cup {Nobody, Other}]
    BY <1>1, <1>2, <1>5 DEF PushEnd, PushEndLeaving, TypeOK
  <2>. QED  BY <1>5, <2>1, <2>2, <2>3, TaskStep DEF PushEnd, PushEndLeaving
<1>6. CASE Serve(q)
  <2>1. toDevice' \in Seq(ToDevice)
    BY <1>1, <1>2, <1>6, Answers, ToDeviceGrows DEF Serve
  <2>. PICK feed : feed = table[task[q].id]
    OBVIOUS
  <2>2. feed \in Sessions \cup {Nobody, Other}
    BY <1>1, <1>2 DEF TypeOK
  <2>. PICK t : t = [task[q] EXCEPT !.at = "serve", !.feed = feed]
    OBVIOUS
  <2>3. Works(t) /\ t.id = task[q].id /\ t.role = task[q].role
    BY <1>2, <2>2 DEF Works, NoTask
  <2>4. task' = [task EXCEPT ![q] = t]
    BY <1>1, <1>6 DEF Serve, TypeOK
  <2>5. TasksOK' /\ Paired'
    BY <1>1, <2>3, <2>4, TaskBecomes
  <2>. QED  BY <1>1, <1>6, <2>1, <2>5, TaskStep DEF Serve, TypeOK
<1>7. CASE WatchEnd(q)
  <2>1. toDevice' \in Seq(ToDevice)
    BY <1>1, <1>2, <1>7, Answers, ToDeviceGrows DEF WatchEnd, TypeOK
  <2>2. TasksOK' /\ Paired'
    BY <1>1, <1>7, TaskMoves DEF WatchEnd
  <2>. QED  BY <1>1, <1>7, <2>1, <2>2, TaskStep DEF WatchEnd, TypeOK
<1>. QED  BY <1>3, <1>4, <1>5, <1>6, <1>7

LEMMA OtherEndsStep ==
    ASSUME Inv, NEW i \in Ids, OtherEnds(i)
    PROVE  Inv'
<1>1. TasksOK' /\ Paired'
  BY DEF Inv, TypeInv, TypeOK, OtherEnds, TasksOK, Paired
<1>2. table' \in [Ids -> Sessions \cup {Nobody, Other}]
  BY DEF Inv, TypeInv, TypeOK, OtherEnds
<1>. QED  BY <1>1, <1>2, TaskStep DEF OtherEnds, Inv, TypeInv, TypeOK

LEMMA LinkClosesStep ==
    ASSUME Inv, LinkCloses
    PROVE  Inv'
<1>1. /\ opens' \in Seq(ToRelay) /\ toRelay' \in Seq(ToRelay) /\ toDevice' \in Seq(ToDevice)
      /\ arriving' \in Seq(Sessions) /\ streams' \in Seq(Sessions)
      /\ \A i \in 1 .. Len(opens') : opens'[i].type = "OpenStream"
  BY DEF LinkCloses
<1>2. bySem' \in [Ids -> Sessions \cup {Nobody}] /\ byQuic' \subseteq Sessions /\ up' \in BOOLEAN
  BY DEF LinkCloses
<1>3. TypeInv'
  BY <1>1, <1>2 DEF Inv, TypeInv, TypeOK, LinkCloses, device
<1>4. Matched' /\ Paired'
  BY DEF Inv, Matched, Paired, LinkCloses
<1>. QED  BY <1>3, <1>4 DEF Inv

LEMMA InvStep == Inv /\ [Next]_vars => Inv'
<1>. SUFFICES ASSUME Inv, [Next]_vars PROVE Inv'
  OBVIOUS
<1>1. CASE UNCHANGED vars
  BY <1>1 DEF Inv, TypeInv, TypeOK, Matched, Paired, Opening, vars, device, peer
<1>2. CASE Next
  BY <1>2, RegisterStep, RegisterFailsStep, SendOpenStep, ReceiveStep, MediaEndsStep,
     StopStep, StreamTaskStep, RouteStep, RecvOpenStep, AcceptStreamStep, RecvCloseStep,
     LinkClosesStep, OtherEndsStep
  DEF Next
<1>. QED  BY <1>1, <1>2

LEMMA InvInit == Init => Inv
<1>. SUFFICES ASSUME Init PROVE Inv
  OBVIOUS
<1>1. TypeInv
  BY QuicAssumption DEF Init, TypeInv, TypeOK
<1>2. Matched
  <2>1. Opening = {} /\ opens = <<>> /\ toRelay = <<>> /\ streams \o arriving = <<>>
    BY DEF Init, Opening
  <2>2. Enumerates(<<>>, 0, <<>>) /\ <<>> \in [1 .. 0 -> 1 .. Len(<<>>)]
    BY DEF Enumerates
  <2>3. Aligned(<<>>, <<>>, <<>>, <<>>, 0) /\ Remaining(<<>>, Len(<<>>) + 0, {})
    BY DEF Aligned, Remaining
  <2>4. Matching(<<>>, <<>>, <<>>, {})
    BY <2>2, <2>3 DEF Matching
  <2>. QED  BY <2>1, <2>4 DEF Matched
<1>3. Paired
  BY DEF Init, Paired
<1>. QED  BY <1>1, <1>2, <1>3 DEF Inv

\* Every variable of the link and of the relay's end of it keeps its type,
\* whatever the sessions do and whenever the connection is lost.
THEOREM TypeCorrect == Spec => []TypeOK
<1>1. Inv => TypeOK
  BY DEF Inv, TypeInv
<1>. QED  BY <1>1, InvInit, InvStep, PTL DEF Spec

\* A task of the relay works for the announcement of the session whose stream
\* it holds (register, quic_peer_loop), for any number of sessions: although
\* streams and announcements arrive apart, what is left of both is always in
\* the same order.
THEOREM PairedHolds == Spec => []Paired
<1>1. Inv => Paired
  BY DEF Inv
<1>. QED  BY <1>1, InvInit, InvStep, PTL DEF Spec

=============================================================================
