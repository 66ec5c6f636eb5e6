------------------------- MODULE FileTransferProofs -------------------------
(***************************************************************************)
(* Proofs about FileTransfer, for any files, receivers, chunk and queue    *)
(* sizes: what the pump, its client and the relay make of a file is one    *)
(* chain of frames, and a receiver writes as many units as it has counted, *)
(* each at its place, unless it has missed some and then cannot end.       *)
(***************************************************************************)
EXTENDS FileTransfer, SequenceTheorems, TLAPS

-----------------------------------------------------------------------------
(* The chain of the frames of a file: its description, chunks that follow  *)
(* each other without a gap, and Bye at the end.                           *)

Follows(q, i, total, most) ==
  /\ q[i].kind \in {"meta", "data"} => (q[i].kind = "meta" <=> i = 1)
  /\ q[i].kind = "meta" => q[i] = Meta
  /\ q[i].kind = "data" => /\ q[i].at = q[i - 1].at + q[i - 1].units
                           /\ \A j \in 1 .. i - 1 : q[j].at + q[j].units <= q[i].at
                           /\ q[i].at + q[i].units <= most
                           /\ q[i].end => q[i].at + q[i].units = total
  /\ q[i].kind = "bye" => q[i] = Bye /\ i = Len(q)

Chained(q, total, most) == \A i \in 1 .. Len(q) : Follows(q, i, total, most)

HasEnd(q) == \E i \in 1 .. Len(q) : q[i].end
HasBye(q) == \E i \in 1 .. Len(q) : q[i].kind = "bye"
Reach(q)  == q[Len(q)].at + q[Len(q)].units

LEMMA FrameFields ==
  ASSUME NEW x \in Frame
  PROVE  /\ x.kind \in {"meta", "data", "bye"} /\ x.at \in 0 .. MaxUnits
         /\ x.units \in 0 .. Chunk /\ x.end \in BOOLEAN
BY DEF Frame

LEMMA FrameNumbers ==
  ASSUME NEW x \in Frame
  PROVE  x.at \in Nat /\ x.units \in Nat /\ x.kind \in {"meta", "data", "bye"}
<1>1. \A n, m \in Nat : \A k \in 0 .. n : k \in Nat
  OBVIOUS
<1>. QED  BY <1>1, FrameFields, ConstantsAssumption

LEMMA FramesAre ==
  /\ Meta \in Frame /\ Meta.kind = "meta" /\ Meta.at = 0 /\ Meta.units = 0 /\ Meta.end = FALSE
  /\ Bye \in Frame /\ Bye.kind = "bye" /\ Bye.at = 0 /\ Bye.units = 0 /\ Bye.end = FALSE
BY ConstantsAssumption DEF Meta, Bye, Frame

LEMMA DataIs ==
  ASSUME NEW at \in 0 .. MaxUnits, NEW n \in 0 .. Chunk, NEW end \in BOOLEAN
  PROVE  /\ Data(at, n, end) \in Frame /\ Data(at, n, end).kind = "data"
         /\ Data(at, n, end).at = at /\ Data(at, n, end).units = n
         /\ Data(at, n, end).end = end
BY DEF Data, Frame

LEMMA Appended ==
  ASSUME NEW q \in Seq(Frame), NEW x \in Frame
  PROVE  /\ Append(q, x) \in Seq(Frame) /\ Append(q, x) # <<>>
         /\ Len(Append(q, x)) = Len(q) + 1 /\ Len(q) \in Nat
         /\ \A i \in 1 .. Len(q) : Append(q, x)[i] = q[i]
         /\ Append(q, x)[Len(q) + 1] = x
BY AppendProperties

\* A frame that follows is put behind the others.
LEMMA ChainAppend ==
  ASSUME NEW q \in Seq(Frame), NEW x \in Frame, NEW total, NEW most,
         Chained(q, total, most), ~HasBye(q),
         \/ x = Meta /\ q = <<>>
         \/ x = Bye
         \/ /\ x.kind = "data" /\ q # <<>>
            /\ x.at = Reach(q) /\ x.at + x.units <= most
            /\ x.end => x.at + x.units = total
  PROVE  /\ Chained(Append(q, x), total, most)
         /\ HasEnd(Append(q, x)) <=> HasEnd(q) \/ x.end
         /\ HasBye(Append(q, x)) <=> x = Bye
         /\ Reach(Append(q, x)) = x.at + x.units
<1>. PICK t : t = Append(q, x)
  OBVIOUS
<1>. PICK n \in Nat : n = Len(q)
  OBVIOUS
<1>1. /\ t \in Seq(Frame) /\ Len(t) = n + 1 /\ t[n + 1] = x
      /\ \A i \in 1 .. n : t[i] = q[i]
  BY Appended
<1>2. \A i \in 1 .. Len(t) : i \in 1 .. n \/ i = n + 1
  BY <1>1
<1>3. \A i \in 1 .. n : i \in 1 .. Len(t)
  BY <1>1
<1>4. HasEnd(t) <=> HasEnd(q) \/ x.end
  <2>1. n + 1 \in 1 .. Len(t)
    BY <1>1
  <2>. QED  BY <1>1, <1>2, <1>3, <2>1 DEF HasEnd
<1>5. HasBye(t) <=> x = Bye
  <2>1. n + 1 \in 1 .. Len(t)
    BY <1>1
  <2>2. x.kind = "bye" <=> x = Bye
    BY FramesAre
  <2>. QED  BY <1>1, <1>2, <1>3, <2>1, <2>2 DEF HasBye
<1>6. Reach(t) = x.at + x.units
  BY <1>1 DEF Reach
<1>7. Chained(t, total, most)
  <2>. SUFFICES ASSUME NEW i \in 1 .. Len(t) PROVE Follows(t, i, total, most)
    BY DEF Chained
  <2>1. CASE i \in 1 .. n
    <3>1. Follows(q, i, total, most) /\ t[i] = q[i] /\ q[i].kind # "bye"
      BY <1>1, <2>1 DEF Chained, HasBye
    <3>2. CASE i = 1
      BY <3>1, <3>2, FrameFields DEF Follows
    <3>3. CASE i # 1
      <4>1. t[i - 1] = q[i - 1] /\ \A j \in 1 .. i - 1 : t[j] = q[j]
        BY <1>1, <2>1, <3>3
      <4>. QED  BY <3>1, <4>1 DEF Follows
    <3>. QED  BY <3>2, <3>3
  <2>2. CASE i = n + 1
    <3>1. t[i] = x /\ i = Len(t)
      BY <1>1, <2>2
    <3>2. CASE x = Meta /\ q = <<>>
      <4>1. i = 1
        BY <2>2, <3>2
      <4>. QED  BY <3>1, <3>2, <4>1, FramesAre DEF Follows
    <3>3. CASE x = Bye
      BY <3>1, <3>3, FramesAre DEF Follows
    <3>4. CASE /\ x.kind = "data" /\ q # <<>>
               /\ x.at = Reach(q) /\ x.at + x.units <= most
               /\ x.end => x.at + x.units = total
      <4>1. i # 1 /\ i - 1 = n /\ t[i - 1] = q[n] /\ n \in 1 .. n
        BY <1>1, <2>2, <3>4
      <4>2. \A j \in 1 .. n : q[j].at + q[j].units <= q[n].at + q[n].units
        <5>. TAKE j \in 1 .. n
        <5>1. q[j] \in Frame /\ q[n] \in Frame
          BY <4>1
        <5>2. /\ q[j].at \in Nat /\ q[j].units \in Nat /\ q[n].at \in Nat /\ q[n].units \in Nat
              /\ q[n].kind \in {"meta", "data"}
          BY <4>1, <5>1, FrameFields, ConstantsAssumption DEF HasBye
        <5>3. Follows(q, n, total, most)
          BY <4>1 DEF Chained
        <5>4. CASE j = n
          BY <5>2, <5>4
        <5>5. CASE j # n
          <6>1. q[n].kind = "data" /\ j \in 1 .. n - 1
            BY <5>2, <5>3, <5>5 DEF Follows
          <6>2. q[j].at + q[j].units <= q[n].at
            BY <5>3, <6>1 DEF Follows
          <6>. QED  BY <5>2, <6>2
        <5>. QED  BY <5>4, <5>5
      <4>3. \A j \in 1 .. i - 1 : t[j].at + t[j].units <= x.at
        BY <1>1, <3>4, <4>1, <4>2 DEF Reach
      <4>. QED  BY <3>1, <3>4, <4>1, <4>3 DEF Follows, Reach
    <3>. QED  BY <3>2, <3>3, <3>4
  <2>. QED  BY <1>2, <2>1, <2>2
<1>. QED  BY <1>4, <1>5, <1>6, <1>7

-----------------------------------------------------------------------------
(* The frames of a file on their way: broadcast, under way, queued.        *)

Way(fd, w, q) == fd \o (w \o q)

LEMMA WayType ==
  ASSUME NEW fd \in Seq(Frame), NEW w \in Seq(Frame), NEW q \in Seq(Frame)
  PROVE  /\ Way(fd, w, q) \in Seq(Frame)
         /\ Len(Way(fd, w, q)) = Len(fd) + Len(w) + Len(q)
         /\ \A i \in 1 .. Len(fd) : Way(fd, w, q)[i] = fd[i]
         /\ \A i \in 1 .. Len(w) : Way(fd, w, q)[Len(fd) + i] = w[i]
<1>. PICK t : t = w \o q
  OBVIOUS
<1>1. /\ t \in Seq(Frame) /\ Len(t) = Len(w) + Len(q)
      /\ \A i \in 1 .. Len(w) : t[i] = w[i]
  BY ConcatProperties
<1>2. /\ fd \o t \in Seq(Frame) /\ Len(fd \o t) = Len(fd) + Len(t)
      /\ \A i \in 1 .. Len(fd) : (fd \o t)[i] = fd[i]
      /\ \A i \in 1 .. Len(t) : (fd \o t)[Len(fd) + i] = t[i]
  BY <1>1, ConcatProperties
<1>3. Len(fd) \in Nat /\ Len(w) \in Nat /\ Len(q) \in Nat
  OBVIOUS
<1>4. \A i \in 1 .. Len(w) : (fd \o t)[Len(fd) + i] = w[i]
  BY <1>1, <1>2, <1>3
<1>. QED  BY <1>1, <1>2, <1>3, <1>4 DEF Way

LEMMA WayQueued ==
  ASSUME NEW fd \in Seq(Frame), NEW w \in Seq(Frame), NEW q \in Seq(Frame), NEW x \in Frame
  PROVE  Way(fd, w, Append(q, x)) = Append(Way(fd, w, q), x)
<1>1. <<x>> \in Seq(Frame) /\ w \o q \in Seq(Frame) /\ fd \o (w \o q) \in Seq(Frame)
  BY ConcatProperties
<1>2. Append(q, x) = q \o <<x>> /\ Append(fd \o (w \o q), x) = (fd \o (w \o q)) \o <<x>>
  BY <1>1, AppendIsConcat
<1>3. w \o (q \o <<x>>) = (w \o q) \o <<x>>
  BY <1>1, ConcatAssociative
<1>4. (fd \o (w \o q)) \o <<x>> = fd \o ((w \o q) \o <<x>>)
  BY <1>1, ConcatAssociative
<1>. QED  BY <1>2, <1>3, <1>4 DEF Way

\* The head of one sequence goes to the end of the one before.
LEMMA Handed ==
  ASSUME NEW w \in Seq(Frame), NEW q \in Seq(Frame), q # <<>>
  PROVE  /\ Head(q) \in Frame /\ Tail(q) \in Seq(Frame)
         /\ Append(w, Head(q)) \in Seq(Frame)
         /\ Append(w, Head(q)) \o Tail(q) = w \o q
<1>0. Head(q) \in Frame /\ Tail(q) \in Seq(Frame)
  OBVIOUS
<1>. PICK h \in Frame : h = Head(q)
  BY <1>0
<1>. PICK t \in Seq(Frame) : t = Tail(q)
  BY <1>0
<1>1. q = <<h>> \o t /\ <<h>> \in Seq(Frame)
  OBVIOUS
<1>2. Append(w, h) = w \o <<h>> /\ Append(w, h) \in Seq(Frame)
  BY AppendIsConcat
<1>3. (w \o <<h>>) \o t = w \o (<<h>> \o t)
  BY <1>1, ConcatAssociative
<1>. QED  BY <1>1, <1>2, <1>3

LEMMA WaySent ==
  ASSUME NEW fd \in Seq(Frame), NEW w \in Seq(Frame), NEW q \in Seq(Frame), q # <<>>
  PROVE  Way(fd, Append(w, Head(q)), Tail(q)) = Way(fd, w, q)
BY Handed DEF Way

LEMMA FramesAssociate ==
  ASSUME NEW a \in Seq(Frame), NEW b \in Seq(Frame), NEW c \in Seq(Frame)
  PROVE  (a \o b) \o c = a \o (b \o c)
BY ConcatAssociative

LEMMA WayRelayed ==
  ASSUME NEW fd \in Seq(Frame), NEW w \in Seq(Frame), NEW q \in Seq(Frame), w # <<>>
  PROVE  Way(Append(fd, Head(w)), Tail(w), q) = Way(fd, w, q)
<1>1. /\ Append(fd, Head(w)) \in Seq(Frame) /\ Tail(w) \in Seq(Frame)
      /\ Append(fd, Head(w)) \o Tail(w) = fd \o w
  BY Handed
<1>2. (fd \o w) \o q = fd \o (w \o q)
  BY FramesAssociate
<1>3. \A a, b \in Seq(Frame) : (a \o b) \o q = a \o (b \o q)
  BY FramesAssociate
<1>. QED  BY <1>1, <1>2, <1>3 DEF Way

LEMMA WayEnded ==
  ASSUME NEW fd \in Seq(Frame), NEW w \in Seq(Frame)
  PROVE  Way(fd, Append(w, Bye), <<>>) = Append(Way(fd, w, <<>>), Bye)
<1>1. Append(w, Bye) \in Seq(Frame) /\ <<>> \in Seq(Frame)
  BY FramesAre, AppendProperties
<1>2. Append(w, Bye) \o <<>> = Append(w, Bye) /\ w \o <<>> = w
  BY <1>1, ConcatEmptySeq
<1>3. Way(fd, w, Append(<<>>, Bye)) = Append(Way(fd, w, <<>>), Bye)
  <2>1. \A e \in Seq(Frame) : Way(fd, w, Append(e, Bye)) = Append(Way(fd, w, e), Bye)
    BY FramesAre, WayQueued
  <2>. QED  BY <1>1, <2>1
<1>4. w \o Append(<<>>, Bye) = Append(w, Bye)
  BY FramesAre, AppendIsConcat
<1>. QED  BY <1>2, <1>3, <1>4 DEF Way

LEMMA NoneAbove ==
  ASSUME NEW n \in Nat, NEW i \in 1 .. n
  PROVE  \A j \in 1 .. i - 1 : j \in 1 .. n
OBVIOUS

\* What has been broadcast is a chain of its own.
LEMMA ChainPrefix ==
  ASSUME NEW fd \in Seq(Frame), NEW w \in Seq(Frame), NEW q \in Seq(Frame), NEW total, NEW most,
         Chained(Way(fd, w, q), total, most), w # <<>>, Head(w) # Bye
  PROVE  /\ Chained(fd, total, most) /\ ~HasBye(fd)
         /\ Chained(Append(fd, Head(w)), total, most) /\ ~HasBye(Append(fd, Head(w)))
<1>. PICK L : L = Way(fd, w, q)
  OBVIOUS
<1>. PICK a : a = Append(fd, Head(w))
  OBVIOUS
<1>. PICK n \in Nat : n = Len(fd)
  OBVIOUS
<1>1. /\ Len(L) >= n + 1 /\ Len(L) \in Nat /\ \A i \in 1 .. n : L[i] = fd[i]
      /\ L[n + 1] = Head(w) /\ Head(w) \in Frame
  <2>1. Head(w) = w[1] /\ Head(w) \in Frame /\ Len(w) \in Nat /\ Len(w) >= 1 /\ Len(q) \in Nat
    OBVIOUS
  <2>2. /\ Len(L) = n + Len(w) + Len(q) /\ \A i \in 1 .. n : L[i] = fd[i]
        /\ \A i \in 1 .. Len(w) : L[n + i] = w[i]
    <3>1. /\ Len(Way(fd, w, q)) = Len(fd) + Len(w) + Len(q)
          /\ \A i \in 1 .. Len(fd) : Way(fd, w, q)[i] = fd[i]
          /\ \A i \in 1 .. Len(w) : Way(fd, w, q)[Len(fd) + i] = w[i]
      BY WayType
    <3>. QED  BY <3>1
  <2>3. 1 \in 1 .. Len(w)
    BY <2>1
  <2>. QED  BY <2>1, <2>2, <2>3
<1>2. Len(a) = n + 1 /\ a[n + 1] = Head(w) /\ \A i \in 1 .. n : a[i] = fd[i]
  BY <1>1, Appended
<1>3. \A i \in 1 .. n + 1 : i \in 1 .. n \/ i = n + 1
  OBVIOUS
<1>4. \A i \in 1 .. n + 1 : a[i] = L[i] /\ i \in 1 .. Len(L)
  BY <1>1, <1>2, <1>3
<1>5. \A i \in 1 .. n + 1 : a[i].kind # "bye"
  <2>. SUFFICES ASSUME NEW i \in 1 .. n + 1, a[i].kind = "bye" PROVE FALSE
    OBVIOUS
  <2>1. L[i] = Bye /\ i = Len(L)
    BY <1>4 DEF Chained, Follows
  <2>2. i = n + 1
    BY <1>1, <2>1
  <2>. QED  BY <1>1, <2>1, <2>2
<1>6. \A i \in 1 .. n + 1 : Follows(a, i, total, most)
  <2>. TAKE i \in 1 .. n + 1
  <2>1. Follows(L, i, total, most) /\ a[i] = L[i] /\ a[i].kind # "bye"
    BY <1>4, <1>5 DEF Chained
  <2>2. CASE i = 1
    BY <2>1, <2>2 DEF Follows
  <2>3. CASE i # 1
    <3>1. i - 1 \in 1 .. n + 1 /\ a[i - 1] = L[i - 1]
      <4>1. i - 1 \in 1 .. n + 1
        BY <2>3
      <4>. QED  BY <1>4, <4>1
    <3>2. \A j \in 1 .. i - 1 : j \in 1 .. n + 1
      BY NoneAbove, n + 1 \in Nat
    <3>3. \A j \in 1 .. i - 1 : a[j] = L[j]
      BY <1>4, <3>2
    <3>. QED  BY <2>1, <3>1, <3>3 DEF Follows
  <2>. QED  BY <2>2, <2>3
<1>7. \A i \in 1 .. n : /\ fd[i] = a[i] /\ i \in 1 .. n + 1
                        /\ i # 1 => fd[i - 1] = a[i - 1]
                        /\ \A j \in 1 .. i - 1 : fd[j] = a[j]
  BY <1>2
<1>8. \A i \in 1 .. n : Follows(fd, i, total, most) /\ fd[i].kind # "bye"
  <2>. TAKE i \in 1 .. n
  <2>1. Follows(a, i, total, most) /\ fd[i] = a[i] /\ fd[i].kind # "bye"
    BY <1>5, <1>6, <1>7
  <2>2. CASE i = 1
    BY <2>1, <2>2 DEF Follows
  <2>3. CASE i # 1
    <3>1. fd[i - 1] = a[i - 1] /\ \A j \in 1 .. i - 1 : fd[j] = a[j]
      BY <1>7, <2>3
    <3>. QED  BY <2>1, <3>1 DEF Follows
  <2>. QED  BY <2>2, <2>3
<1>. QED  BY <1>2, <1>5, <1>6, <1>8 DEF Chained, HasBye

-----------------------------------------------------------------------------
(* The sender's side of a file.                                            *)

PushTypes ==
  /\ size \in [Files -> 0 .. MaxUnits] /\ real \in [Files -> 0 .. MaxUnits]
  /\ pump \in [Files -> {"connect", "wait", "meta", "data", "stop", "ok", "failed"}]
  /\ sent \in [Files -> 0 .. MaxUnits]
  /\ queue \in [Files -> Seq(Frame)] /\ wire \in [Files -> Seq(Frame)]
  /\ client \in [Files -> {"idle", "run", "drain", "done"}]
  /\ broken \subseteq Files
  /\ stream \in [Files -> {"none", "live", "gone"}]
  /\ feed \in [Files -> Seq(Frame)]

Line(f)  == Way(feed[f], wire[f], queue[f])
Early(f) == pump[f] \in {"connect", "wait", "meta"}

\* The stream is there, and nothing has been lost.
Sound(f) == f \notin broken /\ stream[f] # "gone"

\* What the pump has counted is what the last frame reaches to, the end of the
\* file is on its way when the pump is through, and Bye comes from the client.
Pumped(f) ==
  /\ Chained(Line(f), size[f], real[f])
  /\ Early(f) => Line(f) = <<>> /\ client[f] \in {"idle", "run"}
  /\ pump[f] = "data" =>
       client[f] = "run" /\ Line(f) # <<>> /\ Reach(Line(f)) = sent[f]
  /\ pump[f] \in {"stop", "ok"} => HasEnd(Line(f))
  /\ HasBye(Line(f)) => client[f] = "done"

Counted(f) ==
  /\ sent[f] <= real[f]
  /\ Early(f) => sent[f] = 0
  /\ pump[f] = "data" /\ size[f] = 0 => sent[f] = 0
  /\ client[f] = "idle" => pump[f] = "connect" /\ stream[f] = "none"
  /\ client[f] = "drain" => pump[f] \in {"stop", "failed"}
  /\ f \in broken => stream[f] = "gone"

\* A stream that ended with Bye has had the end of the file, or its pump failed.
Ended(f) ==
  stream[f] = "gone" /\ f \notin broken =>
    \/ pump[f] = "failed"
    \/ pump[f] \in {"stop", "ok"} /\ HasEnd(feed[f])

SenderOK(f) ==
  /\ Counted(f)
  /\ Chained(feed[f], size[f], real[f]) /\ ~HasBye(feed[f])
  /\ Sound(f) => Pumped(f)
  /\ Ended(f)

SenderInv == PushTypes /\ \A f \in Files : SenderOK(f)

Same(g) ==
  /\ size'[g] = size[g] /\ real'[g] = real[g] /\ pump'[g] = pump[g] /\ sent'[g] = sent[g]
  /\ queue'[g] = queue[g] /\ client'[g] = client[g] /\ wire'[g] = wire[g]
  /\ stream'[g] = stream[g] /\ feed'[g] = feed[g]
  /\ g \in broken' <=> g \in broken

LEMMA SenderKept ==
  ASSUME NEW g \in Files, SenderOK(g), Same(g)
  PROVE  SenderOK(g)'
<1>1. Line(g)' = Line(g)
  BY DEF Line, Same
<1>2. (Early(g)' <=> Early(g)) /\ (Sound(g)' <=> Sound(g))
  BY DEF Early, Sound, Same
<1>3. Counted(g)'
  BY <1>2 DEF SenderOK, Counted, Same
<1>4. Sound(g)' => Pumped(g)'
  BY <1>1, <1>2 DEF SenderOK, Pumped, Same
<1>5. Ended(g)'
  BY DEF SenderOK, Ended, Same
<1>6. Chained(feed'[g], size'[g], real'[g]) /\ ~HasBye(feed'[g])
  BY DEF SenderOK, Same
<1>. QED  BY <1>3, <1>4, <1>5, <1>6 DEF SenderOK

\* A step of one file leaves the others alone.
LEMMA OneFile ==
  ASSUME SenderInv, NEW f \in Files, PushTypes', \A g \in Files \ {f} : Same(g), SenderOK(f)'
  PROVE  SenderInv'
BY SenderKept DEF SenderInv

LEMMA FileTypes ==
  ASSUME PushTypes, NEW f \in Files
  PROVE  /\ feed[f] \in Seq(Frame) /\ wire[f] \in Seq(Frame) /\ queue[f] \in Seq(Frame)
         /\ Line(f) \in Seq(Frame)
         /\ sent[f] \in 0 .. MaxUnits /\ real[f] \in 0 .. MaxUnits /\ size[f] \in 0 .. MaxUnits
BY WayType DEF PushTypes, Line

LEMMA ConnectStep ==
  ASSUME SenderInv, NEW f \in Files, Connect(f)
  PROVE  SenderInv'
<1>1. PushTypes' /\ \A g \in Files \ {f} : Same(g)
  BY DEF SenderInv, PushTypes, Connect, relayVars, Same
<1>2. client'[f] = "run" /\ client[f] = "idle"
  BY DEF Connect, SenderInv, PushTypes
<1>3. UNCHANGED <<Line(f), Early(f), Sound(f), pump[f]>>
  BY DEF Connect, relayVars, Line, Early, Sound
<1>4. SenderOK(f)'
  BY <1>2, <1>3 DEF Connect, relayVars, SenderInv, SenderOK, Pumped, Counted, Ended
<1>. QED  BY <1>1, <1>4, OneFile

\* The pump goes on to a place where it has sent nothing.
LEMMA EarlyStep ==
  ASSUME SenderInv, NEW f \in Files, Connected(f) \/ WaitEnds(f)
  PROVE  SenderInv'
<1>0. Early(f) /\ \E pc \in {"wait", "meta", "failed"} : pump' = [pump EXCEPT ![f] = pc]
  BY DEF Early, Connected, WaitEnds, PumpGoto
<1>1. UNCHANGED <<size, real, sent, queue, client, wire, broken, stream, feed>>
  BY DEF Connected, WaitEnds, relayVars
<1>2. PushTypes' /\ \A g \in Files \ {f} : Same(g)
  BY <1>0, <1>1 DEF SenderInv, PushTypes, Same
<1>3. pump'[f] \in {"wait", "meta", "failed"}
  BY <1>0 DEF SenderInv, PushTypes
<1>4. UNCHANGED <<Line(f), Sound(f)>>
  BY <1>1 DEF Line, Sound
<1>5. stream[f] = "gone" => f \in broken
  BY <1>0 DEF Early, SenderInv, SenderOK, Ended
<1>6. client[f] # "idle" /\ client[f] # "drain"
  BY <1>0 DEF Early, SenderInv, SenderOK, Counted, Connected, WaitEnds, WatcherSeen
<1>7. Counted(f)'
  BY <1>0, <1>1, <1>3, <1>6 DEF Early, Counted, SenderInv, SenderOK
<1>8. Sound(f)' => Pumped(f)'
  BY <1>0, <1>1, <1>3, <1>4 DEF Early, Pumped, SenderInv, SenderOK
<1>9. Ended(f)' /\ Chained(feed'[f], size'[f], real'[f]) /\ ~HasBye(feed'[f])
  BY <1>1, <1>5 DEF Ended, SenderInv, SenderOK
<1>10. SenderOK(f)'
  BY <1>7, <1>8, <1>9 DEF SenderOK
<1>. QED  BY <1>2, <1>10, OneFile

\* The frames that push_file makes, and where it goes on.
Makes(f, x, pc) ==
  \/ pump[f] = "meta" /\ x = Meta /\ pc = "data"
  \/ /\ pump[f] = "data" /\ x.kind = "data"
     /\ x.at = sent[f] /\ sent[f] + x.units <= real[f]
     /\ x.end => x.at + x.units = size[f]
     /\ \/ pc = "stop" /\ x.end
        \/ pc = "data" /\ size[f] # 0

LEMMA EnqueueStep ==
  ASSUME SenderInv, NEW f \in Files, NEW x \in Frame, NEW pc, Makes(f, x, pc),
         Enqueue(f, x, pc),
         UNCHANGED <<size, real, client, wire, broken, relayVars>>
  PROVE  SenderInv'
<1>0. UNCHANGED <<size, real, client, wire, broken, stream, feed>>
  BY DEF relayVars
<1>1. /\ SenderOK(f) /\ PushTypes
      /\ pump[f] \in {"meta", "data"} /\ pc \in {"data", "stop"}
  BY DEF SenderInv, Makes
<1>2. CASE client[f] = "done"
  <2>1. pump' = [pump EXCEPT ![f] = "failed"] /\ queue' = queue /\ sent' = sent
    BY <1>2 DEF Enqueue, PumpGoto
  <2>2. PushTypes' /\ (\A g \in Files \ {f} : Same(g)) /\ pump'[f] = "failed"
    BY <1>0, <1>1, <2>1 DEF PushTypes, Same
  <2>3. UNCHANGED <<Line(f), Sound(f)>>
    BY <1>0, <2>1 DEF Line, Sound
  <2>4. Counted(f)'
    BY <1>0, <1>1, <1>2, <2>1, <2>2 DEF Counted, Early, SenderOK
  <2>5. Sound(f)' => Pumped(f)'
    BY <1>0, <1>1, <2>2, <2>3 DEF Pumped, Early, SenderOK
  <2>6. SenderOK(f)'
    BY <1>0, <1>1, <2>2, <2>4, <2>5 DEF SenderOK, Ended
  <2>. QED  BY <2>2, <2>6, OneFile
<1>3. CASE client[f] # "done"
  <2>1. /\ queue' = [queue EXCEPT ![f] = Append(queue[f], x)]
        /\ sent' = [sent EXCEPT ![f] = sent[f] + x.units]
        /\ pump' = [pump EXCEPT ![f] = pc]
    BY <1>3 DEF Enqueue, PumpGoto
  <2>2. /\ sent[f] \in 0 .. MaxUnits /\ real[f] \in 0 .. MaxUnits /\ size[f] \in 0 .. MaxUnits
        /\ x.units \in 0 .. Chunk /\ x.at \in 0 .. MaxUnits /\ Chunk \in Nat /\ MaxUnits \in Nat
    BY <1>1, FileTypes, FrameFields, ConstantsAssumption
  <2>3. sent[f] + x.units <= real[f] /\ x.at = sent[f]
    BY <1>1, <2>2, FramesAre DEF Makes, SenderOK, Counted, Early
  <2>4. sent[f] + x.units \in 0 .. MaxUnits
    BY <2>2, <2>3
  <2>5. Append(queue[f], x) \in Seq(Frame)
    BY <1>1, FileTypes, Appended
  <2>6. PushTypes'
    BY <1>0, <1>1, <2>1, <2>4, <2>5 DEF PushTypes
  <2>7. \A g \in Files \ {f} : Same(g)
    BY <1>0, <1>1, <2>1 DEF PushTypes, Same
  <2>8. pump'[f] = pc /\ sent'[f] = sent[f] + x.units /\ queue'[f] = Append(queue[f], x)
    BY <1>1, <2>1 DEF PushTypes
  <2>9. Line(f)' = Append(Line(f), x) /\ (Sound(f)' <=> Sound(f))
    <3>1. Line(f)' = Way(feed[f], wire[f], Append(queue[f], x))
      BY <1>0, <2>8 DEF Line
    <3>2. /\ feed[f] \in Seq(Frame) /\ wire[f] \in Seq(Frame) /\ queue[f] \in Seq(Frame)
      BY <1>1, FileTypes
    <3>3. Line(f)' = Append(Way(feed[f], wire[f], queue[f]), x)
      BY <3>1, <3>2, WayQueued
    <3>. QED  BY <1>0, <3>3 DEF Line, Sound
  <2>10. Counted(f)'
    <3>1. x.end \/ size[f] # 0 \/ x.units = 0
      BY <1>1, FramesAre DEF Makes
    <3>2. pc = "data" /\ size[f] = 0 => sent[f] = 0 /\ x.units = 0
      BY <1>1, FramesAre DEF Makes, SenderOK, Counted, Early
    <3>. QED  BY <1>0, <1>1, <2>2, <2>3, <2>8, <3>2 DEF Counted, SenderOK, Early
  <2>11. ASSUME Sound(f) PROVE Pumped(f)'
    <3>. PICK L : L = Line(f)
      OBVIOUS
    <3>1. /\ L \in Seq(Frame) /\ Chained(L, size[f], real[f]) /\ ~HasBye(L)
          /\ client[f] = "run" /\ x # Bye
      <4>1. x # Bye
        BY FramesAre DEF Makes
      <4>2. client[f] \in {"idle", "run"} /\ Pumped(f)
        BY <1>1, <2>11 DEF SenderOK, Pumped, Early
      <4>3. client[f] # "idle"
        BY <1>1 DEF SenderOK, Counted
      <4>. QED  BY <1>1, <1>3, <4>1, <4>2, <4>3, FileTypes DEF Pumped
    <3>2. \/ x = Meta /\ L = <<>> /\ sent[f] = 0 /\ pc = "data"
          \/ /\ x.kind = "data" /\ L # <<>> /\ x.at = Reach(L)
             /\ x.at + x.units <= real[f] /\ (x.end => x.at + x.units = size[f])
             /\ pc = "stop" => x.end
      <4>1. Pumped(f)
        BY <1>1, <2>11 DEF SenderOK
      <4>2. CASE pump[f] = "meta" /\ x = Meta /\ pc = "data"
        BY <1>1, <4>1, <4>2 DEF Pumped, SenderOK, Counted, Early
      <4>3. CASE pump[f] = "data" /\ x.kind = "data"
        BY <1>1, <2>2, <2>3, <4>1, <4>3, FramesAre DEF Pumped, Makes
      <4>. QED  BY <4>2, <4>3 DEF Makes
    <3>3. /\ Chained(Append(L, x), size[f], real[f])
          /\ HasEnd(Append(L, x)) <=> HasEnd(L) \/ x.end
          /\ HasBye(Append(L, x)) <=> x = Bye
          /\ Reach(Append(L, x)) = x.at + x.units
          /\ Append(L, x) # <<>>
      BY <3>1, <3>2, ChainAppend, Appended
    <3>4. pc = "stop" => x.end
      BY <3>2
    <3>. QED  BY <1>0, <1>1, <2>3, <2>8, <2>9, <3>1, <3>3, <3>4 DEF Pumped, Early
  <2>12. Ended(f)' /\ Chained(feed'[f], size'[f], real'[f]) /\ ~HasBye(feed'[f])
    BY <1>0, <1>1 DEF SenderOK, Ended, Makes
  <2>13. SenderOK(f)'
    BY <2>9, <2>10, <2>11, <2>12 DEF SenderOK
  <2>. QED  BY <2>6, <2>7, <2>13, OneFile
<1>. QED  BY <1>2, <1>3

LEMMA PumpStep ==
  ASSUME SenderInv, NEW f \in Files, PumpMeta(f) \/ PumpData(f) \/ PumpStopped(f)
  PROVE  SenderInv'
<1>0. PushTypes /\ SenderOK(f)
  BY DEF SenderInv
<1>1. CASE PumpMeta(f)
  <2>1. Makes(f, Meta, "data")
    BY <1>1 DEF PumpMeta, Makes
  <2>. QED  BY <1>1, <2>1, FramesAre, EnqueueStep DEF PumpMeta
\* A step that only moves the pump, to a place where it sends nothing any more.
<1>2. ASSUME NEW pc \in {"ok", "failed"}, pump' = [pump EXCEPT ![f] = pc],
             pc = "ok" => pump[f] = "stop" /\ client[f] = "done",
             pc = "failed" => pump[f] = "data",
             UNCHANGED <<size, real, sent, queue, client, wire, broken, stream, feed>>
      PROVE  SenderInv'
  <2>1. PushTypes' /\ (\A g \in Files \ {f} : Same(g)) /\ pump'[f] = pc
    BY <1>0, <1>2 DEF PushTypes, Same
  <2>2. UNCHANGED <<Line(f), Sound(f)>>
    BY <1>2 DEF Line, Sound
  <2>3. Counted(f)'
    BY <1>0, <1>2, <2>1 DEF Counted, Early, SenderOK
  <2>4. Sound(f)' => Pumped(f)'
    BY <1>0, <1>2, <2>1, <2>2 DEF Pumped, Early, SenderOK
  <2>5. Ended(f)' /\ Chained(feed'[f], size'[f], real'[f]) /\ ~HasBye(feed'[f])
    BY <1>0, <1>2, <2>1 DEF Ended, SenderOK
  <2>6. SenderOK(f)'
    BY <2>3, <2>4, <2>5 DEF SenderOK
  <2>. QED  BY <2>1, <2>6, OneFile
<1>3. CASE PumpData(f)
  <2>1. UNCHANGED <<size, real, client, wire, broken, relayVars>> /\ pump[f] = "data"
    BY <1>3 DEF PumpData
  <2>2. /\ sent[f] \in 0 .. MaxUnits /\ real[f] \in 0 .. MaxUnits /\ size[f] \in 0 .. MaxUnits
        /\ MaxUnits \in Nat /\ Chunk \in Nat
    BY <1>0, FileTypes, ConstantsAssumption
  <2>3. CASE size[f] = 0 /\ Enqueue(f, Data(0, 0, TRUE), "stop")
    <3>0. 0 \in 0 .. MaxUnits /\ 0 \in 0 .. Chunk
      BY <2>2
    <3>1. PICK x : x = Data(0, 0, TRUE)
      OBVIOUS
    <3>2. x \in Frame /\ x.kind = "data" /\ x.at = 0 /\ x.units = 0 /\ x.end
      BY <3>0, <3>1, DataIs
    <3>3. sent[f] = 0 /\ size[f] = 0
      BY <1>0, <2>1, <2>3 DEF SenderOK, Counted
    <3>4. sent[f] + x.units <= real[f] /\ x.at + x.units = size[f]
      BY <2>2, <3>2, <3>3
    <3>5. Makes(f, x, "stop")
      BY <2>1, <3>2, <3>3, <3>4 DEF Makes
    <3>6. Enqueue(f, x, "stop")
      BY <2>3, <3>1
    <3>. QED  BY <2>1, <3>2, <3>5, <3>6, EnqueueStep
  <2>4. ASSUME size[f] # 0, NEW n \in 1 .. Chunk, sent[f] + n <= real[f],
               Enqueue(f, Data(sent[f], n, IsLast(f, n)), IF IsLast(f, n) THEN "stop" ELSE "data")
        PROVE  SenderInv'
    <3>0. IsLast(f, n) \in BOOLEAN /\ (IsLast(f, n) => sent[f] + n = size[f])
      BY DEF IsLast
    <3>. PICK x : x = Data(sent[f], n, IsLast(f, n))
      OBVIOUS
    <3>1. /\ x \in Frame /\ x.kind = "data" /\ x.at = sent[f] /\ x.units = n
          /\ x.end = IsLast(f, n)
      BY <2>2, <3>0, DataIs
    <3>2. CASE IsLast(f, n)
      <4>1. Makes(f, x, "stop")
        BY <2>1, <2>4, <3>0, <3>1, <3>2 DEF Makes
      <4>2. Enqueue(f, x, "stop")
        BY <2>4, <3>2
      <4>. QED  BY <2>1, <3>1, <4>1, <4>2, EnqueueStep
    <3>3. CASE ~IsLast(f, n)
      <4>1. Makes(f, x, "data")
        BY <2>1, <2>4, <3>1, <3>3 DEF Makes
      <4>2. Enqueue(f, x, "data")
        BY <2>4, <3>3
      <4>. QED  BY <2>1, <3>1, <4>1, <4>2, EnqueueStep
    <3>. QED  BY <3>2, <3>3
  <2>5. CASE PumpGoto(f, "failed") /\ UNCHANGED <<queue, sent>>
    BY <1>2, <2>1, <2>5 DEF PumpGoto, relayVars
  <2>. QED  BY <1>3, <2>3, <2>4, <2>5 DEF PumpData
<1>4. CASE PumpStopped(f)
  BY <1>2, <1>4 DEF PumpStopped, PumpGoto, relayVars
<1>. QED  BY <1>1, <1>3, <1>4

\* The client takes what is queued, and says Bye behind it.
LEMMA ClientSendStep ==
  ASSUME SenderInv, NEW f \in Files, ClientSend(f)
  PROVE  SenderInv'
<1>0. PushTypes /\ SenderOK(f)
  BY DEF SenderInv
<1>1. UNCHANGED <<size, real, pump, sent, broken, stream, feed>>
  BY DEF ClientSend, relayVars
<1>. PICK q \in Seq(Frame) : q = queue[f]
  BY <1>0, FileTypes
<1>. PICK w \in Seq(Frame) : w = wire[f]
  BY <1>0, FileTypes
<1>2. q # <<>> /\ queue' = [queue EXCEPT ![f] = Tail(q)] /\ client[f] \in {"run", "drain"}
  BY DEF ClientSend
<1>3. Tail(q) \in Seq(Frame) /\ Append(w, Head(q)) \in Seq(Frame)
  BY <1>2, Handed
<1>4. CASE f \in broken
  <2>1. client' = [client EXCEPT ![f] = "done"] /\ wire' = wire
    BY <1>4 DEF ClientSend
  <2>2. PushTypes' /\ (\A g \in Files \ {f} : Same(g)) /\ client'[f] = "done"
    BY <1>0, <1>1, <1>2, <1>3, <2>1 DEF PushTypes, Same
  <2>3. SenderOK(f)'
    BY <1>0, <1>1, <1>4, <2>2 DEF SenderOK, Counted, Early, Sound, Ended
  <2>. QED  BY <2>2, <2>3, OneFile
<1>5. CASE f \notin broken
  <2>1. wire' = [wire EXCEPT ![f] = Append(w, Head(q))] /\ client' = client
    BY <1>5 DEF ClientSend
  <2>2. PushTypes'
    BY <1>0, <1>1, <1>2, <1>3, <2>1 DEF PushTypes
  <2>3. \A g \in Files \ {f} : Same(g)
    BY <1>0, <1>1, <1>2, <2>1 DEF PushTypes, Same
  <2>4. wire'[f] = Append(w, Head(q)) /\ queue'[f] = Tail(q)
    BY <1>0, <1>2, <2>1 DEF PushTypes
  <2>5. Line(f)' = Line(f) /\ (Sound(f)' <=> Sound(f)) /\ (Early(f)' <=> Early(f))
    <3>1. feed[f] \in Seq(Frame)
      BY <1>0, FileTypes
    <3>2. Way(feed[f], Append(w, Head(q)), Tail(q)) = Way(feed[f], w, q)
      BY <1>2, <3>1, WaySent
    <3>. QED  BY <1>1, <2>4, <3>2 DEF Line, Sound, Early
  <2>6. SenderOK(f)'
    BY <1>0, <1>1, <2>1, <2>5 DEF SenderOK, Counted, Pumped, Ended
  <2>. QED  BY <2>2, <2>3, <2>6, OneFile
<1>. QED  BY <1>4, <1>5

LEMMA ClientEndStep ==
  ASSUME SenderInv, NEW f \in Files, ClientShutdown(f) \/ ClientLost(f)
  PROVE  SenderInv'
<1>0. PushTypes /\ SenderOK(f)
  BY DEF SenderInv
<1>1. UNCHANGED <<size, real, pump, sent, queue, wire, broken, stream, feed>>
  BY DEF ClientShutdown, ClientLost, relayVars
<1>2. UNCHANGED <<Line(f), Sound(f), Early(f)>>
  BY <1>1 DEF Line, Sound, Early
<1>3. CASE ClientShutdown(f)
  <2>1. /\ client' = [client EXCEPT ![f] = "drain"] /\ client[f] = "run"
        /\ pump[f] \in {"stop", "failed"}
    BY <1>3 DEF ClientShutdown, Ending
  <2>2. PushTypes' /\ (\A g \in Files \ {f} : Same(g)) /\ client'[f] = "drain"
    BY <1>0, <1>1, <2>1 DEF PushTypes, Same
  <2>3. SenderOK(f)'
    BY <1>0, <1>1, <1>2, <2>1, <2>2 DEF SenderOK, Counted, Pumped, Ended, Early
  <2>. QED  BY <2>2, <2>3, OneFile
<1>4. CASE ClientLost(f)
  <2>1. client' = [client EXCEPT ![f] = "done"] /\ f \in broken
    BY <1>4 DEF ClientLost
  <2>2. PushTypes' /\ (\A g \in Files \ {f} : Same(g)) /\ client'[f] = "done"
    BY <1>0, <1>1, <2>1 DEF PushTypes, Same
  <2>3. SenderOK(f)'
    BY <1>0, <1>1, <1>2, <2>1, <2>2 DEF SenderOK, Counted, Sound, Ended
  <2>. QED  BY <2>2, <2>3, OneFile
<1>. QED  BY <1>3, <1>4

LEMMA ClientByeStep ==
  ASSUME SenderInv, NEW f \in Files, ClientBye(f)
  PROVE  SenderInv'
<1>0. PushTypes /\ SenderOK(f)
  BY DEF SenderInv
<1>1. UNCHANGED <<size, real, pump, sent, queue, broken, stream, feed>>
  BY DEF ClientBye, relayVars
<1>2. /\ queue[f] = <<>> /\ pump[f] \in {"stop", "failed"} /\ client[f] # "done"
      /\ client' = [client EXCEPT ![f] = "done"]
  BY <1>0 DEF ClientBye, Ending, SenderOK, Counted
<1>3. CASE f \in broken
  <2>1. wire' = wire
    BY <1>3 DEF ClientBye
  <2>2. PushTypes' /\ (\A g \in Files \ {f} : Same(g)) /\ client'[f] = "done"
    BY <1>0, <1>1, <1>2, <2>1 DEF PushTypes, Same
  <2>3. SenderOK(f)'
    BY <1>0, <1>1, <1>3, <2>2 DEF SenderOK, Counted, Early, Sound, Ended
  <2>. QED  BY <2>2, <2>3, OneFile
<1>4. CASE f \notin broken
  <2>1. wire' = [wire EXCEPT ![f] = Append(wire[f], Bye)]
    BY <1>4 DEF ClientBye
  <2>2. wire[f] \in Seq(Frame) /\ feed[f] \in Seq(Frame) /\ Append(wire[f], Bye) \in Seq(Frame)
    BY <1>0, FileTypes, FramesAre, Appended
  <2>3. PushTypes'
    BY <1>0, <1>1, <1>2, <2>1, <2>2 DEF PushTypes
  <2>4. \A g \in Files \ {f} : Same(g)
    BY <1>0, <1>1, <1>2, <2>1 DEF PushTypes, Same
  <2>5. client'[f] = "done" /\ wire'[f] = Append(wire[f], Bye)
    BY <1>0, <1>2, <2>1 DEF PushTypes
  <2>6. Line(f)' = Append(Line(f), Bye)
    <3>1. Way(feed[f], Append(wire[f], Bye), <<>>) = Append(Way(feed[f], wire[f], <<>>), Bye)
      BY <2>2, WayEnded
    <3>. QED  BY <1>1, <1>2, <2>5, <3>1 DEF Line
  <2>7. ASSUME Sound(f) PROVE Pumped(f)'
    <3>. PICK L : L = Line(f)
      OBVIOUS
    <3>1. L \in Seq(Frame) /\ Chained(L, size[f], real[f]) /\ ~HasBye(L)
      BY <1>0, <1>2, <2>7, FileTypes DEF SenderOK, Pumped
    <3>2. /\ Chained(Append(L, Bye), size[f], real[f])
          /\ HasEnd(Append(L, Bye)) <=> HasEnd(L) \/ Bye.end
      BY <3>1, ChainAppend, FramesAre
    <3>. QED  BY <1>0, <1>1, <1>2, <2>5, <2>6, <2>7, <3>2 DEF Pumped, Early, SenderOK
  <2>8. Counted(f)' /\ Ended(f)' /\ (Sound(f)' <=> Sound(f))
    BY <1>0, <1>1, <2>5 DEF SenderOK, Counted, Early, Sound, Ended
  <2>9. SenderOK(f)'
    BY <1>0, <1>1, <2>7, <2>8 DEF SenderOK
  <2>. QED  BY <2>3, <2>4, <2>9, OneFile
<1>. QED  BY <1>3, <1>4

-----------------------------------------------------------------------------
(* The relay's side of the line.                                           *)

LEMMA RegisterStep ==
  ASSUME SenderInv, NEW f \in Files, Register(f)
  PROVE  SenderInv'
<1>0. PushTypes /\ SenderOK(f)
  BY DEF SenderInv
<1>1. UNCHANGED <<size, real, pump, sent, queue, client, wire, broken, feed>>
  BY DEF Register, pushVars
<1>2. /\ client[f] = "run" /\ stream[f] = "none" /\ f \notin broken
      /\ stream' = [stream EXCEPT ![f] = "live"]
  BY DEF Register
<1>3. PushTypes' /\ (\A g \in Files \ {f} : Same(g)) /\ stream'[f] = "live"
  BY <1>0, <1>1, <1>2 DEF PushTypes, Same
<1>4. UNCHANGED <<Line(f), Early(f)>> /\ Sound(f) /\ Sound(f)'
  BY <1>1, <1>2, <1>3 DEF Line, Early, Sound
<1>5. SenderOK(f)'
  BY <1>0, <1>1, <1>2, <1>3, <1>4 DEF SenderOK, Counted, Pumped, Ended
<1>. QED  BY <1>3, <1>5, OneFile

LEMMA BreakStep ==
  ASSUME SenderInv, NEW f \in Files, Break(f)
  PROVE  SenderInv'
<1>0. PushTypes /\ SenderOK(f)
  BY DEF SenderInv
<1>1. UNCHANGED <<size, real, pump, sent, queue, client, feed>>
  BY DEF Break
<1>2. /\ client[f] # "idle" /\ broken' = broken \cup {f}
      /\ wire' = [wire EXCEPT ![f] = <<>>] /\ stream' = [stream EXCEPT ![f] = "gone"]
  BY DEF Break
<1>3. PushTypes' /\ (\A g \in Files \ {f} : Same(g)) /\ stream'[f] = "gone" /\ f \in broken'
  BY <1>0, <1>1, <1>2 DEF PushTypes, Same
<1>4. SenderOK(f)'
  BY <1>0, <1>1, <1>2, <1>3 DEF SenderOK, Counted, Early, Sound, Ended
<1>. QED  BY <1>3, <1>4, OneFile

\* Bye is the last frame of its line, so the end of the file has come before it.
LEMMA ByeIsLast ==
  ASSUME NEW fd \in Seq(Frame), NEW w \in Seq(Frame), NEW q \in Seq(Frame), NEW total, NEW most,
         Chained(Way(fd, w, q), total, most), w # <<>>, Head(w) = Bye
  PROVE  /\ HasBye(Way(fd, w, q))
         /\ HasEnd(Way(fd, w, q)) => HasEnd(fd)
<1>. PICK L : L = Way(fd, w, q)
  OBVIOUS
<1>. PICK n \in Nat : n = Len(fd)
  OBVIOUS
<1>1. /\ Head(w) = w[1] /\ Len(w) \in Nat /\ 1 \in 1 .. Len(w) /\ Len(q) \in Nat
  OBVIOUS
<1>2. /\ Len(L) = n + Len(w) + Len(q) /\ \A i \in 1 .. n : L[i] = fd[i]
      /\ \A i \in 1 .. Len(w) : L[n + i] = w[i]
  <2>1. /\ Len(Way(fd, w, q)) = Len(fd) + Len(w) + Len(q)
        /\ \A i \in 1 .. Len(fd) : Way(fd, w, q)[i] = fd[i]
        /\ \A i \in 1 .. Len(w) : Way(fd, w, q)[Len(fd) + i] = w[i]
    BY WayType
  <2>. QED  BY <2>1
<1>3. n + 1 \in 1 .. Len(L) /\ L[n + 1] = Bye
  BY <1>1, <1>2
<1>4. Len(L) = n + 1
  BY <1>3, FramesAre DEF Chained, Follows
<1>5. HasEnd(L) => HasEnd(fd)
  <2>. SUFFICES ASSUME NEW i \in 1 .. Len(L), L[i].end PROVE HasEnd(fd)
    BY DEF HasEnd
  <2>1. i # n + 1
    BY <1>3, FramesAre
  <2>2. i \in 1 .. n /\ fd[i].end
    BY <1>2, <1>4, <2>1
  <2>. QED  BY <2>2 DEF HasEnd
<1>. QED  BY <1>3, <1>5, FramesAre DEF HasBye

LEMMA RelayedStep ==
  ASSUME SenderInv, NEW f \in Files, Relayed(f)
  PROVE  SenderInv'
<1>0. PushTypes /\ SenderOK(f)
  BY DEF SenderInv
<1>1. UNCHANGED <<size, real, pump, sent, queue, client, broken>>
  BY DEF Relayed
<1>. PICK w \in Seq(Frame) : w = wire[f]
  BY <1>0, FileTypes
<1>. PICK fd \in Seq(Frame) : fd = feed[f]
  BY <1>0, FileTypes
<1>. PICK q \in Seq(Frame) : q = queue[f]
  BY <1>0, FileTypes
<1>2. w # <<>> /\ wire' = [wire EXCEPT ![f] = Tail(w)] /\ stream[f] = "live"
  BY DEF Relayed
<1>3. /\ Tail(w) \in Seq(Frame) /\ Append(fd, Head(w)) \in Seq(Frame)
  BY <1>2, Handed
<1>4. Sound(f) /\ Chained(Way(fd, w, q), size[f], real[f]) /\ Line(f) = Way(fd, w, q) /\ Pumped(f)
  BY <1>0, <1>2 DEF Sound, SenderOK, Counted, Pumped, Line
<1>5. CASE Head(w) = Bye
  <2>1. stream' = [stream EXCEPT ![f] = "gone"] /\ feed' = feed
    BY <1>5 DEF Relayed
  <2>2. PushTypes'
    BY <1>0, <1>1, <1>2, <1>3, <2>1 DEF PushTypes
  <2>3. (\A g \in Files \ {f} : Same(g)) /\ stream'[f] = "gone"
    BY <1>0, <1>1, <1>2, <2>1 DEF PushTypes, Same
  <2>4. HasBye(Line(f)) /\ (HasEnd(Line(f)) => HasEnd(fd))
    BY <1>2, <1>4, <1>5, ByeIsLast
  <2>5. ~Early(f) /\ pump[f] # "data"
    BY <1>4, <2>4 DEF Pumped
  <2>6. pump[f] \in {"stop", "ok"} => HasEnd(feed[f])
    BY <1>4, <2>4 DEF Pumped
  <2>7. \/ pump[f] = "failed"
        \/ pump[f] \in {"stop", "ok"} /\ HasEnd(feed[f])
    <3>1. pump[f] \in {"connect", "wait", "meta", "data", "stop", "ok", "failed"}
      BY <1>0 DEF PushTypes
    <3>. QED  BY <2>5, <2>6, <3>1 DEF Early
  <2>8. SenderOK(f)'
    BY <1>0, <1>1, <1>2, <2>1, <2>3, <2>7 DEF SenderOK, Counted, Early, Sound, Ended
  <2>. QED  BY <2>2, <2>3, <2>8, OneFile
<1>6. CASE Head(w) # Bye
  <2>1. feed' = [feed EXCEPT ![f] = Append(fd, Head(w))] /\ stream' = stream
    BY <1>6 DEF Relayed
  <2>2. PushTypes'
    BY <1>0, <1>1, <1>2, <1>3, <2>1 DEF PushTypes
  <2>3. \A g \in Files \ {f} : Same(g)
    BY <1>0, <1>1, <1>2, <2>1 DEF PushTypes, Same
  <2>4. feed'[f] = Append(fd, Head(w)) /\ wire'[f] = Tail(w)
    BY <1>0, <1>2, <2>1 DEF PushTypes
  <2>5. Line(f)' = Line(f) /\ (Sound(f)' <=> Sound(f)) /\ (Early(f)' <=> Early(f))
    <3>1. Way(Append(fd, Head(w)), Tail(w), q) = Way(fd, w, q)
      BY <1>2, WayRelayed
    <3>. QED  BY <1>1, <2>1, <2>4, <3>1 DEF Line, Sound, Early
  <2>6. Chained(feed'[f], size'[f], real'[f]) /\ ~HasBye(feed'[f])
    BY <1>1, <1>2, <1>4, <1>6, <2>4, ChainPrefix
  <2>7. SenderOK(f)'
    BY <1>0, <1>1, <1>2, <2>1, <2>5, <2>6 DEF SenderOK, Counted, Pumped, Ended
  <2>. QED  BY <2>2, <2>3, <2>7, OneFile
<1>. QED  BY <1>5, <1>6

LEMMA SenderInit ==
  ASSUME Init
  PROVE  SenderInv
<1>1. PushTypes
  BY ConstantsAssumption DEF Init, PushTypes
<1>. SUFFICES ASSUME NEW f \in Files PROVE SenderOK(f)
  BY <1>1 DEF SenderInv
<1>2. /\ feed[f] = <<>> /\ wire[f] = <<>> /\ queue[f] = <<>> /\ pump[f] = "connect"
      /\ client[f] = "idle" /\ stream[f] = "none" /\ f \notin broken /\ sent[f] = 0
  BY DEF Init
<1>3. Line(f) = <<>> /\ Len(<<>>) = 0
  BY <1>2, ConcatEmptySeq DEF Line, Way
<1>4. Chained(<<>>, size[f], real[f]) /\ ~HasBye(<<>>)
  BY <1>3 DEF Chained, HasBye
<1>5. sent[f] <= real[f]
  BY <1>1, <1>2 DEF PushTypes
<1>. QED  BY <1>2, <1>3, <1>4, <1>5 DEF SenderOK, Counted, Pumped, Early, Ended

Sends(f) == PumpTask(f) \/ ClientTask(f) \/ RelayTask(f) \/ Break(f)

LEMMA SenderStep ==
  ASSUME SenderInv, NEW f \in Files, Sends(f)
  PROVE  SenderInv'
<1>1. CASE PumpTask(f)
  BY <1>1, ConnectStep, EarlyStep, PumpStep DEF PumpTask
<1>2. CASE ClientTask(f)
  BY <1>2, ClientSendStep, ClientEndStep, ClientByeStep DEF ClientTask
<1>3. CASE RelayTask(f)
  BY <1>3, RegisterStep, RelayedStep DEF RelayTask
<1>. QED  BY <1>1, <1>2, <1>3, BreakStep DEF Sends

\* Receivers and the clock leave the sender's side alone.
LEMMA SenderAlone ==
  ASSUME SenderInv, UNCHANGED <<pushVars, relayVars>>
  PROVE  SenderInv'
<1>1. PushTypes' /\ \A f \in Files : Same(f)
  BY DEF SenderInv, PushTypes, Same, pushVars, relayVars
<1>. QED  BY <1>1, SenderKept DEF SenderInv

-----------------------------------------------------------------------------
(* The receivers.                                                          *)

RecvTypes ==
  /\ recv \in [Receivers -> RecvState]
  /\ content \in [Receivers -> [0 .. MaxUnits - 1 -> Unit]]
  /\ temp \in [Seconds -> Receivers \cup {Nobody}]
  /\ now \in Seconds

\* Where in the file the frames behind a receiver end.
Off(r) == feed[recv[r].file][recv[r].pos].at + feed[recv[r].file][recv[r].pos].units

\* A receiver has counted no more than the frames behind it say, and, if it has
\* missed none, just as much, the last of them not among them.
Placed(r) ==
  /\ recv[r].pc # "idle" => recv[r].file \in Files /\ recv[r].pos <= Len(feed[recv[r].file])
  /\ recv[r].pc = "idle" => recv[r].node = Nobody
  /\ recv[r].pc = "open" =>
       /\ recv[r].node = Nobody /\ recv[r].got = 0
       /\ ~recv[r].late /\ ~recv[r].missed => recv[r].pos = 0
  /\ recv[r].pc = "recv" =>
       /\ recv[r].pos >= 1 /\ recv[r].got <= Off(r)
       /\ ~recv[r].missed =>
            /\ recv[r].got = Off(r)
            /\ \A i \in 1 .. recv[r].pos : ~feed[recv[r].file][i].end
  /\ recv[r].pc \in {"recv", "rename", "cleanup", "done"} => recv[r].node # Nobody

Holds(r, n) == \A i \in 0 .. n - 1 : content[r][i] = <<recv[r].file, i>>

\* What a receiver of its own file has on disk.
Written(r) ==
  ~NameClash(r) =>
    /\ recv[r].pc = "recv" /\ recv[r].got = Off(r) => Holds(r, recv[r].got)
    /\ recv[r].pc \in {"rename", "done"} => Holds(r, size[recv[r].file])
    /\ recv[r].pc \in {"recv", "rename"} => temp[recv[r].name] = r

Served(r) ==
  recv[r].pc \in {"cleanup", "failed"} =>
    \/ recv[r].late \/ recv[r].missed \/ NameClash(r)
    \/ recv[r].file \in broken \/ pump[recv[r].file] = "failed"
    \/ real[recv[r].file] > size[recv[r].file]

ReceiverOK(r) == Placed(r) /\ Written(r) /\ Served(r)

\* A file is made under the name of its receiver, and who writes to the file of
\* another has the same name.
Named ==
  /\ \A s \in Seconds : temp[s] # Nobody => recv[temp[s]].name = s /\ recv[temp[s]].node # Nobody
  /\ \A r \in Receivers :
       recv[r].node # Nobody =>
         recv[recv[r].node].name = recv[r].name /\ recv[recv[r].node].node # Nobody

FileInv == SenderInv /\ RecvTypes /\ Named /\ \A r \in Receivers : ReceiverOK(r)

LEMMA RecvFields ==
  ASSUME NEW v \in RecvState
  PROVE  /\ v.pc \in {"idle", "open", "recv", "rename", "cleanup", "done", "failed"}
         /\ v.file \in Files \cup {NoFile} /\ v.pos \in Nat
         /\ v.late \in BOOLEAN /\ v.missed \in BOOLEAN
         /\ v.name \in Seconds /\ v.node \in Receivers \cup {Nobody} /\ v.got \in 0 .. MaxUnits
BY DEF RecvState

\* Without a clash a receiver writes to the file it made, and nobody else does.
LEMMA OwnFile ==
  ASSUME RecvTypes, Named, NEW r \in Receivers, ~NameClash(r), recv[r].node # Nobody
  PROVE  /\ recv[r].node = r
         /\ \A q \in Receivers \ {r} : recv[q].node # r
<1>1. recv[r].node \in Receivers
  BY RecvFields DEF RecvTypes
<1>2. recv[r].node = r
  BY <1>1 DEF Named, NameClash
<1>3. ASSUME NEW q \in Receivers \ {r}, recv[q].node = r PROVE FALSE
  <2>1. r # Nobody
    BY ConstantsAssumption
  <2>2. recv[r].name = recv[q].name /\ recv[q].node # Nobody
    BY <1>3, <2>1 DEF Named
  <2>. QED  BY <2>2 DEF NameClash
<1>. QED  BY <1>2, <1>3

\* A name that was taken stays taken.
Kept == \A p \in Receivers :
          recv[p].node # Nobody => recv'[p].node # Nobody /\ recv'[p].name = recv[p].name

LEMMA ClashStays ==
  ASSUME NEW q \in Receivers, Kept, recv'[q].name = recv[q].name, NameClash(q)
  PROVE  NameClash(q)'
BY DEF Kept, NameClash

\* A step of another receiver, or of none.
LEMMA ReceiverKept ==
  ASSUME NEW q \in Receivers, ReceiverOK(q), Kept, recv'[q] = recv[q],
         UNCHANGED <<pushVars, relayVars>>,
         ~NameClash(q)' /\ recv[q].pc \in {"recv", "rename", "done"} =>
           /\ content'[q] = content[q]
           /\ temp[recv[q].name] = q => temp'[recv[q].name] = q
  PROVE  ReceiverOK(q)'
<1>1. UNCHANGED <<size, real, pump, broken, feed>>
  BY DEF pushVars, relayVars
<1>2. Off(q)' = Off(q) /\ Placed(q)'
  BY <1>1 DEF Off, Placed, ReceiverOK
<1>3. NameClash(q) => NameClash(q)'
  BY ClashStays
<1>4. Served(q)'
  BY <1>1, <1>3 DEF Served, ReceiverOK
<1>5. Written(q)'
  <2>. SUFFICES ASSUME ~NameClash(q)',
                       recv[q].pc \in {"recv", "rename", "done"}
                PROVE  Written(q)'
    BY DEF Written
  <2>1. /\ recv[q].pc = "recv" /\ recv[q].got = Off(q) => Holds(q, recv[q].got)
        /\ recv[q].pc \in {"rename", "done"} => Holds(q, size[recv[q].file])
        /\ recv[q].pc \in {"recv", "rename"} => temp[recv[q].name] = q
    BY <1>3 DEF Written, ReceiverOK
  <2>2. /\ recv[q].pc = "recv" /\ recv[q].got = Off(q) => Holds(q, recv[q].got)'
        /\ recv[q].pc \in {"rename", "done"} => Holds(q, size[recv[q].file])'
    BY <1>1, <2>1 DEF Holds
  <2>. QED  BY <1>1, <1>2, <2>1, <2>2 DEF Written
<1>. QED  BY <1>2, <1>4, <1>5 DEF ReceiverOK

-----------------------------------------------------------------------------
(* Steps of the sender and the relay: the feed only grows.                 *)

LEMMA FeedGrows ==
  ASSUME SenderInv, NEW f \in Files, Sends(f)
  PROVE  /\ UNCHANGED <<size, real, recv, content, temp, now>>
         /\ broken \subseteq broken'
         /\ \A g \in Files : /\ pump[g] = "failed" => pump'[g] = "failed"
                             /\ Len(feed'[g]) >= Len(feed[g])
                             /\ \A i \in 1 .. Len(feed[g]) : feed'[g][i] = feed[g][i]
<1>0. PushTypes /\ \A g \in Files : Len(feed[g]) \in Nat
  BY FileTypes DEF SenderInv
<1>1. UNCHANGED <<size, real, recv, content, temp, now>> /\ broken \subseteq broken'
  BY DEF Sends, PumpTask, ClientTask, RelayTask, Connect, Connected, WaitEnds, PumpMeta, PumpData,
         PumpStopped, ClientSend, ClientShutdown, ClientBye, ClientLost, Register, Relayed, Break,
         pushVars, diskVars
<1>2. \A g \in Files : pump[g] = "failed" => pump'[g] = "failed"
  BY <1>0 DEF PushTypes, Sends, PumpTask, ClientTask, RelayTask, Connect, Connected, WaitEnds, PumpMeta,
         PumpData, PumpStopped, ClientSend, ClientShutdown, ClientBye, ClientLost, Register,
         Relayed, Break, pushVars, Enqueue, PumpGoto
<1>3. CASE Relayed(f)
  <2>1. CASE Head(wire[f]) = Bye
    BY <1>0, <1>1, <1>2, <1>3, <2>1 DEF Relayed
  <2>2. CASE Head(wire[f]) # Bye
    <3>1. /\ feed' = [feed EXCEPT ![f] = Append(feed[f], Head(wire[f]))] /\ wire[f] # <<>>
          /\ feed[f] \in Seq(Frame) /\ wire[f] \in Seq(Frame)
      BY <1>0, <1>3, <2>2, FileTypes DEF Relayed
    <3>2. Head(wire[f]) \in Frame
      BY <3>1, Handed
    <3>3. /\ Len(Append(feed[f], Head(wire[f]))) = Len(feed[f]) + 1
          /\ \A i \in 1 .. Len(feed[f]) : Append(feed[f], Head(wire[f]))[i] = feed[f][i]
      BY <3>1, <3>2, Appended
    <3>4. feed'[f] = Append(feed[f], Head(wire[f])) /\ \A g \in Files \ {f} : feed'[g] = feed[g]
      BY <1>0, <3>1 DEF PushTypes
    <3>5. \A g \in Files : /\ Len(feed'[g]) >= Len(feed[g])
                           /\ \A i \in 1 .. Len(feed[g]) : feed'[g][i] = feed[g][i]
      <4>. TAKE g \in Files
      <4>1. CASE g = f
        BY <1>0, <3>3, <3>4, <4>1
      <4>2. CASE g # f
        BY <1>0, <3>4, <4>2
      <4>. QED  BY <4>1, <4>2
    <3>. QED  BY <1>1, <1>2, <3>5
  <2>. QED  BY <2>1, <2>2
<1>4. CASE ~Relayed(f)
  <2>1. feed' = feed
    BY <1>4 DEF Sends, PumpTask, ClientTask, RelayTask, Connect, Connected, WaitEnds, PumpMeta, PumpData,
         PumpStopped, ClientSend, ClientShutdown, ClientBye, ClientLost, Register, Break, relayVars
  <2>. QED  BY <1>0, <1>1, <1>2, <2>1
<1>. QED  BY <1>3, <1>4

LEMMA SendsStep ==
  ASSUME FileInv, NEW f \in Files, Sends(f)
  PROVE  FileInv'
<1>1. SenderInv'
  BY SenderStep DEF FileInv
<1>2. /\ UNCHANGED <<size, real, recv, content, temp, now>> /\ broken \subseteq broken'
      /\ \A g \in Files : /\ pump[g] = "failed" => pump'[g] = "failed"
                          /\ Len(feed'[g]) >= Len(feed[g])
                          /\ \A i \in 1 .. Len(feed[g]) : feed'[g][i] = feed[g][i]
  BY FeedGrows DEF FileInv
<1>3. RecvTypes' /\ Named'
  BY <1>2 DEF RecvTypes, Named, FileInv
<1>4. ASSUME NEW r \in Receivers PROVE ReceiverOK(r)'
  <2>1. ReceiverOK(r) /\ recv[r] \in RecvState /\ (NameClash(r)' <=> NameClash(r))
    BY <1>2 DEF FileInv, RecvTypes, NameClash
  <2>2. CASE recv[r].pc = "idle"
    BY <1>2, <2>1, <2>2 DEF ReceiverOK, Placed, Written, Served
  <2>3. CASE recv[r].pc # "idle"
    <3>. PICK g \in Files : g = recv[r].file
      BY <2>1, <2>3 DEF ReceiverOK, Placed
    <3>1. /\ recv[r].pos \in Nat /\ recv[r].pos <= Len(feed[g])
          /\ Len(feed[g]) \in Nat /\ Len(feed'[g]) \in Nat
      <4>1. feed[g] \in Seq(Frame) /\ feed'[g] \in Seq(Frame)
        BY <1>1 DEF FileInv, SenderInv, PushTypes
      <4>. QED  BY <2>1, <2>3, <4>1, RecvFields DEF ReceiverOK, Placed
    <3>2. recv[r].pos <= Len(feed'[g]) /\ \A i \in 1 .. recv[r].pos : feed'[g][i] = feed[g][i]
      BY <1>2, <3>1
    <3>3. recv[r].pos >= 1 => Off(r)' = Off(r)
      BY <1>2, <3>1, <3>2 DEF Off
    <3>4. Placed(r)'
      BY <1>2, <2>1, <3>2, <3>3 DEF ReceiverOK, Placed
    <3>5. Written(r)'
      <4>1. recv[r].pc = "recv" => Off(r)' = Off(r)
        BY <2>1, <3>3 DEF ReceiverOK, Placed
      <4>2. \A n : Holds(r, n)' <=> Holds(r, n)
        BY <1>2 DEF Holds
      <4>. QED  BY <1>2, <2>1, <4>1, <4>2 DEF ReceiverOK, Written
    <3>6. Served(r)'
      BY <1>2, <2>1 DEF ReceiverOK, Served
    <3>. QED  BY <3>4, <3>5, <3>6 DEF ReceiverOK
  <2>. QED  BY <2>2, <2>3
<1>. QED  BY <1>1, <1>3, <1>4 DEF FileInv

LEMMA TickStep ==
  ASSUME FileInv, Tick
  PROVE  FileInv'
<1>1. UNCHANGED <<pushVars, relayVars, recv, content, temp>> /\ now' \in Seconds
  BY ConstantsAssumption DEF Tick, diskVars, FileInv, RecvTypes, Seconds
<1>2. SenderInv' /\ RecvTypes' /\ Named'
  BY <1>1, SenderAlone DEF FileInv, RecvTypes, Named
<1>3. \A r \in Receivers : ReceiverOK(r)'
  BY <1>1, ReceiverKept DEF FileInv, Kept
<1>. QED  BY <1>2, <1>3 DEF FileInv

-----------------------------------------------------------------------------
(* Steps of a receiver.                                                    *)

Contents == [Receivers -> [0 .. MaxUnits - 1 -> Unit]]
Names    == [Seconds -> Receivers \cup {Nobody}]

LEMMA OneReceiver ==
  ASSUME FileInv, NEW r \in Receivers, NEW v \in RecvState, recv' = [recv EXCEPT ![r] = v],
         recv[r].node # Nobody => v.name = recv[r].name /\ v.node # Nobody,
         UNCHANGED <<pushVars, relayVars, now>>, content' \in Contents, temp' \in Names,
         Named', ReceiverOK(r)',
         \A q \in Receivers \ {r} :
           ~NameClash(q)' /\ ~NameClash(q) /\ recv[q].pc \in {"recv", "rename", "done"} =>
             /\ content'[q] = content[q]
             /\ temp[recv[q].name] = q => temp'[recv[q].name] = q
  PROVE  FileInv'
<1>1. recv \in [Receivers -> RecvState]
  BY DEF FileInv, RecvTypes
<1>2. recv'[r] = v /\ \A q \in Receivers \ {r} : recv'[q] = recv[q]
  BY <1>1
<1>3. Kept
  BY <1>2 DEF Kept
<1>4. RecvTypes'
  BY <1>1 DEF FileInv, RecvTypes, Contents, Names
<1>5. SenderInv'
  BY SenderAlone DEF FileInv
<1>6. ASSUME NEW q \in Receivers \ {r} PROVE ReceiverOK(q)'
  <2>1. NameClash(q) => NameClash(q)'
    BY <1>2, <1>3, ClashStays
  <2>2. ReceiverOK(q) /\ recv'[q] = recv[q]
    BY <1>2 DEF FileInv
  <2>3. ~NameClash(q)' /\ recv[q].pc \in {"recv", "rename", "done"} =>
          /\ content'[q] = content[q]
          /\ temp[recv[q].name] = q => temp'[recv[q].name] = q
    BY <2>1
  <2>. QED  BY <1>3, <2>2, <2>3, ReceiverKept
<1>. QED  BY <1>4, <1>5, <1>6 DEF FileInv

\* It keeps its names, and writes at most to the file of its handle.
LEMMA SameFile ==
  ASSUME FileInv, NEW r \in Receivers, NEW v \in RecvState, recv' = [recv EXCEPT ![r] = v],
         recv[r].node # Nobody => v.name = recv[r].name, v.node = recv[r].node,
         UNCHANGED <<pushVars, relayVars, now, temp>>, content' \in Contents,
         \A q \in Receivers : q # recv[r].node => content'[q] = content[q],
         ReceiverOK(r)'
  PROVE  FileInv'
<1>1. recv \in [Receivers -> RecvState] /\ temp \in Names /\ Named
  BY DEF FileInv, RecvTypes, Names
<1>2. recv'[r] = v /\ \A q \in Receivers \ {r} : recv'[q] = recv[q]
  BY <1>1
<1>3. \A q \in Receivers : /\ recv'[q].node = recv[q].node
                           /\ recv[q].node # Nobody => recv'[q].name = recv[q].name
  BY <1>2
<1>4. Named'
  <2>1. ASSUME NEW s \in Seconds, temp[s] # Nobody
        PROVE  recv'[temp[s]].name = s /\ recv'[temp[s]].node # Nobody
    <3>1. temp[s] \in Receivers /\ recv[temp[s]].name = s /\ recv[temp[s]].node # Nobody
      BY <1>1, <2>1 DEF Names, Named
    <3>. QED  BY <1>3, <3>1
  <2>2. ASSUME NEW q \in Receivers, recv[q].node # Nobody
        PROVE  recv'[recv[q].node].name = recv'[q].name /\ recv'[recv[q].node].node # Nobody
    <3>1. recv[q].node \in Receivers
      BY <1>1, <2>2, RecvFields
    <3>2. recv[recv[q].node].name = recv[q].name /\ recv[recv[q].node].node # Nobody
      BY <1>1, <2>2 DEF Named
    <3>. QED  BY <1>3, <2>2, <3>1, <3>2
  <2>. QED  BY <1>3, <2>1, <2>2 DEF Named
<1>5. ASSUME NEW q \in Receivers \ {r}, ~NameClash(q), recv[q].pc \in {"recv", "rename", "done"}
      PROVE  content'[q] = content[q]
  <2>1. recv[q].node # Nobody
    BY <1>5 DEF FileInv, ReceiverOK, Placed
  <2>2. recv[r].node # q
    BY <1>5, <2>1, OwnFile DEF FileInv
  <2>. QED  BY <2>2
<1>. QED  BY <1>1, <1>4, <1>5, OneReceiver

\* The facts about a receiver that every step of it starts from.
LEMMA Started ==
  ASSUME FileInv, NEW r \in Receivers, recv[r].pc # "idle"
  PROVE  /\ recv[r] \in RecvState /\ recv[r].file \in Files
         /\ recv[r].pos \in Nat /\ recv[r].pos <= Len(feed[recv[r].file])
         /\ feed[recv[r].file] \in Seq(Frame) /\ Len(feed[recv[r].file]) \in Nat
         /\ Chained(feed[recv[r].file], size[recv[r].file], real[recv[r].file])
         /\ ~HasBye(feed[recv[r].file])
         /\ size[recv[r].file] \in 0 .. MaxUnits /\ real[recv[r].file] \in 0 .. MaxUnits
         /\ recv[r].got \in 0 .. MaxUnits /\ MaxUnits \in Nat /\ Chunk \in Nat /\ Backlog \in Nat \ {0}
         /\ Placed(r) /\ Written(r)
<1>1. recv[r] \in RecvState /\ ReceiverOK(r) /\ PushTypes
  BY DEF FileInv, RecvTypes, SenderInv
<1>2. recv[r].file \in Files /\ recv[r].pos <= Len(feed[recv[r].file])
  BY <1>1 DEF ReceiverOK, Placed
<1>3. SenderOK(recv[r].file)
  BY <1>2 DEF FileInv, SenderInv
<1>4. feed[recv[r].file] \in Seq(Frame)
  BY <1>1, <1>2, FileTypes
<1>5. size[recv[r].file] \in 0 .. MaxUnits /\ real[recv[r].file] \in 0 .. MaxUnits
  BY <1>1, <1>2, FileTypes
<1>6. recv[r].pos \in Nat /\ recv[r].got \in 0 .. MaxUnits
  BY <1>1, RecvFields
<1>. QED  BY <1>1, <1>2, <1>3, <1>4, <1>5, <1>6, ConstantsAssumption DEF ReceiverOK, SenderOK

\* It gives up, and what OnTimeIsServed grants is the case.
Excused(r) ==
  \/ recv[r].late \/ recv[r].missed \/ NameClash(r)
  \/ recv[r].file \in broken \/ pump[recv[r].file] = "failed"
  \/ real[recv[r].file] > size[recv[r].file]

LEMMA FailStep ==
  ASSUME FileInv, NEW r \in Receivers, recv[r].pc \in {"open", "recv", "rename"},
         NEW v \in RecvState, recv' = [recv EXCEPT ![r] = v],
         v.pc = IF recv[r].pc = "open" THEN "failed" ELSE "cleanup",
         v.file = recv[r].file, v.pos = recv[r].pos, v.late = recv[r].late,
         v.name = recv[r].name, v.node = recv[r].node,
         recv[r].missed => v.missed,
         Excused(r) \/ v.missed,
         UNCHANGED <<pushVars, relayVars, now, temp>>, content' \in Contents,
         \A q \in Receivers : q # recv[r].node => content'[q] = content[q]
  PROVE  FileInv'
<1>1. recv \in [Receivers -> RecvState]
  BY DEF FileInv, RecvTypes
<1>2. recv'[r] = v /\ \A q \in Receivers \ {r} : recv'[q] = recv[q]
  BY <1>1
<1>3. UNCHANGED <<size, real, pump, broken, feed>>
  BY DEF pushVars, relayVars
<1>4. v.pc \in {"failed", "cleanup"} /\ (v.pc = "cleanup" => recv[r].pc \in {"recv", "rename"})
  OBVIOUS
<1>5. Placed(r)'
  BY <1>2, <1>3, <1>4, Started DEF Placed
<1>6. Written(r)'
  BY <1>2, <1>4 DEF Written
<1>7. NameClash(r) => NameClash(r)'
  <2>1. \A q \in Receivers : recv'[q].node = recv[q].node /\ recv'[q].name = recv[q].name
    BY <1>2
  <2>. QED  BY <2>1 DEF NameClash
<1>8. Served(r)'
  BY <1>2, <1>3, <1>7 DEF Served, Excused
<1>9. ReceiverOK(r)'
  BY <1>5, <1>6, <1>8 DEF ReceiverOK
<1>. QED  BY <1>9, SameFile

\* Fails, in these terms.
LEMMA FailsIs ==
  ASSUME FileInv, NEW r \in Receivers
  PROVE  \E v \in RecvState :
           /\ Fails(r) = [recv EXCEPT ![r] = v]
           /\ v = [recv[r] EXCEPT !.pc = IF recv[r].pc = "open" THEN "failed" ELSE "cleanup"]
           /\ v.pc = IF recv[r].pc = "open" THEN "failed" ELSE "cleanup"
           /\ v.file = recv[r].file /\ v.pos = recv[r].pos /\ v.late = recv[r].late
           /\ v.name = recv[r].name /\ v.node = recv[r].node /\ v.missed = recv[r].missed
<1>. DEFINE v == [recv[r] EXCEPT !.pc = IF recv[r].pc = "open" THEN "failed" ELSE "cleanup"]
<1>1. recv \in [Receivers -> RecvState] /\ recv[r] \in RecvState
  BY DEF FileInv, RecvTypes
<1>2. v \in RecvState
  BY <1>1 DEF RecvState
<1>3. Fails(r) = [recv EXCEPT ![r] = v]
  BY <1>1 DEF Fails, RecvState
<1>. QED  BY <1>1, <1>2, <1>3 DEF RecvState

LEMMA DiskTypes ==
  ASSUME FileInv
  PROVE  recv \in [Receivers -> RecvState] /\ content \in Contents /\ temp \in Names /\ now \in Seconds
BY DEF FileInv, RecvTypes, Contents, Names

LEMMA JoinStep ==
  ASSUME FileInv, NEW r \in Receivers, NEW f \in Files, Join(r, f)
  PROVE  FileInv'
<1>. DEFINE v == [Idle EXCEPT !.pc = "open", !.file = f, !.pos = Len(feed[f]), !.late = feed[f] # <<>>]
<1>1. feed[f] \in Seq(Frame) /\ Len(feed[f]) \in Nat /\ recv[r].pc = "idle"
  BY FileTypes DEF FileInv, SenderInv, Join
<1>2. v \in RecvState
  <2>1. Idle \in RecvState
    BY ConstantsAssumption DEF Idle, RecvState, Seconds
  <2>2. (feed[f] # <<>>) \in BOOLEAN
    OBVIOUS
  <2>3. ASSUME NEW b \in BOOLEAN
        PROVE  [Idle EXCEPT !.pc = "open", !.file = f, !.pos = Len(feed[f]), !.late = b] \in RecvState
    BY <1>1, <2>1 DEF RecvState
  <2>. QED  BY <2>2, <2>3, Zenon
<1>3. recv[r].node = Nobody
  BY <1>1 DEF FileInv, ReceiverOK, Placed
<1>4. recv' = [recv EXCEPT ![r] = v] /\ UNCHANGED <<pushVars, relayVars, now, temp, content>>
  BY DEF Join, diskVars
<1>5. v.pc = "open" /\ v.file = f /\ v.pos = Len(feed[f]) /\ v.node = Nobody /\ v.got = 0
      /\ v.late = (feed[f] # <<>>)
  BY DEF Idle
<1>6. recv'[r] = v /\ feed' = feed
  BY <1>4, DiskTypes DEF relayVars
<1>7. ~v.late => v.pos = 0
  BY <1>1, <1>5
<1>. HIDE DEF v
<1>8. ReceiverOK(r)'
  BY <1>1, <1>5, <1>6, <1>7 DEF ReceiverOK, Placed, Written, Served
<1>9. content' \in Contents
  BY <1>4, DiskTypes
<1>. QED  BY <1>2, <1>3, <1>4, <1>5, <1>8, <1>9, SameFile

LEMMA CutOffStep ==
  ASSUME FileInv, NEW r \in Receivers, CutOff(r)
  PROVE  FileInv'
<1>1. recv[r].pc \in {"open", "recv"} /\ UNCHANGED <<pushVars, relayVars, now, temp, content>>
  BY DEF CutOff, diskVars
<1>2. PICK v \in RecvState :
           /\ Fails(r) = [recv EXCEPT ![r] = v]
           /\ v.pc = IF recv[r].pc = "open" THEN "failed" ELSE "cleanup"
           /\ v.file = recv[r].file /\ v.pos = recv[r].pos /\ v.late = recv[r].late
           /\ v.name = recv[r].name /\ v.node = recv[r].node /\ v.missed = recv[r].missed
  BY FailsIs
<1>. DEFINE u == [v EXCEPT !.missed = TRUE]
<1>3. u \in RecvState
  BY DEF RecvState
<1>4. recv' = [recv EXCEPT ![r] = u]
  BY <1>2, DiskTypes DEF CutOff
<1>5. /\ u.pc = v.pc /\ u.file = v.file /\ u.pos = v.pos /\ u.late = v.late
      /\ u.name = v.name /\ u.node = v.node /\ u.missed
  BY DEF RecvState
<1>. HIDE DEF u
<1>6. content' \in Contents
  BY <1>1, DiskTypes
<1>. QED  BY <1>1, <1>2, <1>3, <1>4, <1>5, <1>6, FailStep

\* Whoever is behind by too much has missed frames, and has counted no more than
\* those before what it missed.
LEMMA LagStep ==
  ASSUME FileInv, NEW r \in Receivers, Lag(r)
  PROVE  FileInv'
<1>. PICK F \in Seq(Frame) : F = feed[recv[r].file]
  BY Started DEF Lag
<1>. PICK n \in Nat : n = recv[r].pos
  BY Started DEF Lag
<1>. DEFINE m == Len(F) - Backlog
<1>. DEFINE v == [recv[r] EXCEPT !.pos = m, !.missed = TRUE]
<1>1. recv[r].pc \in {"open", "recv"} /\ Len(F) \in Nat /\ n <= Len(F) /\ Backlog \in Nat \ {0}
      /\ recv[r] \in RecvState /\ Placed(r) /\ Written(r)
  BY Started DEF Lag
<1>2. m \in Nat /\ m > n /\ m < Len(F)
  <2>1. Behind(r) = Len(F) - n /\ Behind(r) > Backlog
    BY DEF Lag, Behind
  <2>. QED  BY <1>1, <2>1
<1>3. recv' = [recv EXCEPT ![r] = v] /\ UNCHANGED <<pushVars, relayVars, now, temp, content>>
  BY DiskTypes DEF Lag, diskVars
<1>. PICK k \in Nat : k = m
  BY <1>2
<1>4. v \in RecvState
  BY <1>1, <1>2 DEF RecvState
<1>5. /\ v.pc = recv[r].pc /\ v.file = recv[r].file /\ v.pos = k /\ v.late = recv[r].late
      /\ v.name = recv[r].name /\ v.node = recv[r].node /\ v.got = recv[r].got /\ v.missed
  BY <1>1 DEF RecvState
<1>6. recv'[r] = v /\ feed' = feed
  BY <1>3, DiskTypes DEF relayVars
<1>. HIDE DEF v, m
<1>7. n < k /\ k <= Len(F)
  BY <1>1, <1>2
<1>8. recv[r].pc = "recv" =>
        /\ recv[r].got \in Nat /\ Off(r) \in Nat /\ Off(r)' \in Nat
        /\ n >= 1 /\ recv[r].got <= Off(r) /\ Off(r) <= Off(r)'
  <2>. SUFFICES ASSUME recv[r].pc = "recv"
                PROVE  /\ recv[r].got \in Nat /\ Off(r) \in Nat /\ Off(r)' \in Nat
                       /\ n >= 1 /\ recv[r].got <= Off(r) /\ Off(r) <= Off(r)'
    OBVIOUS
  <2>1. n >= 1 /\ recv[r].got <= Off(r) /\ recv[r].got \in Nat
    BY <1>1, Started DEF Placed
  <2>2. k \in 1 .. Len(F) /\ n \in 1 .. k - 1 /\ k # 1 /\ n \in 1 .. Len(F)
    BY <1>1, <1>7, <2>1
  <2>3. F[k] \in Frame /\ F[n] \in Frame
    BY <2>2
  <2>4. /\ F[k].at \in Nat /\ F[k].units \in Nat /\ F[n].at \in Nat /\ F[n].units \in Nat
        /\ F[k].kind \in {"meta", "data", "bye"}
    <3>1. F[k].at \in Nat /\ F[k].units \in Nat /\ F[k].kind \in {"meta", "data", "bye"}
      BY <2>3, FrameNumbers
    <3>2. F[n].at \in Nat /\ F[n].units \in Nat
      BY <2>3, FrameNumbers
    <3>. QED  BY <3>1, <3>2
  <2>5. Chained(F, size[recv[r].file], real[recv[r].file]) /\ ~HasBye(F)
    BY <1>1, Started
  <2>6. F[n].at + F[n].units <= F[k].at
    BY <2>2, <2>4, <2>5 DEF Chained, Follows, HasBye
  <2>7. Off(r) = F[n].at + F[n].units
    BY DEF Off
  <2>8. Off(r)' = F[k].at + F[k].units
    BY <1>5, <1>6 DEF Off
  <2>9. /\ F[n].at + F[n].units \in Nat /\ F[k].at + F[k].units \in Nat
        /\ F[n].at + F[n].units <= F[k].at + F[k].units
    <3>1. \A a, b, c, d \in Nat : a + b <= c => a + b \in Nat /\ c + d \in Nat /\ a + b <= c + d
      OBVIOUS
    <3>. QED  BY <2>4, <2>6, <3>1
  <2>. QED  BY <2>1, <2>7, <2>8, <2>9
<1>9. Placed(r)'
  BY <1>1, <1>5, <1>6, <1>7, <1>8 DEF Placed
<1>10. UNCHANGED <<size, real, pump, broken, NameClash(r)>>
  <2>1. \A q \in Receivers : recv'[q].node = recv[q].node /\ recv'[q].name = recv[q].name
    BY <1>3, <1>5, DiskTypes
  <2>. QED  BY <1>3, <2>1 DEF pushVars, NameClash
<1>11. Written(r)'
  <2>1. ASSUME recv[r].pc = "recv", recv[r].got = Off(r)' PROVE recv[r].got = Off(r)
    BY <1>8, <2>1
  <2>2. \A a : Holds(r, a)' <=> Holds(r, a)
    BY <1>3, <1>5, <1>6 DEF Holds
  <2>. QED  BY <1>1, <1>3, <1>5, <1>6, <1>10, <2>1, <2>2 DEF Written
<1>12. Served(r)'
  BY <1>1, <1>5, <1>6 DEF Served
<1>13. ReceiverOK(r)' /\ content' \in Contents
  BY <1>3, <1>9, <1>11, <1>12, DiskTypes DEF ReceiverOK
<1>. QED  BY <1>3, <1>4, <1>5, <1>13, SameFile

\* The next frame is the description if it is the first, else a chunk that goes
\* on where the one before ends.
LEMMA NextIs ==
  ASSUME FileInv, NEW r \in Receivers, NEW pc, pc # "idle", Receiving(r, pc)
  PROVE  /\ recv[r].pos + 1 <= Len(feed[recv[r].file])
         /\ NextFrame(r) \in Frame
         /\ recv[r].pos = 0 => NextFrame(r) = Meta
         /\ NextFrame(r) = Meta => recv[r].pos = 0
         /\ recv[r].pos >= 1 =>
              /\ NextFrame(r).at = Off(r)
              /\ NextFrame(r).at + NextFrame(r).units <= real[recv[r].file]
              /\ NextFrame(r).end =>
                   NextFrame(r).at + NextFrame(r).units = size[recv[r].file]
<1>. PICK F \in Seq(Frame) : F = feed[recv[r].file]
  BY Started DEF Receiving
<1>. PICK n \in Nat : n = recv[r].pos
  BY Started DEF Receiving
<1>1. Len(F) \in Nat /\ Backlog \in Nat /\ Behind(r) = Len(F) - n /\ Behind(r) \in 1 .. Backlog
  BY Started DEF Receiving, Behind
<1>2. n + 1 \in 1 .. Len(F)
  BY <1>1
<1>3. NextFrame(r) = F[n + 1] /\ F[n + 1] \in Frame
  BY <1>2 DEF NextFrame
<1>4. Chained(F, size[recv[r].file], real[recv[r].file]) /\ ~HasBye(F)
  BY Started DEF Receiving
<1>5. Follows(F, n + 1, size[recv[r].file], real[recv[r].file]) /\ F[n + 1].kind \in {"meta", "data"}
  BY <1>2, <1>3, <1>4, FrameFields DEF Chained, HasBye
<1>6. F[n + 1].kind = "meta" <=> n = 0
  BY <1>5 DEF Follows
<1>7. n = 0 => F[n + 1] = Meta
  BY <1>5, <1>6 DEF Follows
<1>8. F[n + 1] = Meta => n = 0
  BY <1>6, FramesAre
<1>9. n >= 1 => /\ F[n + 1].at = F[n].at + F[n].units
                /\ F[n + 1].at + F[n + 1].units <= real[recv[r].file]
                /\ F[n + 1].end => F[n + 1].at + F[n + 1].units = size[recv[r].file]
  <2>1. n >= 1 => F[n + 1].kind = "data"
    BY <1>5, <1>6
  <2>2. n + 1 - 1 = n
    OBVIOUS
  <2>. QED  BY <1>5, <2>1, <2>2 DEF Follows
<1>10. Off(r) = F[n].at + F[n].units
  BY DEF Off
<1>. QED  BY <1>2, <1>3, <1>7, <1>8, <1>9, <1>10

LEMMA TakeMetaStep ==
  ASSUME FileInv, NEW r \in Receivers, TakeMeta(r)
  PROVE  FileInv'
<1>0. /\ Receiving(r, "open") /\ recv[r].pc = "open" /\ UNCHANGED <<pushVars, relayVars, now>>
      /\ recv[r] \in RecvState /\ recv[r].pos \in Nat /\ recv[r].node = Nobody /\ recv[r].got = 0
      /\ recv[r].file \in Files /\ now \in Seconds
      /\ ~recv[r].late /\ ~recv[r].missed => recv[r].pos = 0
  BY Started, DiskTypes DEF TakeMeta, Receiving, Placed
<1>1. CASE NextFrame(r) # Meta
  <2>1. recv' = Fails(r) /\ UNCHANGED <<temp, content>>
    BY <1>1 DEF TakeMeta, diskVars
  <2>2. PICK v \in RecvState :
           /\ Fails(r) = [recv EXCEPT ![r] = v]
           /\ v.pc = IF recv[r].pc = "open" THEN "failed" ELSE "cleanup"
           /\ v.file = recv[r].file /\ v.pos = recv[r].pos /\ v.late = recv[r].late
           /\ v.name = recv[r].name /\ v.node = recv[r].node /\ v.missed = recv[r].missed
    BY FailsIs
  <2>3. recv[r].pos # 0
    BY <1>0, <1>1, NextIs
  <2>4. Excused(r)
    BY <1>0, <2>3 DEF Excused
  <2>5. content' \in Contents
    BY <2>1, DiskTypes
  <2>. QED  BY <1>0, <2>1, <2>2, <2>4, <2>5, FailStep
<1>2. CASE NextFrame(r) = Meta
  <2>. PICK node : node = IF temp[now] = Nobody THEN r ELSE temp[now]
    OBVIOUS
  <2>. DEFINE v == [recv[r] EXCEPT !.pc = "recv", !.pos = recv[r].pos + 1, !.name = now, !.node = node]
  <2>1. node \in Receivers /\ node # Nobody /\ (temp[now] # Nobody => node = temp[now])
    BY <1>0, DiskTypes, ConstantsAssumption DEF Names
  <2>2. recv' = [recv EXCEPT ![r] = v]
    BY <1>2, DiskTypes DEF TakeMeta
  <2>3. v \in RecvState
    <3>1. ASSUME NEW x \in RecvState, NEW p \in Nat, NEW s \in Seconds, NEW d \in Receivers
          PROVE  [x EXCEPT !.pc = "recv", !.pos = p, !.name = s, !.node = d] \in RecvState
      BY DEF RecvState
    <3>2. recv[r].pos + 1 \in Nat
      BY <1>0
    <3>. QED  BY <1>0, <2>1, <3>1, <3>2
  <2>4. /\ v.pc = "recv" /\ v.pos = recv[r].pos + 1 /\ v.name = now /\ v.node = node
        /\ v.file = recv[r].file /\ v.got = 0 /\ v.missed = recv[r].missed /\ v.late = recv[r].late
    BY <1>0 DEF RecvState
  <2>. HIDE DEF v
  <2>5. recv'[r] = v /\ \A q \in Receivers \ {r} : recv'[q] = recv[q]
    BY <2>2, DiskTypes
  <2>6. /\ temp' = [temp EXCEPT ![now] = node] /\ content' = [content EXCEPT ![node] = Blank]
    BY <1>2 DEF TakeMeta
  <2>7. temp' \in Names /\ content' \in Contents
    <3>1. Blank \in [0 .. MaxUnits - 1 -> Unit]
      BY DEF Blank, Unit
    <3>. QED  BY <2>1, <2>6, <3>1, DiskTypes DEF Names, Contents
  <2>8. \A s \in Seconds \ {now} : temp'[s] = temp[s]
    BY <2>6, DiskTypes DEF Names
  <2>9. temp'[now] = node /\ \A q \in Receivers \ {node} : content'[q] = content[q]
    BY <1>0, <2>6, DiskTypes DEF Names, Contents
  <2>10. Named
    BY DEF FileInv
\* The file is its own, or that of another in the same second.
  <2>11. node # r => recv[node].name = now /\ recv[node].node # Nobody
    BY <1>0, <2>1, <2>10 DEF Named
  <2>12. recv'[node].name = now /\ recv'[node].node # Nobody
    <3>1. CASE node = r
      BY <2>1, <2>4, <2>5, <3>1
    <3>2. CASE node # r
      BY <2>1, <2>5, <2>11, <3>2
    <3>. QED  BY <3>1, <3>2
  <2>13. Named'
    <3>1. ASSUME NEW s \in Seconds, temp'[s] # Nobody
          PROVE  recv'[temp'[s]].name = s /\ recv'[temp'[s]].node # Nobody
      <4>1. CASE s = now
        BY <2>9, <2>12, <4>1
      <4>2. CASE s # now
        <5>1. temp'[s] = temp[s] /\ temp[s] \in Receivers
          BY <2>8, <3>1, <4>2, DiskTypes DEF Names
        <5>2. recv[temp[s]].name = s /\ recv[temp[s]].node # Nobody
          BY <2>10, <3>1, <5>1 DEF Named
        <5>. QED  BY <1>0, <2>5, <5>1, <5>2
      <4>. QED  BY <4>1, <4>2
    <3>2. ASSUME NEW q \in Receivers, recv'[q].node # Nobody
          PROVE  recv'[recv'[q].node].name = recv'[q].name /\ recv'[recv'[q].node].node # Nobody
      <4>1. CASE q = r
        BY <2>4, <2>5, <2>12, <4>1
      <4>2. CASE q # r
        <5>1. recv'[q] = recv[q] /\ recv[q].node \in Receivers
          <6>1. recv'[q] = recv[q] /\ recv[q] \in RecvState
            BY <2>5, <4>2, DiskTypes
          <6>. QED  BY <3>2, <6>1, RecvFields
        <5>2. recv[recv[q].node].name = recv[q].name /\ recv[recv[q].node].node # Nobody
          BY <2>10, <3>2, <5>1 DEF Named
        <5>. QED  BY <1>0, <2>5, <5>1, <5>2
      <4>. QED  BY <4>1, <4>2
    <3>. QED  BY <3>1, <3>2 DEF Named
  <2>14. ReceiverOK(r)'
    <3>1. recv[r].pos = 0 /\ recv[r].pos + 1 <= Len(feed[recv[r].file])
      BY <1>0, <1>2, NextIs
    <3>2. v.pos = 1 /\ feed[v.file][1] = Meta
      BY <1>0, <1>2, <2>4, <3>1 DEF NextFrame
    <3>3. feed' = feed /\ size' = size
      BY <1>0 DEF pushVars, relayVars
    <3>4. Off(r)' = 0
      BY <2>5, <3>2, <3>3, FramesAre DEF Off
    <3>5. \A i \in 1 .. v.pos : ~feed[v.file][i].end
      <4>1. \A i \in 1 .. 1 : i = 1
        OBVIOUS
      <4>. QED  BY <3>2, <4>1, FramesAre
    <3>6. Placed(r)'
      BY <1>0, <2>1, <2>4, <2>5, <3>1, <3>2, <3>3, <3>4, <3>5 DEF Placed
    <3>7. Written(r)'
      <4>1. ~NameClash(r)' => node = r
        BY <2>1, <2>4, <2>5, <2>12 DEF NameClash
      <4>2. Holds(r, 0)'
        <5>1. \A i : i \notin 0 .. 0 - 1
          OBVIOUS
        <5>. QED  BY <5>1 DEF Holds
      <4>. QED  BY <2>4, <2>5, <2>9, <4>1, <4>2 DEF Written
    <3>8. Served(r)'
      BY <2>4, <2>5 DEF Served
    <3>. QED  BY <3>6, <3>7, <3>8 DEF ReceiverOK
  <2>15. ASSUME NEW q \in Receivers \ {r}, ~NameClash(q)', ~NameClash(q),
                recv[q].pc \in {"recv", "rename", "done"}
         PROVE  /\ content'[q] = content[q]
                /\ temp[recv[q].name] = q => temp'[recv[q].name] = q
    <3>1. recv[q].node # Nobody /\ recv[q].name \in Seconds
      <4>1. recv[q] \in RecvState
        BY DiskTypes
      <4>. QED  BY <2>15, <4>1, RecvFields DEF FileInv, ReceiverOK, Placed
    <3>2. recv[q].name # now
      <4>1. recv'[q] = recv[q] /\ recv'[r].node # Nobody /\ recv'[r].name = now
        BY <2>1, <2>4, <2>5
      <4>. QED  BY <2>15, <4>1 DEF NameClash
    <3>3. q # node
      BY <2>11, <2>15, <3>2
    <3>. QED  BY <2>8, <2>9, <3>1, <3>2, <3>3
  <2>. QED  BY <1>0, <2>2, <2>3, <2>7, <2>13, <2>14, <2>15, OneReceiver
<1>. QED  BY <1>1, <1>2

\* What a chunk puts on disk: the units that follow those the receiver has.
LEMMA WriteIs ==
  ASSUME FileInv, NEW r \in Receivers, Receiving(r, "recv"), Write(r, NextFrame(r))
  PROVE  /\ content' \in Contents
         /\ \A q \in Receivers : q # recv[r].node => content'[q] = content[q]
         /\ recv[r].node = r /\ recv[r].got = Off(r) /\ Holds(r, recv[r].got) =>
              \A i \in 0 .. recv[r].got + NextFrame(r).units - 1 : content'[r][i] = <<recv[r].file, i>>
<1>. PICK x \in Frame : x = NextFrame(r)
  BY NextIs
<1>. PICK from : from = recv[r].got
  OBVIOUS
<1>. PICK g \in Files : g = recv[r].file
  BY Started DEF Receiving
<1>. PICK p \in Receivers : p = recv[r].node
  <2>1. recv[r].pc = "recv" /\ recv[r] \in RecvState /\ Placed(r)
    BY Started DEF Receiving
  <2>. QED  BY <2>1, RecvFields DEF Placed
<1>. DEFINE at(i) == IF i \in from .. from + x.units - 1 THEN <<g, x.at + (i - from)>> ELSE content[p][i]
<1>1. /\ from \in Nat /\ MaxUnits \in Nat /\ x.at \in Nat /\ x.units \in Nat
      /\ x.at = Off(r) /\ x.at + x.units <= MaxUnits
  <2>1. recv[r].pc = "recv" /\ recv[r].got \in 0 .. MaxUnits /\ MaxUnits \in Nat
        /\ real[g] \in 0 .. MaxUnits /\ Chunk \in Nat /\ recv[r].pos >= 1
    BY Started DEF Receiving, Placed
  <2>2. x.at = Off(r) /\ x.at + x.units <= real[g]
    BY <2>1, NextIs
  <2>. QED  BY <2>1, <2>2, FrameFields
<1>2. content \in Contents /\ content[p] \in [0 .. MaxUnits - 1 -> Unit]
  BY DiskTypes DEF Contents
<1>3. content' = [content EXCEPT ![p] = [i \in 0 .. MaxUnits - 1 |-> at(i)]]
  BY <1>2 DEF Write
<1>4. \A i \in 0 .. MaxUnits - 1 : at(i) \in Unit
  <2>. TAKE i \in 0 .. MaxUnits - 1
  <2>1. CASE i \in from .. from + x.units - 1
    <3>1. x.at + (i - from) \in 0 .. MaxUnits
      BY <1>1, <2>1
    <3>2. <<g, x.at + (i - from)>> \in Unit
      BY <3>1 DEF Unit
    <3>. QED  BY <2>1, <3>2
  <2>2. CASE i \notin from .. from + x.units - 1
    BY <1>2, <2>2
  <2>. QED  BY <2>1, <2>2
<1>. HIDE DEF at
<1>5. [i \in 0 .. MaxUnits - 1 |-> at(i)] \in [0 .. MaxUnits - 1 -> Unit]
  BY <1>4
<1>6. content' \in Contents /\ \A q \in Receivers : q # p => content'[q] = content[q]
  BY <1>2, <1>3, <1>5 DEF Contents
<1>7. ASSUME p = r, from = Off(r), Holds(r, from), NEW i \in 0 .. from + x.units - 1
      PROVE  content'[r][i] = <<g, i>>
  <2>1. i \in 0 .. MaxUnits - 1 /\ i \in Int
    BY <1>1, <1>7
  <2>2. content'[r][i] = at(i)
    BY <1>2, <1>3, <1>7, <2>1 DEF Contents
  <2>3. CASE i \in from .. from + x.units - 1
    <3>1. x.at + (i - from) = i
      BY <1>1, <1>7, <2>1
    <3>. QED  BY <2>2, <2>3, <3>1 DEF at
  <2>4. CASE i \notin from .. from + x.units - 1
    <3>1. i \in 0 .. from - 1
      BY <1>1, <2>1, <2>4
    <3>. QED  BY <1>7, <2>2, <2>4, <3>1 DEF at, Holds
  <2>. QED  BY <2>3, <2>4
<1>. QED  BY <1>6, <1>7

LEMMA TakeDataStep ==
  ASSUME FileInv, NEW r \in Receivers, TakeData(r)
  PROVE  FileInv'
<1>. PICK x \in Frame : x = NextFrame(r)
  BY NextIs DEF TakeData
<1>. PICK g \in Files : g = recv[r].file
  BY Started DEF TakeData, Receiving
<1>. PICK from \in Nat : from = recv[r].got
  BY Started DEF TakeData, Receiving
<1>. PICK n \in Nat : n = recv[r].pos
  BY Started DEF TakeData, Receiving
<1>0. /\ Receiving(r, "recv") /\ recv[r].pc = "recv" /\ UNCHANGED <<pushVars, relayVars, temp, now>>
      /\ Write(r, x)
  BY DEF TakeData, Receiving
<1>1. /\ recv[r] \in RecvState /\ Placed(r) /\ Written(r) /\ n >= 1 /\ from <= Off(r)
      /\ size[g] \in 0 .. MaxUnits /\ real[g] \in 0 .. MaxUnits /\ MaxUnits \in Nat
      /\ recv[r].node # Nobody
      /\ ~recv[r].missed => from = Off(r) /\ \A i \in 1 .. n : ~feed[g][i].end
  BY <1>0, Started DEF Placed
<1>2. /\ n + 1 <= Len(feed[g]) /\ x.at = Off(r) /\ x.at + x.units <= real[g]
      /\ x.end => x.at + x.units = size[g]
  BY <1>0, <1>1, NextIs
<1>3. x.at \in Nat /\ x.units \in Nat
  BY FrameFields, ConstantsAssumption
<1>4. /\ content' \in Contents
      /\ \A q \in Receivers : q # recv[r].node => content'[q] = content[q]
      /\ recv[r].node = r /\ from = Off(r) /\ Holds(r, from) =>
           \A i \in 0 .. from + x.units - 1 : content'[r][i] = <<g, i>>
  BY <1>0, WriteIs
<1>. PICK total \in Nat : total = from + x.units
  BY <1>3
<1>5. CASE total > size[g] \/ (x.end /\ total # size[g])
  <2>1. recv' = Fails(r)
    BY <1>5 DEF TakeData, Complete
  <2>2. PICK v \in RecvState :
           /\ Fails(r) = [recv EXCEPT ![r] = v]
           /\ v.pc = IF recv[r].pc = "open" THEN "failed" ELSE "cleanup"
           /\ v.file = recv[r].file /\ v.pos = recv[r].pos /\ v.late = recv[r].late
           /\ v.name = recv[r].name /\ v.node = recv[r].node /\ v.missed = recv[r].missed
    BY FailsIs
  <2>3. ~recv[r].missed => real[g] > size[g]
    <3>. SUFFICES ASSUME ~recv[r].missed PROVE real[g] > size[g]
      OBVIOUS
    <3>1. total = x.at + x.units
      BY <1>1, <1>2
    <3>. QED  BY <1>1, <1>2, <1>5, <3>1
  <2>4. Excused(r)
    BY <2>3 DEF Excused
  <2>. QED  BY <1>0, <1>4, <2>1, <2>2, <2>4, FailStep
<1>6. CASE ~(total > size[g] \/ (x.end /\ total # size[g]))
  <2>. DEFINE v == [recv[r] EXCEPT !.got = total, !.pos = n + 1, !.pc = IF x.end THEN "rename" ELSE "recv"]
  <2>0. total \in 0 .. MaxUnits /\ total <= size[g] /\ (x.end => total = size[g])
    BY <1>1, <1>6
  <2>1. recv' = [recv EXCEPT ![r] = v]
    BY <1>6, DiskTypes DEF TakeData, Complete
  <2>2. v \in RecvState
    <3>. PICK y \in RecvState : y = recv[r]
      BY <1>1
    <3>1. n + 1 \in Nat
      OBVIOUS
    <3>2. CASE x.end
      <4>1. v = [y EXCEPT !.got = total, !.pos = n + 1, !.pc = "rename"]
        BY <3>2
      <4>. QED  BY <2>0, <3>1, <4>1 DEF RecvState
    <3>3. CASE ~x.end
      <4>1. v = [y EXCEPT !.got = total, !.pos = n + 1, !.pc = "recv"]
        BY <3>3
      <4>. QED  BY <2>0, <3>1, <4>1 DEF RecvState
    <3>. QED  BY <3>2, <3>3
  <2>3. /\ v.got = total /\ v.pos = n + 1 /\ v.pc = IF x.end THEN "rename" ELSE "recv"
        /\ v.file = g /\ v.missed = recv[r].missed /\ v.late = recv[r].late
        /\ v.name = recv[r].name /\ v.node = recv[r].node
    BY <1>1 DEF RecvState
  <2>. HIDE DEF v
  <2>4. recv'[r] = v /\ UNCHANGED <<feed, size, temp>>
    BY <1>0, <2>1, DiskTypes DEF pushVars, relayVars
  <2>5. Off(r)' = x.at + x.units
    BY <2>3, <2>4 DEF Off, NextFrame
  <2>6. v.pc = "rename" \/ (v.pc = "recv" /\ ~x.end)
    BY <2>3
  <2>7. Placed(r)'
    <3>1. total <= x.at + x.units
      BY <1>1, <1>2, <1>3
    <3>2. ~v.missed => total = x.at + x.units
      BY <1>1, <1>2, <2>3
    <3>3. ~v.missed /\ ~x.end => \A i \in 1 .. n + 1 : ~feed[g][i].end
      <4>1. \A i \in 1 .. n + 1 : i \in 1 .. n \/ i = n + 1
        OBVIOUS
      <4>2. feed[g][n + 1] = x
        BY DEF NextFrame
      <4>. QED  BY <1>1, <2>3, <4>1, <4>2
    <3>4. v.pc = "recv" => n + 1 >= 1 /\ v.got <= Off(r)'
      BY <2>3, <2>5, <3>1
    <3>5. v.pc = "recv" /\ ~v.missed =>
            v.got = Off(r)' /\ \A i \in 1 .. n + 1 : ~feed[g][i].end
      BY <2>3, <2>5, <2>6, <3>2, <3>3
    <3>6. v.node # Nobody /\ g \in Files /\ n + 1 <= Len(feed[g])
      BY <1>1, <1>2, <2>3
    <3>. QED  BY <2>3, <2>4, <2>6, <3>4, <3>5, <3>6 DEF Placed
  <2>8. Written(r)'
    <3>1. ASSUME ~NameClash(r)'
          PROVE  recv[r].node = r /\ ~NameClash(r)
      <4>1. \A q \in Receivers : recv'[q].node = recv[q].node /\ recv'[q].name = recv[q].name
        BY <2>1, <2>3, DiskTypes
      <4>2. ~NameClash(r)
        BY <3>1, <4>1 DEF NameClash
      <4>. QED  BY <1>1, <4>2, OwnFile DEF FileInv
    <3>2. ASSUME ~NameClash(r)', total = x.at + x.units
          PROVE  Holds(r, total)'
      <4>1. from = Off(r)
        BY <1>1, <1>2, <1>3, <3>2
      <4>2. Holds(r, from)
        BY <1>0, <1>1, <3>1, <3>2, <4>1 DEF Written
      <4>3. \A i \in 0 .. from + x.units - 1 : content'[r][i] = <<g, i>>
        BY <1>4, <3>1, <3>2, <4>1, <4>2
      <4>4. \A i \in 0 .. total - 1 : content'[r][i] = <<g, i>>
        BY <1>3, <4>3
      <4>. QED  BY <2>3, <2>4, <4>4 DEF Holds
    <3>3. v.pc = "rename" => x.end /\ total = size[g] /\ total = x.at + x.units
      BY <1>2, <2>0, <2>3
    <3>4. ~NameClash(r)' => temp[recv[r].name] = r
      BY <1>0, <1>1, <3>1 DEF Written
    <3>. QED  BY <2>3, <2>4, <2>5, <2>6, <3>2, <3>3, <3>4 DEF Written
  <2>9. ReceiverOK(r)'
    BY <2>4, <2>6, <2>7, <2>8 DEF ReceiverOK, Served
  <2>. QED  BY <1>0, <1>4, <2>1, <2>2, <2>3, <2>9, SameFile
<1>. QED  BY <1>5, <1>6

LEMMA DiskFailsStep ==
  ASSUME FileInv, NEW r \in Receivers, DiskFails(r)
  PROVE  FileInv'
<1>1. /\ recv[r].pc \in {"open", "recv", "rename"} /\ UNCHANGED <<pushVars, relayVars, now, temp>>
      /\ content' = content \/ (Receiving(r, "recv") /\ Write(r, NextFrame(r)))
  BY DEF DiskFails, Receiving
<1>2. PICK v \in RecvState :
           /\ Fails(r) = [recv EXCEPT ![r] = v]
           /\ v.pc = IF recv[r].pc = "open" THEN "failed" ELSE "cleanup"
           /\ v.file = recv[r].file /\ v.pos = recv[r].pos /\ v.late = recv[r].late
           /\ v.name = recv[r].name /\ v.node = recv[r].node /\ v.missed = recv[r].missed
  BY FailsIs
<1>. DEFINE u == [v EXCEPT !.missed = TRUE]
<1>3. u \in RecvState
  BY DEF RecvState
<1>4. recv' = [recv EXCEPT ![r] = u]
  BY <1>2, DiskTypes DEF DiskFails
<1>5. /\ u.pc = v.pc /\ u.file = v.file /\ u.pos = v.pos /\ u.late = v.late
      /\ u.name = v.name /\ u.node = v.node /\ u.missed
  BY DEF RecvState
<1>. HIDE DEF u
<1>6. content' \in Contents /\ \A q \in Receivers : q # recv[r].node => content'[q] = content[q]
  <2>1. CASE content' = content
    BY <2>1, DiskTypes
  <2>2. CASE Receiving(r, "recv") /\ Write(r, NextFrame(r))
    BY <2>2, WriteIs
  <2>. QED  BY <1>1, <2>1, <2>2
<1>. QED  BY <1>1, <1>2, <1>3, <1>4, <1>5, <1>6, FailStep

LEMMA TakeEndStep ==
  ASSUME FileInv, NEW r \in Receivers, TakeEnd(r)
  PROVE  FileInv'
<1>. PICK g \in Files : g = recv[r].file
  BY Started DEF TakeEnd
<1>0. /\ recv[r].pc \in {"open", "recv"} /\ stream[g] = "gone" /\ recv' = Fails(r)
      /\ UNCHANGED <<pushVars, relayVars, now, temp, content>> /\ Behind(r) = 0
  BY DEF TakeEnd, diskVars
<1>1. /\ recv[r].pos = Len(feed[g]) /\ Placed(r)
  <2>1. Behind(r) = Len(feed[g]) - recv[r].pos /\ recv[r].pos \in Nat /\ Len(feed[g]) \in Nat
    BY <1>0, Started DEF Behind
  <2>. QED  BY <1>0, <2>1, Started
<1>2. PICK v \in RecvState :
           /\ Fails(r) = [recv EXCEPT ![r] = v]
           /\ v.pc = IF recv[r].pc = "open" THEN "failed" ELSE "cleanup"
           /\ v.file = recv[r].file /\ v.pos = recv[r].pos /\ v.late = recv[r].late
           /\ v.name = recv[r].name /\ v.node = recv[r].node /\ v.missed = recv[r].missed
  BY FailsIs
\* A stream that ended with Bye has brought the end of the file.
<1>3. Excused(r)
  <2>. SUFFICES ASSUME ~recv[r].late, ~recv[r].missed, g \notin broken, pump[g] # "failed" PROVE FALSE
    BY DEF Excused
  <2>1. HasEnd(feed[g])
    BY <1>0 DEF FileInv, SenderInv, SenderOK, Ended
  <2>2. PICK i \in 1 .. Len(feed[g]) : feed[g][i].end
    BY <2>1 DEF HasEnd
  <2>3. CASE recv[r].pc = "open"
    <3>1. Len(feed[g]) = 0
      BY <1>1, <2>3 DEF Placed
    <3>. QED  BY <2>2, <3>1
  <2>4. CASE recv[r].pc = "recv"
    BY <1>1, <2>2, <2>4 DEF Placed
  <2>. QED  BY <1>0, <2>3, <2>4
<1>4. content' \in Contents
  BY <1>0, DiskTypes
<1>. QED  BY <1>0, <1>2, <1>3, <1>4, FailStep

\* The temporary name goes, with the receiver that had it or with another of the
\* same second.
LEMMA NameGoes ==
  ASSUME FileInv, NEW r \in Receivers, recv[r].node # Nobody,
         NEW v \in RecvState, recv' = [recv EXCEPT ![r] = v],
         v.name = recv[r].name, v.node # Nobody,
         recv[v.node].name = recv[r].name, v.node \in Receivers, recv[v.node].node # Nobody,
         temp' = [temp EXCEPT ![recv[r].name] = Nobody],
         UNCHANGED <<pushVars, relayVars, now, content>>, ReceiverOK(r)'
  PROVE  FileInv'
<1>1. recv[r] \in RecvState /\ recv[r].name \in Seconds
  BY DiskTypes, RecvFields
<1>2. recv'[r] = v /\ \A q \in Receivers \ {r} : recv'[q] = recv[q]
  BY DiskTypes
<1>3. /\ temp'[recv[r].name] = Nobody
      /\ \A s \in Seconds : s # recv[r].name => temp'[s] = temp[s]
  BY <1>1, DiskTypes DEF Names
<1>4. temp' \in Names /\ content' \in Contents
  BY DiskTypes DEF Names
<1>5. Named
  BY DEF FileInv
<1>6. \A q \in Receivers : recv'[q].name = recv[q].name /\ (recv[q].node # Nobody => recv'[q].node # Nobody)
  BY <1>2
<1>7. Named'
  <2>1. ASSUME NEW s \in Seconds, temp'[s] # Nobody
        PROVE  recv'[temp'[s]].name = s /\ recv'[temp'[s]].node # Nobody
    <3>1. temp'[s] = temp[s] /\ temp[s] \in Receivers
      BY <1>3, <2>1, DiskTypes DEF Names
    <3>2. recv[temp[s]].name = s /\ recv[temp[s]].node # Nobody
      BY <1>5, <2>1, <3>1 DEF Named
    <3>. QED  BY <1>6, <3>1, <3>2
  <2>2. ASSUME NEW q \in Receivers, recv'[q].node # Nobody
        PROVE  recv'[recv'[q].node].name = recv'[q].name /\ recv'[recv'[q].node].node # Nobody
    <3>1. CASE q = r
      BY <1>2, <1>6, <3>1
    <3>2. CASE q # r
      <4>1. recv'[q] = recv[q] /\ recv[q] \in RecvState
        BY <1>2, <3>2, DiskTypes
      <4>2. recv[q].node \in Receivers
        BY <2>2, <4>1, RecvFields
      <4>3. recv[recv[q].node].name = recv[q].name /\ recv[recv[q].node].node # Nobody
        BY <1>5, <2>2, <4>1 DEF Named
      <4>. QED  BY <1>6, <4>1, <4>2, <4>3
    <3>. QED  BY <3>1, <3>2
  <2>. QED  BY <2>1, <2>2 DEF Named
<1>8. ASSUME NEW q \in Receivers \ {r}, ~NameClash(q), recv[q].pc \in {"recv", "rename", "done"}
      PROVE  temp'[recv[q].name] = temp[recv[q].name]
  <2>1. recv[q].name # recv[r].name
    BY <1>8 DEF NameClash
  <2>2. recv[q].name \in Seconds
    BY DiskTypes, RecvFields
  <2>. QED  BY <1>3, <2>1, <2>2
<1>. QED  BY <1>4, <1>7, <1>8, OneReceiver

LEMMA RenameStep ==
  ASSUME FileInv, NEW r \in Receivers, Rename(r)
  PROVE  FileInv'
<1>0. /\ recv[r].pc = "rename" /\ UNCHANGED <<pushVars, relayVars, now, content>>
      /\ recv[r] \in RecvState /\ recv[r].node # Nobody /\ Placed(r) /\ Written(r)
      /\ recv[r].name \in Seconds
  BY Started, RecvFields DEF Rename, Placed
<1>1. CASE temp[recv[r].name] = Nobody
  <2>1. recv' = Fails(r) /\ temp' = temp
    BY <1>1 DEF Rename
  <2>2. PICK v \in RecvState :
           /\ Fails(r) = [recv EXCEPT ![r] = v]
           /\ v.pc = IF recv[r].pc = "open" THEN "failed" ELSE "cleanup"
           /\ v.file = recv[r].file /\ v.pos = recv[r].pos /\ v.late = recv[r].late
           /\ v.name = recv[r].name /\ v.node = recv[r].node /\ v.missed = recv[r].missed
    BY FailsIs
  <2>3. NameClash(r)
    BY <1>0, <1>1, ConstantsAssumption DEF Written
  <2>4. Excused(r) /\ content' \in Contents
    BY <1>0, <2>3, DiskTypes DEF Excused
  <2>. QED  BY <1>0, <2>1, <2>2, <2>4, FailStep
<1>2. CASE temp[recv[r].name] # Nobody
  <2>. PICK p \in Receivers : p = temp[recv[r].name]
    BY <1>0, <1>2, DiskTypes DEF Names
  <2>. DEFINE v == [recv[r] EXCEPT !.pc = "done", !.node = p]
  <2>1. /\ recv' = [recv EXCEPT ![r] = v] /\ temp' = [temp EXCEPT ![recv[r].name] = Nobody]
    BY <1>2, DiskTypes DEF Rename
  <2>2. v \in RecvState
    BY <1>0 DEF RecvState
  <2>3. /\ v.pc = "done" /\ v.node = p /\ v.name = recv[r].name /\ v.file = recv[r].file
        /\ v.pos = recv[r].pos
    BY <1>0 DEF RecvState
  <2>. HIDE DEF v
  <2>4. recv[p].name = recv[r].name /\ recv[p].node # Nobody /\ p # Nobody
    BY <1>0, <1>2 DEF FileInv, Named
  <2>5. recv'[r] = v /\ \A q \in Receivers \ {r} : recv'[q] = recv[q]
    BY <2>1, DiskTypes
  <2>6. UNCHANGED <<feed, size>>
    BY <1>0 DEF pushVars, relayVars
  <2>7. Placed(r)'
    BY <1>0, <2>3, <2>4, <2>5, <2>6 DEF Placed
  <2>8. NameClash(r) => NameClash(r)'
    BY <2>3, <2>5 DEF NameClash
  <2>9. \A a : Holds(r, a)' <=> Holds(r, a)
    BY <1>0, <2>3, <2>5 DEF Holds
  <2>10. Written(r)'
    BY <1>0, <2>3, <2>5, <2>6, <2>8, <2>9 DEF Written
  <2>11. ReceiverOK(r)'
    BY <2>3, <2>5, <2>7, <2>10 DEF ReceiverOK, Served
  <2>. QED  BY <1>0, <2>1, <2>2, <2>3, <2>4, <2>11, NameGoes
<1>. QED  BY <1>1, <1>2

LEMMA CleanupStep ==
  ASSUME FileInv, NEW r \in Receivers, Cleanup(r)
  PROVE  FileInv'
<1>0. /\ recv[r].pc = "cleanup" /\ UNCHANGED <<pushVars, relayVars, now, content>>
      /\ recv[r] \in RecvState /\ recv[r].node # Nobody /\ Placed(r) /\ Served(r)
      /\ recv[r].node \in Receivers \cup {Nobody}
  BY Started, RecvFields DEF Cleanup, Placed, FileInv, ReceiverOK
<1>. DEFINE v == [recv[r] EXCEPT !.pc = "failed"]
<1>1. recv' = [recv EXCEPT ![r] = v] /\ temp' = [temp EXCEPT ![recv[r].name] = Nobody]
  BY DiskTypes DEF Cleanup
<1>2. v \in RecvState
  BY <1>0 DEF RecvState
<1>3. /\ v.pc = "failed" /\ v.node = recv[r].node /\ v.name = recv[r].name /\ v.file = recv[r].file
      /\ v.pos = recv[r].pos /\ v.late = recv[r].late /\ v.missed = recv[r].missed
  BY <1>0 DEF RecvState
<1>. HIDE DEF v
<1>4. recv'[r] = v /\ \A q \in Receivers \ {r} : recv'[q] = recv[q]
  BY <1>1, DiskTypes
<1>5. UNCHANGED <<feed, size, real, broken, pump>>
  BY <1>0 DEF pushVars, relayVars
<1>6. NameClash(r) => NameClash(r)'
  BY <1>3, <1>4 DEF NameClash
<1>7. ReceiverOK(r)'
  <2>1. Placed(r)'
    BY <1>0, <1>3, <1>4, <1>5 DEF Placed
  <2>2. Written(r)' 
    BY <1>3, <1>4 DEF Written
  <2>3. Served(r)'
    BY <1>0, <1>3, <1>4, <1>5, <1>6 DEF Served
  <2>. QED  BY <2>1, <2>2, <2>3 DEF ReceiverOK
<1>8. recv[recv[r].node].name = recv[r].name /\ recv[recv[r].node].node # Nobody
  BY <1>0 DEF FileInv, Named
<1>. QED  BY <1>0, <1>1, <1>2, <1>3, <1>7, <1>8, NameGoes

-----------------------------------------------------------------------------
(* The theorems.                                                           *)

LEMMA FileInit ==
  ASSUME Init
  PROVE  FileInv
<1>1. /\ recv = [r \in Receivers |-> Idle] /\ content = [r \in Receivers |-> Blank]
      /\ temp = [s \in Seconds |-> Nobody] /\ now = 0
  BY DEF Init
<1>2. Idle \in RecvState
  BY ConstantsAssumption DEF Idle, RecvState, Seconds
<1>3. Blank \in [0 .. MaxUnits - 1 -> Unit]
  BY DEF Blank, Unit
<1>4. RecvTypes
  BY <1>1, <1>2, <1>3, ConstantsAssumption DEF RecvTypes, Seconds
<1>5. Idle.pc = "idle" /\ Idle.node = Nobody
  BY DEF Idle
<1>6. Named /\ \A r \in Receivers : ReceiverOK(r)
  BY <1>1, <1>5 DEF Named, ReceiverOK, Placed, Written, Served
<1>. QED  BY <1>4, <1>6, SenderInit DEF FileInv

LEMMA FileStep ==
  ASSUME FileInv, [Next]_vars
  PROVE  FileInv'
<1>1. ASSUME NEW f \in Files, PumpTask(f) \/ ClientTask(f) \/ RelayTask(f) \/ Break(f)
      PROVE  FileInv'
  BY <1>1, SendsStep DEF Sends
<1>2. ASSUME NEW r \in Receivers, ReceiverTask(r) PROVE FileInv'
  BY <1>2, LagStep, TakeMetaStep, TakeDataStep, TakeEndStep, RenameStep, CleanupStep DEF ReceiverTask
<1>3. ASSUME NEW r \in Receivers, CutOff(r) PROVE FileInv'
  BY <1>3, CutOffStep
<1>4. ASSUME NEW r \in Receivers, NEW f \in Files, Join(r, f) PROVE FileInv'
  BY <1>4, JoinStep
<1>6. ASSUME NEW r \in Receivers, DiskFails(r) PROVE FileInv'
  BY <1>6, DiskFailsStep
<1>5. CASE UNCHANGED vars
  <2>1. UNCHANGED <<pushVars, relayVars, recv, content, temp, now>>
    BY <1>5 DEF vars, diskVars
  <2>2. SenderInv' /\ RecvTypes' /\ Named'
    BY <2>1, SenderAlone DEF FileInv, RecvTypes, Named
  <2>3. \A r \in Receivers : ReceiverOK(r)'
    BY <2>1, ReceiverKept DEF FileInv, Kept
  <2>. QED  BY <2>2, <2>3 DEF FileInv
<1>. QED  BY <1>1, <1>2, <1>3, <1>4, <1>5, <1>6, TickStep DEF Next

LEMMA FileInvHolds == Spec => []FileInv
BY FileInit, FileStep, PTL DEF Spec

\* Every variable has its type: no receiver counts past the longest file, and no
\* chunk that was written lies outside one.
THEOREM TypeCorrect == Spec => []TypeOK
<1>1. FileInv => TypeOK
  BY DEF FileInv, SenderInv, PushTypes, RecvTypes, TypeOK
<1>. QED  BY <1>1, FileInvHolds, PTL

\* receive_file_session reports a file as received only if every unit of it is on
\* disk in its place, whatever the relay dropped for a slow watcher and wherever
\* the push broke off, unless another receiver's temporary file has the same name.
THEOREM SavedIsWholeHolds == Spec => []SavedIsWhole
<1>1. ASSUME FileInv PROVE SavedIsWhole
  <2>. SUFFICES ASSUME NEW r \in Receivers, recv[r].pc = "done", ~NameClash(r) PROVE Whole(r)
    BY DEF SavedIsWhole
  <2>1. Written(r) /\ recv[r].node # Nobody
    BY <1>1 DEF FileInv, ReceiverOK, Placed
  <2>2. recv[r].node = r
    BY <1>1, <2>1, OwnFile DEF FileInv
  <2>3. Holds(r, size[recv[r].file])
    BY <2>1 DEF Written
  <2>. QED  BY <2>2, <2>3 DEF Holds, Whole
<1>. QED  BY <1>1, FileInvHolds, PTL

\* A receiver that was there before the first frame and missed none fails only
\* with its push: wait_for_watcher holds the first frame back, and the Bye of
\* client_loop comes behind all that push_file has queued.
THEOREM OnTimeIsServedHolds == Spec => []OnTimeIsServed
<1>1. FileInv => OnTimeIsServed
  BY DEF FileInv, ReceiverOK, Served, OnTimeIsServed
<1>. QED  BY <1>1, FileInvHolds, PTL

=============================================================================
