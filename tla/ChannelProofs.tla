--------------------------- MODULE ChannelProofs ---------------------------
(***************************************************************************)
(* The safety properties of Channel, proved for any number of files,       *)
(* chunks and cancellations.  Everything rests on one count per transfer:  *)
(* the right to become a file of the receiver is held by the upload that   *)
(* has not sent its offer, by the offer on its way, by the receive loop,   *)
(* by the table of downloads or by the file in place, and by one of them   *)
(* at a time.                                                              *)
(***************************************************************************)
EXTENDS Channel, FiniteSetTheorems, SequenceTheorems, TLAPS

Bit(x) == IF x THEN 1 ELSE 0

-----------------------------------------------------------------------------
(* How many elements of a sequence are in a set.                           *)

Places(q, S) == {n \in DOMAIN q : q[n] \in S}
Count(q, S) == Cardinality(Places(q, S))

LEMMA CountType ==
  ASSUME NEW T, NEW q \in Seq(T), NEW S
  PROVE  IsFiniteSet(Places(q, S)) /\ Count(q, S) \in Nat
<1>1. IsFiniteSet(1 .. Len(q))
  BY FS_Interval
<1>2. Places(q, S) \in SUBSET (1 .. Len(q))
  BY DEF Places
<1>3. IsFiniteSet(Places(q, S))
  BY <1>1, <1>2, FS_Subset
<1> QED
  BY <1>3, FS_CardinalityType DEF Count

LEMMA CountNone ==
  ASSUME NEW T, NEW q \in Seq(T), NEW S
  PROVE  Count(q, S) = 0 <=> \A n \in DOMAIN q : q[n] \notin S
<1>1. IsFiniteSet(Places(q, S))
  BY CountType
<1>2. Count(q, S) = 0 <=> Places(q, S) = {}
  BY <1>1, FS_EmptySet DEF Count
<1> QED
  BY <1>2 DEF Places

LEMMA CountAppend ==
  ASSUME NEW T, NEW q \in Seq(T), NEW e \in T, NEW S
  PROVE  Count(Append(q, e), S) = Count(q, S) + Bit(e \in S)
<1> DEFINE last == Len(q) + 1
<1>1. /\ DOMAIN q = 1 .. Len(q) /\ DOMAIN Append(q, e) = 1 .. last /\ Len(q) \in Nat
      /\ \A n \in 1 .. Len(q) : Append(q, e)[n] = q[n]
      /\ Append(q, e)[last] = e
  <2>1. Append(q, e) \in Seq(T) /\ Len(Append(q, e)) = last
    BY AppendProperties
  <2> QED
    BY <2>1, AppendProperties
<1>2. IsFiniteSet(Places(q, S)) /\ last \notin Places(q, S)
  <2>1. IsFiniteSet(Places(q, S))
    BY CountType
  <2>2. last \notin DOMAIN q
    BY <1>1
  <2> QED
    BY <2>1, <2>2 DEF Places
<1>3. CASE e \in S
  <2>1. Places(Append(q, e), S) = Places(q, S) \cup {last}
    BY <1>1, <1>3 DEF Places
  <2> QED
    BY <1>2, <1>3, <2>1, FS_AddElement DEF Count, Bit
<1>4. CASE e \notin S
  <2>1. Places(Append(q, e), S) = Places(q, S)
    BY <1>1, <1>4 DEF Places
  <2> QED
    BY <1>4, <2>1, CountType DEF Count, Bit
<1> QED
  BY <1>3, <1>4

LEMMA CountTail ==
  ASSUME NEW T, NEW q \in Seq(T), q # <<>>, NEW S
  PROVE  Count(Tail(q), S) = Count(q, S) - Bit(Head(q) \in S)
<1>1. /\ DOMAIN q = 1 .. Len(q) /\ Len(q) \in Nat \ {0} /\ Head(q) = q[1]
      /\ DOMAIN Tail(q) = 1 .. Len(q) - 1
      /\ \A n \in 1 .. Len(q) - 1 : Tail(q)[n] = q[n + 1]
  BY HeadTailProperties, EmptySeq
<1> DEFINE P == Places(q, S)
           R == P \ {1}
           f == [n \in R |-> n - 1]
<1>2. IsFiniteSet(P) /\ (1 \in P <=> Head(q) \in S)
  <2>1. IsFiniteSet(P)
    BY CountType
  <2>2. 1 \in DOMAIN q
    BY <1>1
  <2> QED
    BY <1>1, <2>1, <2>2 DEF Places
<1>3. IsFiniteSet(R) /\ Cardinality(R) = Cardinality(P) - Bit(Head(q) \in S)
  <2>1. IsFiniteSet(R) /\ Cardinality(R) = IF 1 \in P THEN Cardinality(P) - 1
                                                       ELSE Cardinality(P)
    BY <1>2, FS_RemoveElement
  <2>2. Cardinality(P) \in Nat
    BY <1>2, FS_CardinalityType
  <2> QED
    BY <1>2, <2>1, <2>2 DEF Bit
<1>4. ExistsBijection(R, Places(Tail(q), S))
  <2>1. R = {n \in 2 .. Len(q) : q[n] \in S}
    BY <1>1 DEF Places
  <2>2. Places(Tail(q), S) = {n \in 1 .. Len(q) - 1 : q[n + 1] \in S}
    BY <1>1 DEF Places
  <2>3. f \in [R -> Places(Tail(q), S)]
    BY <1>1, <2>1, <2>2
  <2>4. \A m, n \in R : f[m] = f[n] => m = n
    BY <1>1, <2>1
  <2>5. \A n \in Places(Tail(q), S) : n + 1 \in R /\ f[n + 1] = n
    BY <1>1, <2>1, <2>2
  <2>6. f \in Bijection(R, Places(Tail(q), S))
    BY <2>3, <2>4, <2>5 DEF Bijection, Injection, Surjection, IsInjective
  <2> QED
    BY <2>6 DEF ExistsBijection
<1> QED
  BY <1>3, <1>4, FS_Bijection DEF Count

-----------------------------------------------------------------------------
(* The ends, the packets and the types.                                    *)

LEMMA OtherEnd ==
  ASSUME NEW s \in Sides
  PROVE  /\ Other(s) \in Sides /\ Other(s) # s /\ Other(Other(s)) = s
         /\ \A t \in Sides : t = s \/ t = Other(s)
<1>1. PICK a \in Sides, b \in Sides : a # b /\ Sides = {a, b}
  BY ConstantsAssumption
<1>2. \A t \in Sides : Other(t) \in Sides /\ Other(t) # t
  BY <1>1 DEF Other
<1> QED
  BY <1>1, <1>2

Kinds == {"offer", "decision", "ack", "cancel"}
Chunk(i, n, eof) == [kind |-> "chunk", id |-> i, n |-> n, eof |-> eof]
Message == {Control(k, i) : k \in Kinds, i \in Ids}
             \cup {Chunk(i, n, e) : i \in Ids, n \in {0, 1}, e \in BOOLEAN}
             \cup {Fin}

\* What is known of a packet by its kind.
LEMMA MessageKinds ==
  ASSUME NEW p \in Message
  PROVE  /\ p \in Packet
         /\ p.kind \in Kinds => p.id \in Ids /\ p = Control(p.kind, p.id)
         /\ p.kind = "chunk" => /\ p.id \in Ids /\ p.n \in {0, 1} /\ p.eof \in BOOLEAN
                               /\ p = Chunk(p.id, p.n, p.eof)
         /\ p.kind = "fin" => p = Fin
<1>1. ASSUME NEW k \in Kinds, NEW i \in Ids, p = Control(k, i)
      PROVE  p.kind = k /\ p.id = i /\ p \in Packet /\ k # "chunk" /\ k # "fin"
  BY <1>1 DEF Control, Kinds, Packet
<1>2. ASSUME NEW i \in Ids, NEW n \in {0, 1}, NEW e \in BOOLEAN, p = Chunk(i, n, e)
      PROVE  /\ p.kind = "chunk" /\ p.id = i /\ p.n = n /\ p.eof = e /\ p \in Packet
             /\ p.kind \notin Kinds
  BY <1>2 DEF Chunk, Kinds, Packet
<1>3. ASSUME p = Fin PROVE p.kind = "fin" /\ p.kind \notin Kinds /\ p \in Packet
  BY <1>3 DEF Fin, Kinds, Packet
<1> QED
  BY <1>1, <1>2, <1>3 DEF Message

Busy == {"insert", "decide", "rename", "ack", "uncancel"}

LoopType ==
  /\ loop \in [Sides -> [pc: {"idle", "recv", "ended"} \cup Busy, id: {0} \cup Ids]]
  /\ \A s \in Sides : loop[s].pc \in Busy => loop[s].id \in Ids

UserType ==
  /\ user \in [Sides -> [pc: {"idle", "inbounds", "tell"}, id: {0} \cup Ids, hit: BOOLEAN]]
  /\ \A s \in Sides : user[s].pc # "idle" => user[s].id \in Ids

Tables  == [Sides -> SUBSET Ids]
Uploads == [Sides -> [Ids -> Upload]]
Counters == [Sides -> [Ids -> Nat]]

\* TypeOK, with the packets that are really sent.
TypeInv ==
  /\ queue \in [Sides -> Seq(Message)]
  /\ open \in [Sides -> BOOLEAN] /\ alive \in [Sides -> BOOLEAN]
  /\ closed \in [Sides -> BOOLEAN]
  /\ closer \in [Sides -> {"none", "send", "stream", "inbounds", "outbounds", "done"}]
  /\ LoopType /\ UserType
  /\ cancels \in 0 .. MaxCancels
  /\ next \in [Sides -> 1 .. MaxFiles + 1]
  /\ upload \in Uploads
  /\ got \in Counters
  /\ outbounds \in Tables /\ cancelled \in Tables
  /\ decided \in Tables /\ acked \in Tables /\ altered \in Tables
  /\ inbounds \in Tables /\ spoiled \in Tables
  /\ temp \in Tables /\ saved \in Tables
  /\ completed \in Tables /\ failed \in Tables

-----------------------------------------------------------------------------
(* What is on its way to an end, counted, and how a step changes it.       *)

UnitChunks(i) == {Chunk(i, 1, e) : e \in BOOLEAN}
LastChunks(i) == {Chunk(i, n, TRUE) : n \in {0, 1}}
AllChunks(i)  == {Chunk(i, n, e) : n \in {0, 1}, e \in BOOLEAN}

Controls(q, k, i) == Count(queue[q], {Control(k, i)})
Units(q, i)  == Count(queue[q], UnitChunks(i))
Lasts(q, i)  == Count(queue[q], LastChunks(i))
Chunks(q, i) == Count(queue[q], AllChunks(i))

SameControls(q, i) == \A k \in Kinds : Controls(q, k, i)' = Controls(q, k, i)
SameChunks(q, i) ==
  /\ Units(q, i)' = Units(q, i) /\ Lasts(q, i)' = Lasts(q, i) /\ Chunks(q, i)' = Chunks(q, i)

LEMMA PacketsDiffer ==
  ASSUME NEW j \in Ids
  PROVE  /\ \A k, l \in Kinds, i \in Ids :
              /\ Control(k, i) \in {Control(l, j)} <=> k = l /\ i = j
              /\ Control(k, i) \notin UnitChunks(j) \cup LastChunks(j) \cup AllChunks(j)
         /\ \A i \in Ids, n \in {0, 1}, e \in BOOLEAN :
              /\ \A l \in Kinds : Chunk(i, n, e) \notin {Control(l, j)}
              /\ Chunk(i, n, e) \in UnitChunks(j) <=> i = j /\ n = 1
              /\ Chunk(i, n, e) \in LastChunks(j) <=> i = j /\ e
              /\ Chunk(i, n, e) \in AllChunks(j) <=> i = j
         /\ \A l \in Kinds : Fin \notin {Control(l, j)}
         /\ Fin \notin UnitChunks(j) \cup LastChunks(j) \cup AllChunks(j)
<1>1. \A k \in Kinds, i \in Ids : /\ Control(k, i).kind = k /\ Control(k, i).id = i
                                  /\ k # "chunk" /\ k # "fin"
  BY DEF Control, Kinds
<1>2. \A i \in Ids, n \in {0, 1}, e \in BOOLEAN :
        LET c == Chunk(i, n, e) IN c.kind = "chunk" /\ c.id = i /\ c.n = n /\ c.eof = e
  BY DEF Chunk
<1>3. Fin.kind = "fin"
  BY DEF Fin
<1>4. ASSUME NEW i \in Ids, NEW n \in {0, 1}, NEW e \in BOOLEAN
      PROVE  /\ Chunk(i, n, e) \in UnitChunks(j) <=> i = j /\ n = 1
             /\ Chunk(i, n, e) \in LastChunks(j) <=> i = j /\ e
             /\ Chunk(i, n, e) \in AllChunks(j) <=> i = j
  <2>1. \A m \in {0, 1}, f \in BOOLEAN :
          Chunk(i, n, e) = Chunk(j, m, f) <=> i = j /\ n = m /\ e = f
    BY DEF Chunk
  <2>2. Chunk(i, n, e) \in UnitChunks(j) <=> i = j /\ n = 1
    BY <2>1 DEF UnitChunks
  <2>3. Chunk(i, n, e) \in LastChunks(j) <=> i = j /\ e
    BY <2>1 DEF LastChunks
  <2>4. Chunk(i, n, e) \in AllChunks(j) <=> i = j
    BY <2>1 DEF AllChunks
  <2> QED
    BY <2>2, <2>3, <2>4
<1>5. \A c \in UnitChunks(j) \cup LastChunks(j) \cup AllChunks(j) : c.kind = "chunk"
  <2>1. \A n \in {0, 1}, e \in BOOLEAN : Chunk(j, n, e).kind = "chunk"
    BY <1>2
  <2>2. \A c \in UnitChunks(j) : c.kind = "chunk"
    BY <2>1 DEF UnitChunks
  <2>3. \A c \in LastChunks(j) : c.kind = "chunk"
    BY <2>1 DEF LastChunks
  <2>4. \A c \in AllChunks(j) : c.kind = "chunk"
    BY <2>1 DEF AllChunks
  <2> QED
    BY <2>2, <2>3, <2>4
<1> QED
  BY <1>1, <1>2, <1>3, <1>4, <1>5

LEMMA CountsAreNat ==
  ASSUME TypeInv, NEW q \in Sides, NEW i \in Ids
  PROVE  /\ \A k \in Kinds : Controls(q, k, i) \in Nat
         /\ Units(q, i) \in Nat /\ Lasts(q, i) \in Nat /\ Chunks(q, i) \in Nat
<1>1. queue[q] \in Seq(Message)
  BY DEF TypeInv
<1> QED
  BY <1>1, CountType DEF Controls, Units, Lasts, Chunks

LEMMA CountSubset ==
  ASSUME NEW T, NEW q \in Seq(T), NEW R, NEW S, R \subseteq S
  PROVE  Count(q, R) <= Count(q, S)
<1>1. IsFiniteSet(Places(q, S))
  BY CountType
<1>2. Places(q, R) \in SUBSET Places(q, S)
  BY DEF Places
<1> QED
  BY <1>1, <1>2, FS_Subset DEF Count

LEMMA ChunksBound ==
  ASSUME NEW q \in Sides, NEW i \in Ids
  PROVE  /\ TypeInv  => Units(q, i) <= Chunks(q, i) /\ Lasts(q, i) <= Chunks(q, i)
         /\ TypeInv' => Units(q, i)' <= Chunks(q, i)' /\ Lasts(q, i)' <= Chunks(q, i)'
<1>0. \A n \in {0, 1}, e \in BOOLEAN : Chunk(i, n, e) \in AllChunks(i)
  BY DEF AllChunks
<1>1. UnitChunks(i) \subseteq AllChunks(i) /\ LastChunks(i) \subseteq AllChunks(i)
  <2>1. UnitChunks(i) \subseteq AllChunks(i)
    BY <1>0 DEF UnitChunks
  <2>2. LastChunks(i) \subseteq AllChunks(i)
    BY <1>0 DEF LastChunks
  <2> QED
    BY <2>1, <2>2
<1>2. ASSUME TypeInv PROVE Units(q, i) <= Chunks(q, i) /\ Lasts(q, i) <= Chunks(q, i)
  <2>1. queue[q] \in Seq(Message)
    BY <1>2 DEF TypeInv
  <2> QED
    BY <1>1, <2>1, CountSubset DEF Units, Lasts, Chunks
<1>3. ASSUME TypeInv' PROVE Units(q, i)' <= Chunks(q, i)' /\ Lasts(q, i)' <= Chunks(q, i)'
  <2>1. queue'[q] \in Seq(Message)
    BY <1>3 DEF TypeInv
  <2> QED
    BY <1>1, <2>1, CountSubset DEF Units, Lasts, Chunks
<1> QED
  BY <1>2, <1>3

LEMMA CountsAreNatNext ==
  ASSUME TypeInv', NEW q \in Sides, NEW i \in Ids
  PROVE  /\ \A k \in Kinds : Controls(q, k, i)' \in Nat
         /\ Units(q, i)' \in Nat /\ Lasts(q, i)' \in Nat /\ Chunks(q, i)' \in Nat
<1>1. queue'[q] \in Seq(Message)
  BY DEF TypeInv
<1> QED
  BY <1>1, CountType DEF Controls, Units, Lasts, Chunks

LEMMA SameCounts ==
  ASSUME NEW q \in Sides, NEW i \in Ids, queue'[q] = queue[q]
  PROVE  SameControls(q, i) /\ SameChunks(q, i)
BY DEF SameControls, SameChunks, Controls, Units, Lasts, Chunks

\* What s writes reaches q.
Reaches(s, q) == q = Other(s) /\ open[s] /\ Readable(q)

LEMMA WriteStep ==
  ASSUME TypeInv, NEW s \in Sides, NEW p \in Message, Write(s, p)
  PROVE  /\ queue' \in [Sides -> Seq(Message)]
         /\ \A q \in Sides :
              queue'[q] = IF Reaches(s, q) THEN Append(queue[q], p) ELSE queue[q]
<1>1. Other(s) \in Sides /\ queue \in [Sides -> Seq(Message)]
  BY OtherEnd DEF TypeInv
<1>2. \A q \in Sides : Append(queue[q], p) \in Seq(Message)
  BY <1>1, AppendProperties
<1> QED
  BY <1>1, <1>2 DEF Write, Reaches

LEMMA WriteCounts ==
  ASSUME TypeInv, NEW s \in Sides, NEW p \in Message, Write(s, p), NEW q \in Sides, NEW S
  PROVE  Count(queue'[q], S) = Count(queue[q], S) + Bit(Reaches(s, q) /\ p \in S)
<1>1. queue[q] \in Seq(Message)
  BY DEF TypeInv
<1>2. Count(Append(queue[q], p), S) = Count(queue[q], S) + Bit(p \in S)
  BY <1>1, CountAppend
<1>3. Count(queue[q], S) \in Nat
  BY <1>1, CountType
<1> QED
  BY <1>2, <1>3, WriteStep DEF Bit

LEMMA WriteControl ==
  ASSUME TypeInv, NEW s \in Sides, NEW k \in Kinds, NEW i \in Ids, Write(s, Control(k, i)),
         NEW q \in Sides, NEW j \in Ids
  PROVE  /\ \A l \in Kinds :
              Controls(q, l, j)' = Controls(q, l, j) + Bit(Reaches(s, q) /\ l = k /\ j = i)
         /\ SameChunks(q, j)
<1>1. Control(k, i) \in Message
  BY DEF Message
<1>2. \A S : Count(queue'[q], S) = Count(queue[q], S) + Bit(Reaches(s, q) /\ Control(k, i) \in S)
  BY <1>1, WriteCounts
<1>3. ASSUME NEW l \in Kinds
      PROVE  Controls(q, l, j)' = Controls(q, l, j) + Bit(Reaches(s, q) /\ l = k /\ j = i)
  BY <1>2, PacketsDiffer DEF Controls, Bit
<1>4. SameChunks(q, j)
  BY <1>2, PacketsDiffer, CountsAreNat DEF SameChunks, Units, Lasts, Chunks, Bit
<1> QED
  BY <1>3, <1>4

LEMMA WriteChunkCounts ==
  ASSUME TypeInv, NEW s \in Sides, NEW i \in Ids, NEW n \in {0, 1}, NEW e \in BOOLEAN,
         Write(s, Chunk(i, n, e)), NEW q \in Sides, NEW j \in Ids
  PROVE  /\ SameControls(q, j)
         /\ Units(q, j)'  = Units(q, j)  + Bit(Reaches(s, q) /\ j = i /\ n = 1)
         /\ Lasts(q, j)'  = Lasts(q, j)  + Bit(Reaches(s, q) /\ j = i /\ e)
         /\ Chunks(q, j)' = Chunks(q, j) + Bit(Reaches(s, q) /\ j = i)
<1>1. Chunk(i, n, e) \in Message
  BY DEF Message
<1>2. \A S : Count(queue'[q], S) = Count(queue[q], S) + Bit(Reaches(s, q) /\ Chunk(i, n, e) \in S)
  BY <1>1, WriteCounts
<1>3. SameControls(q, j)
  BY <1>2, PacketsDiffer, CountsAreNat DEF SameControls, Controls, Bit
<1>4. Units(q, j)' = Units(q, j) + Bit(Reaches(s, q) /\ j = i /\ n = 1)
  BY <1>2, PacketsDiffer DEF Units, Bit
<1>5. Lasts(q, j)' = Lasts(q, j) + Bit(Reaches(s, q) /\ j = i /\ e)
  BY <1>2, PacketsDiffer DEF Lasts, Bit
<1>6. Chunks(q, j)' = Chunks(q, j) + Bit(Reaches(s, q) /\ j = i)
  BY <1>2, PacketsDiffer DEF Chunks, Bit
<1> QED
  BY <1>3, <1>4, <1>5, <1>6

LEMMA WriteFin ==
  ASSUME TypeInv, NEW s \in Sides, Write(s, Fin), NEW q \in Sides, NEW j \in Ids
  PROVE  SameControls(q, j) /\ SameChunks(q, j)
<1>1. Fin \in Message
  BY DEF Message
<1>2. \A S : Count(queue'[q], S) = Count(queue[q], S) + Bit(Reaches(s, q) /\ Fin \in S)
  BY <1>1, WriteCounts
<1> QED
  BY <1>2, PacketsDiffer, CountsAreNat
     DEF SameControls, SameChunks, Controls, Units, Lasts, Chunks, Bit

LEMMA TakeStep ==
  ASSUME TypeInv, NEW s \in Sides, NEW k, Take(s, k)
  PROVE  /\ queue' \in [Sides -> Seq(Message)]
         /\ queue[s] \in Seq(Message) /\ queue[s] # <<>>
         /\ Head(queue[s]) \in Message /\ Head(queue[s]).kind = k
         /\ \A q \in Sides : queue'[q] = IF q = s THEN Tail(queue[s]) ELSE queue[q]
<1>1. queue \in [Sides -> Seq(Message)] /\ queue[s] # <<>>
  BY DEF TypeInv, Take
<1>2. Head(queue[s]) \in Message /\ Tail(queue[s]) \in Seq(Message)
  BY <1>1, HeadTailProperties
<1> QED
  BY <1>1, <1>2 DEF Take

LEMMA TakeCounts ==
  ASSUME TypeInv, NEW s \in Sides, NEW k, Take(s, k), NEW q \in Sides, NEW S
  PROVE  Count(queue[q], S) = Count(queue'[q], S) + Bit(q = s /\ Head(queue[s]) \in S)
<1>1. queue[q] \in Seq(Message) /\ queue[s] \in Seq(Message) /\ queue[s] # <<>>
  BY TakeStep DEF TypeInv
<1>2. Count(Tail(queue[s]), S) = Count(queue[s], S) - Bit(Head(queue[s]) \in S)
  BY <1>1, CountTail
<1>3. Count(queue[q], S) \in Nat /\ Count(queue[s], S) \in Nat
  BY <1>1, CountType
<1> QED
  BY <1>2, <1>3, TakeStep DEF Bit

LEMMA TakeControl ==
  ASSUME TypeInv, NEW s \in Sides, NEW k \in Kinds, Take(s, k)
  PROVE  /\ Head(queue[s]).id \in Ids
         /\ \A q \in Sides, j \in Ids :
              /\ \A l \in Kinds : Controls(q, l, j) =
                   Controls(q, l, j)' + Bit(q = s /\ l = k /\ j = Head(queue[s]).id)
              /\ SameChunks(q, j)
<1> DEFINE i == Head(queue[s]).id
<1>1. i \in Ids /\ Head(queue[s]) = Control(k, i)
  BY TakeStep, MessageKinds
<1> HIDE DEF i
<1>2. queue' \in [Sides -> Seq(Message)]
  BY TakeStep
<1>3. ASSUME NEW q \in Sides, NEW j \in Ids
      PROVE  /\ \A l \in Kinds :
                  Controls(q, l, j) = Controls(q, l, j)' + Bit(q = s /\ l = k /\ j = i)
             /\ SameChunks(q, j)
  <2>1. \A S : Count(queue[q], S) = Count(queue'[q], S) + Bit(q = s /\ Control(k, i) \in S)
    BY <1>1, TakeCounts
  <2>2. \A S : Count(queue'[q], S) \in Nat
    BY <1>2, CountType
  <2>3. ASSUME NEW l \in Kinds
        PROVE  Controls(q, l, j) = Controls(q, l, j)' + Bit(q = s /\ l = k /\ j = i)
    BY <1>1, <2>1, PacketsDiffer DEF Controls, Bit
  <2>4. SameChunks(q, j)
    BY <1>1, <2>1, <2>2, PacketsDiffer DEF SameChunks, Units, Lasts, Chunks, Bit
  <2> QED
    BY <2>3, <2>4
<1> QED
  BY <1>1, <1>3 DEF i

LEMMA TakeChunk ==
  ASSUME TypeInv, NEW s \in Sides, Take(s, "chunk")
  PROVE  LET c == Head(queue[s]) IN
         /\ c.id \in Ids /\ c.n \in {0, 1} /\ c.eof \in BOOLEAN
         /\ c = Chunk(c.id, c.n, c.eof)
         /\ \A q \in Sides, j \in Ids :
              /\ SameControls(q, j)
              /\ Units(q, j)  = Units(q, j)'  + Bit(q = s /\ j = c.id /\ c.n = 1)
              /\ Lasts(q, j)  = Lasts(q, j)'  + Bit(q = s /\ j = c.id /\ c.eof)
              /\ Chunks(q, j) = Chunks(q, j)' + Bit(q = s /\ j = c.id)
<1> DEFINE c == Head(queue[s])  i == c.id  n == c.n  e == c.eof
<1>1. i \in Ids /\ n \in {0, 1} /\ e \in BOOLEAN /\ c = Chunk(i, n, e)
  BY TakeStep, MessageKinds
<1>2. queue' \in [Sides -> Seq(Message)]
  BY TakeStep
<1>3. ASSUME NEW q \in Sides, NEW j \in Ids
      PROVE  /\ SameControls(q, j)
             /\ Units(q, j)  = Units(q, j)'  + Bit(q = s /\ j = i /\ n = 1)
             /\ Lasts(q, j)  = Lasts(q, j)'  + Bit(q = s /\ j = i /\ e)
             /\ Chunks(q, j) = Chunks(q, j)' + Bit(q = s /\ j = i)
  <2>1. \A S : Count(queue[q], S) = Count(queue'[q], S) + Bit(q = s /\ c \in S)
    BY TakeCounts
  <2> HIDE DEF c, i, n, e
  <2>2. \A S : Count(queue'[q], S) \in Nat
    BY <1>2, CountType
  <2>3. SameControls(q, j)
    BY <1>1, <2>1, <2>2, PacketsDiffer DEF SameControls, Controls, Bit
  <2>4. Units(q, j) = Units(q, j)' + Bit(q = s /\ j = i /\ n = 1)
    BY <1>1, <2>1, PacketsDiffer DEF Units, Bit
  <2>5. Lasts(q, j) = Lasts(q, j)' + Bit(q = s /\ j = i /\ e)
    BY <1>1, <2>1, PacketsDiffer DEF Lasts, Bit
  <2>6. Chunks(q, j) = Chunks(q, j)' + Bit(q = s /\ j = i)
    BY <1>1, <2>1, PacketsDiffer DEF Chunks, Bit
  <2> QED
    BY <2>3, <2>4, <2>5, <2>6
<1> QED
  BY <1>1, <1>3

LEMMA TakeFinCounts ==
  ASSUME TypeInv, NEW s \in Sides, Take(s, "fin"), NEW q \in Sides, NEW j \in Ids
  PROVE  SameControls(q, j) /\ SameChunks(q, j)
<1>1. Head(queue[s]) = Fin
  BY TakeStep, MessageKinds
<1>2. \A S : Count(queue[q], S) = Count(queue'[q], S) + Bit(q = s /\ Fin \in S)
  BY <1>1, TakeCounts
<1>3. \A S : Count(queue'[q], S) \in Nat
  BY TakeStep, CountType
<1> QED
  BY <1>2, <1>3, PacketsDiffer
     DEF SameControls, SameChunks, Controls, Units, Lasts, Chunks, Bit

LEMMA LostCounts ==
  ASSUME ConnectionLost, NEW q \in Sides, NEW j \in Ids
  PROVE  /\ \A k \in Kinds : Controls(q, k, j)' = 0
         /\ Units(q, j)' = 0 /\ Lasts(q, j)' = 0 /\ Chunks(q, j)' = 0
<1>1. queue'[q] = <<Fin>> /\ <<Fin>> \in Seq({Fin})
  BY DEF ConnectionLost
<1>2. \A S : Count(<<Fin>>, S) = 0 <=> Fin \notin S
  <2>1. ASSUME NEW S PROVE Count(<<Fin>>, S) = 0 <=> \A n \in DOMAIN <<Fin>> : <<Fin>>[n] \notin S
    BY <1>1, CountNone
  <2>2. DOMAIN <<Fin>> = {1} /\ <<Fin>>[1] = Fin
    OBVIOUS
  <2> QED
    BY <2>1, <2>2
<1> QED
  BY <1>1, <1>2, PacketsDiffer DEF Controls, Units, Lasts, Chunks

-----------------------------------------------------------------------------
(* Types.                                                                  *)

LEMMA TypeInit == Init => TypeInv
<1> SUFFICES ASSUME Init PROVE TypeInv
  OBVIOUS
<1>1. \A s \in Sides : queue[s] = <<>> /\ <<>> \in Seq(Message)
  BY DEF Init
<1>2. queue \in [Sides -> Seq(Message)]
  BY <1>1 DEF Init
<1>3. [i \in Ids |-> [pc |-> "none", size |-> 0, offset |-> 0]] \in [Ids -> Upload]
  BY ConstantsAssumption DEF Upload
<1>4. upload \in Uploads /\ cancels \in 0 .. MaxCancels
  BY <1>3, ConstantsAssumption DEF Init, Uploads
<1>5. next \in [Sides -> 1 .. MaxFiles + 1] /\ got \in Counters
  BY ConstantsAssumption DEF Init, Counters
<1>6. LoopType /\ UserType
  BY DEF Init, LoopType, UserType, Busy
<1> QED
  BY <1>2, <1>4, <1>5, <1>6 DEF Init, TypeInv, Tables

\* The ways a step changes a table, an upload, and where a task stands.
LEMMA SetTyped ==
  ASSUME NEW f \in Tables, NEW s \in Sides, NEW i \in Ids
  PROVE  Add(f, s, i) \in Tables /\ Drop(f, s, i) \in Tables
BY DEF Add, Drop, Tables

LEMMA SetsTyped ==
  ASSUME NEW f \in Tables, NEW g \in Tables, NEW s \in Sides
  PROVE  /\ [f EXCEPT ![s] = @ \ g[s]] \in Tables
         /\ [f EXCEPT ![s] = @ \cup g[s]] \in Tables
         /\ [f EXCEPT ![s] = {}] \in Tables
BY DEF Tables

LEMMA UploadTyped ==
  ASSUME NEW f \in Uploads, NEW s \in Sides, NEW i \in Ids
  PROVE  /\ f[s][i] \in Upload
         /\ \A u \in Upload : [f EXCEPT ![s][i] = u] \in Uploads
         /\ \A pc \in {"offer", "decision", "check", "chunk", "ack", "done"} :
              [f EXCEPT ![s][i].pc = pc] \in Uploads
         /\ \A n \in Nat : [f EXCEPT ![s][i].offset = @ + n] \in Uploads
<1>1. f[s][i] \in Upload
  BY DEF Uploads
<1>2. \A u \in Upload : [f EXCEPT ![s][i] = u] \in Uploads
  BY DEF Uploads
<1>3. ASSUME NEW pc \in {"offer", "decision", "check", "chunk", "ack", "done"}
      PROVE  [f EXCEPT ![s][i].pc = pc] \in Uploads
  <2>1. [f[s][i] EXCEPT !.pc = pc] \in Upload
    BY <1>1 DEF Upload
  <2> QED
    BY <2>1 DEF Uploads
<1>4. ASSUME NEW n \in Nat
      PROVE  [f EXCEPT ![s][i].offset = @ + n] \in Uploads
  <2>1. [f[s][i] EXCEPT !.offset = @ + n] \in Upload
    BY <1>1, <1>4 DEF Upload
  <2> QED
    BY <2>1 DEF Uploads
<1> QED
  BY <1>1, <1>2, <1>3, <1>4

LEMMA CounterTyped ==
  ASSUME got \in Counters, NEW s \in Sides, NEW i \in Ids
  PROVE  /\ got[s][i] \in Nat
         /\ \A n \in Nat : /\ [got EXCEPT ![s][i] = n] \in Counters
                          /\ [got EXCEPT ![s][i] = @ + n] \in Counters
BY DEF Counters

LEMMA LoopTyped ==
  ASSUME LoopType, NEW s \in Sides, NEW pc \in {"idle", "recv", "ended"} \cup Busy,
         NEW i \in {0} \cup Ids, pc \in Busy => i \in Ids, LoopAt(s, pc, i)
  PROVE  LoopType'
BY DEF LoopType, LoopAt

LEMMA UserTyped ==
  ASSUME UserType, NEW s \in Sides, NEW pc \in {"idle", "inbounds", "tell"},
         NEW i \in {0} \cup Ids, pc # "idle" => i \in Ids, NEW hit \in BOOLEAN,
         UserAt(s, pc, i, hit)
  PROVE  UserType'
BY DEF UserType, UserAt

LEMMA SessionKept ==
  /\ UNCHANGED loop /\ LoopType => LoopType'
  /\ UNCHANGED user /\ UserType => UserType'
BY DEF LoopType, UserType

LEMMA ChunkTyped ==
  ASSUME upload \in Uploads, NEW s \in Sides, NEW i \in Ids, SendChunk(s, i)
  PROVE  upload' \in Uploads
<1> DEFINE u == upload[s][i]
           f(n) == [upload EXCEPT ![s][i].offset = @ + n]
<1>1. CASE open[s]
  <2>1. PICK n \in {0, 1} : upload' = [f(n) EXCEPT ![s][i].pc =
                                        IF IsEof(u.size, u.offset, n) THEN "ack" ELSE "check"]
    BY <1>1 DEF SendChunk
  <2>2. PICK pc \in {"ack", "check"} : upload' = [f(n) EXCEPT ![s][i].pc = pc]
    BY <2>1
  <2>3. n \in Nat
    BY <2>1
  <2>4. f(n) \in Uploads
    BY <2>3, UploadTyped
  <2> HIDE DEF f
  <2> QED
    BY <2>2, <2>4, UploadTyped
<1>2. CASE ~open[s]
  <2>1. upload' = [upload EXCEPT ![s][i].pc = "done"]
    BY <1>2 DEF SendChunk
  <2> QED
    BY <2>1, UploadTyped
<1> QED
  BY <1>1, <1>2

LEMMA CancelTyped ==
  ASSUME UserType, NEW s \in Sides, NEW i \in Ids, Cancel(s, i)
  PROVE  UserType'
<1>1. (i \in outbounds[s]) \in BOOLEAN
  OBVIOUS
<1>2. PICK hit \in BOOLEAN : UserAt(s, "inbounds", i, hit)
  BY <1>1 DEF Cancel
<1> QED
  BY <1>2, UserTyped

LEMMA TypeUpload ==
  ASSUME TypeInv, NEW s \in Sides, NEW i \in Ids, UploadTask(s, i)
  PROVE  TypeInv'
<1>0. upload \in Uploads
  BY DEF TypeInv
<1> USE UploadTyped, SetTyped, SessionKept DEF TypeInv, wire, session, sending, receiving, told
<1>1. CASE InsertOutbound(s, i)
  BY <1>1 DEF InsertOutbound, Goto
<1>2. CASE SendOffer(s, i)
  <2>1. Control("offer", i) \in Message
    BY DEF Message, Kinds
  <2>2. queue' \in [Sides -> Seq(Message)]
    BY <1>2, <2>1, WriteStep DEF SendOffer
  <2> QED
    BY <1>2, <2>2 DEF SendOffer, Goto
<1>3. CASE AwaitDecision(s, i)
  <2>1. failed' \in Tables
    BY <1>3 DEF AwaitDecision
  <2>2. PICK pc \in {"check", "done"} : Goto(s, i, "decision", pc)
    BY <1>3 DEF AwaitDecision
  <2>3. upload' \in Uploads
    BY <2>2 DEF Goto
  <2> QED
    BY <1>3, <2>1, <2>3 DEF AwaitDecision
<1>4. CASE CheckCancelled(s, i)
  BY <1>4 DEF CheckCancelled, Goto
<1>5. CASE ReadFails(s, i)
  BY <1>5 DEF ReadFails
<1>6. CASE SendChunk(s, i)
  <2> DEFINE u == upload[s][i]
  <2>1. PICK n \in {0, 1} : Write(s, [kind |-> "chunk", id |-> i, n |-> n,
                                    eof |-> IsEof(u.size, u.offset, n)])
    BY <1>6 DEF SendChunk
  <2>2. queue' \in [Sides -> Seq(Message)]
    <3>1. PICK e \in BOOLEAN : Write(s, Chunk(i, n, e))
      BY <2>1 DEF IsEof, Chunk
    <3>2. Chunk(i, n, e) \in Message
      BY DEF Message
    <3> QED
      BY <3>1, <3>2, WriteStep
  <2>3. upload' \in Uploads
    BY <1>6, ChunkTyped
  <2>4. failed' \in Tables /\ altered' \in Tables
    BY <1>6 DEF SendChunk
  <2> QED
    BY <1>6, <2>2, <2>3, <2>4 DEF SendChunk
<1>7. CASE AwaitAck(s, i)
  <2>1. completed' \in Tables /\ failed' \in Tables
    BY <1>7 DEF AwaitAck
  <2>2. upload' \in Uploads
    BY <1>7 DEF AwaitAck, Goto
  <2> QED
    BY <1>7, <2>1, <2>2 DEF AwaitAck
<1> QED
  BY <1>1, <1>2, <1>3, <1>4, <1>5, <1>6, <1>7 DEF UploadTask

LEMMA TypeLoop ==
  ASSUME TypeInv, NEW s \in Sides, LoopTask(s)
  PROVE  TypeInv'
<1>0. LoopType /\ (loop[s].pc \in Busy => loop[s].id \in Ids)
  BY DEF TypeInv, LoopType
<1> USE SetTyped, SessionKept DEF wire, session, sending, receiving, told
<1>1. CASE LoopRecv(s) \/ LoopStops(s)
  <2>1. LoopType'
    BY <1>0, <1>1, LoopTyped DEF LoopRecv, LoopStops, Busy
  <2> QED
    BY <1>1, <2>1 DEF TypeInv, LoopRecv, LoopStops
<1>2. ASSUME NEW k \in Kinds, Take(s, k)
      PROVE  queue' \in [Sides -> Seq(Message)] /\ Head(queue[s]).id \in Ids
  BY <1>2, TakeStep, TakeControl
<1>3. CASE TakeOffer(s)
  <2>1. queue' \in [Sides -> Seq(Message)] /\ Head(queue[s]).id \in Ids
    BY <1>2, <1>3 DEF TakeOffer, Kinds
  <2>2. LoopType'
    BY <1>0, <1>3, <2>1, LoopTyped DEF TakeOffer, Busy
  <2> QED
    BY <1>3, <2>1, <2>2 DEF TypeInv, TakeOffer
<1>4. CASE InsertInbound(s)
  <2>1. loop[s].id \in Ids
    BY <1>0, <1>4 DEF InsertInbound, Busy
  <2>2. LoopType'
    BY <1>0, <1>4, <2>1, LoopTyped DEF InsertInbound, Busy
  <2>3. got' \in Counters
    BY <1>4, <2>1, CounterTyped DEF InsertInbound, TypeInv
  <2> QED
    BY <1>4, <2>1, <2>2, <2>3 DEF TypeInv, InsertInbound
<1>5. CASE SendDecision(s) \/ SendAck(s)
  <2>1. PICK k \in Kinds : Write(s, Control(k, loop[s].id)) /\ loop[s].id \in Ids
    BY <1>0, <1>5 DEF SendDecision, SendAck, Kinds, Busy
  <2>2. queue' \in [Sides -> Seq(Message)]
    BY <2>1, WriteStep DEF Message
  <2>3. LoopType'
    BY <1>0, <1>5, LoopTyped DEF SendDecision, SendAck, Busy
  <2> QED
    BY <1>5, <2>2, <2>3 DEF TypeInv, SendDecision, SendAck
<1>6. CASE TakeDecision(s)
  <2>1. queue' \in [Sides -> Seq(Message)] /\ Head(queue[s]).id \in Ids
    BY <1>2, <1>6 DEF TakeDecision, Kinds
  <2>2. LoopType'
    BY <1>0, <1>6, LoopTyped DEF TakeDecision, Busy
  <2> QED
    BY <1>6, <2>1, <2>2 DEF TypeInv, TakeDecision
<1>7. CASE IgnoreChunk(s)
  <2>1. LoopType'
    BY <1>0, <1>7, LoopTyped DEF IgnoreChunk, Busy
  <2> QED
    BY <1>7, <2>1, TakeStep DEF TypeInv, IgnoreChunk
<1>8. CASE WriteChunk(s)
  <2> DEFINE c == Head(queue[s])
  <2>1. c.id \in Ids /\ c.n \in Nat /\ queue' \in [Sides -> Seq(Message)]
    BY <1>8, TakeChunk, TakeStep DEF WriteChunk
  <2>2. got' \in Counters
    BY <1>8, <2>1, CounterTyped DEF WriteChunk, TypeInv
  <2>3. inbounds' \in Tables /\ spoiled' \in Tables
    BY <1>8, <2>1 DEF WriteChunk, TypeInv
  <2>4. LoopType'
    BY <1>0, <1>8, <2>1, LoopTyped DEF WriteChunk, Busy
  <2> QED
    BY <1>8, <2>1, <2>2, <2>3, <2>4 DEF TypeInv, WriteChunk
<1>9. CASE WriteChunkFails(s)
  <2>1. Head(queue[s]).id \in Ids /\ queue' \in [Sides -> Seq(Message)]
    BY <1>9, TakeChunk, TakeStep DEF WriteChunkFails
  <2>2. LoopType'
    BY <1>0, <1>9, LoopTyped DEF WriteChunkFails, Busy
  <2> QED
    BY <1>9, <2>1, <2>2 DEF TypeInv, WriteChunkFails
<1>10. CASE Rename(s)
  <2>1. loop[s].id \in Ids
    BY <1>0, <1>10 DEF Rename, Busy
  <2>2. saved' \in Tables /\ failed' \in Tables
    BY <1>10, <2>1 DEF Rename, TypeInv
  <2>3. LoopType'
    BY <1>0, <1>10, <2>1, LoopTyped DEF Rename, Busy
  <2> QED
    BY <1>10, <2>1, <2>2, <2>3 DEF TypeInv, Rename
<1>11. CASE TakeAck(s)
  <2>1. queue' \in [Sides -> Seq(Message)] /\ Head(queue[s]).id \in Ids
    BY <1>2, <1>11 DEF TakeAck, Kinds
  <2>2. LoopType'
    BY <1>0, <1>11, LoopTyped DEF TakeAck, Busy
  <2> QED
    BY <1>11, <2>1, <2>2 DEF TypeInv, TakeAck
<1>12. CASE TakeCancel(s)
  <2>1. queue' \in [Sides -> Seq(Message)] /\ Head(queue[s]).id \in Ids
    BY <1>2, <1>12 DEF TakeCancel, Kinds
  <2>2. LoopType'
    BY <1>0, <1>12, <2>1, LoopTyped DEF TakeCancel, Busy
  <2> QED
    BY <1>12, <2>1, <2>2 DEF TypeInv, TakeCancel, DropInbound
<1>13. CASE CancelledByPeer(s)
  <2>1. loop[s].id \in Ids
    BY <1>0, <1>13 DEF CancelledByPeer, Busy
  <2>2. LoopType'
    BY <1>0, <1>13, LoopTyped DEF CancelledByPeer, Busy
  <2> QED
    BY <1>13, <2>1, <2>2 DEF TypeInv, CancelledByPeer, DropOutbound
<1>14. CASE TakeFin(s)
  <2>1. LoopType'
    BY <1>0, <1>14, LoopTyped DEF TakeFin, Busy
  <2> QED
    BY <1>14, <2>1, TakeStep DEF TypeInv, TakeFin
<1> QED
  BY <1>1, <1>3, <1>4, <1>5, <1>6, <1>7, <1>8, <1>9, <1>10, <1>11, <1>12, <1>13, <1>14
     DEF LoopTask

LEMMA NextId ==
  ASSUME NEW n \in 1 .. MaxFiles + 1, n <= MaxFiles
  PROVE  n \in Ids /\ n + 1 \in 1 .. MaxFiles + 1
BY ConstantsAssumption DEF Ids

LEMMA TypeStep == TypeInv /\ [Next]_vars => TypeInv'
<1> SUFFICES ASSUME TypeInv, [Next]_vars PROVE TypeInv'
  OBVIOUS
<1> USE SetTyped, SessionKept DEF TypeInv, wire, session, sending, receiving, told
<1>1. CASE ConnectionLost
  <2>1. <<Fin>> \in Seq(Message)
    BY DEF Message
  <2> QED
    BY <1>1, <2>1 DEF ConnectionLost
<1>2. ASSUME NEW s \in Sides, Vanish(s) PROVE TypeInv'
  BY <1>2 DEF Vanish
<1>3. ASSUME NEW s \in Sides, SendFile(s) PROVE TypeInv'
  <2>1. next[s] \in Ids /\ next[s] + 1 \in 1 .. MaxFiles + 1
    <3>1. next[s] \in 1 .. MaxFiles + 1 /\ next[s] <= MaxFiles
      BY <1>3 DEF SendFile
    <3> QED
      BY <3>1, NextId
  <2>2. \A size \in 0 .. MaxChunks : [pc |-> "insert", size |-> size, offset |-> 0] \in Upload
    BY ConstantsAssumption DEF Upload
  <2>3. upload' \in Uploads
    <3>1. PICK size \in 0 .. MaxChunks :
            upload' = [upload EXCEPT ![s][next[s]] = [pc |-> "insert", size |-> size, offset |-> 0]]
      BY <1>3 DEF SendFile
    <3> QED
      BY <2>1, <2>2, <3>1, UploadTyped
  <2> QED
    BY <1>3, <2>1, <2>3 DEF SendFile
<1>4. ASSUME NEW s \in Sides, LoopTask(s) PROVE TypeInv'
  BY <1>4, TypeLoop
<1>5. ASSUME NEW s \in Sides, CancelInbound(s) PROVE TypeInv'
  <2>1. user[s].id \in Ids /\ user[s].hit \in BOOLEAN
    BY <1>5 DEF CancelInbound, UserType
  <2>2. UserType'
    BY <1>5, <2>1, UserTyped DEF CancelInbound
  <2> QED
    BY <1>5, <2>1, <2>2 DEF CancelInbound, DropInbound
<1>6. ASSUME NEW s \in Sides, TellCancelled(s) PROVE TypeInv'
  <2>1. user[s].id \in Ids
    BY <1>6 DEF TellCancelled, UserType
  <2>2. Control("cancel", user[s].id) \in Message
    BY <2>1 DEF Message, Kinds
  <2>3. queue' \in [Sides -> Seq(Message)]
    BY <1>6, <2>2, WriteStep DEF TellCancelled
  <2>4. UserType'
    BY <1>6, <2>1, UserTyped DEF TellCancelled
  <2> QED
    BY <1>6, <2>1, <2>3, <2>4 DEF TellCancelled
<1>7. ASSUME NEW s \in Sides, CloseBegins(s) PROVE TypeInv'
  BY <1>7 DEF CloseBegins, CloserAt
<1>8. ASSUME NEW s \in Sides, CloseSends(s) PROVE TypeInv'
  <2>1. queue' \in [Sides -> Seq(Message)]
    <3>1. Fin \in Message
      BY DEF Message
    <3> QED
      BY <1>8, <3>1, WriteStep DEF CloseSends
  <2> QED
    BY <1>8, <2>1 DEF CloseSends, CloserAt
<1>9. ASSUME NEW s \in Sides, CloseStream(s) \/ CloseInbounds(s) \/ CloseOutbounds(s)
      PROVE  TypeInv'
  <2>1. CASE CloseStream(s)
    BY <2>1 DEF CloseStream, CloserAt
  <2>2. CASE CloseInbounds(s)
    BY <2>2, SetsTyped DEF CloseInbounds, CloserAt
  <2>3. CASE CloseOutbounds(s)
    BY <2>3, SetsTyped DEF CloseOutbounds, CloserAt
  <2> QED
    BY <1>9, <2>1, <2>2, <2>3
<1>10. ASSUME NEW s \in Sides, NEW i \in Ids, UploadTask(s, i) PROVE TypeInv'
  BY <1>10, TypeUpload
<1>11. ASSUME NEW s \in Sides, NEW i \in Ids, Cancel(s, i) PROVE TypeInv'
  <2>1. cancels' \in 0 .. MaxCancels
    BY <1>11, ConstantsAssumption DEF Cancel
  <2>2. UserType'
    BY <1>11, CancelTyped
  <2> QED
    BY <1>11, <2>1, <2>2 DEF Cancel, DropOutbound
<1>12. CASE UNCHANGED vars
  BY <1>12 DEF vars
<1> QED
  BY <1>1, <1>2, <1>3, <1>4, <1>5, <1>6, <1>7, <1>8, <1>9, <1>10, <1>11, <1>12
     DEF Next, CancelTask, CloseTask

-----------------------------------------------------------------------------
(* Where a step leaves the uploads and the receive loops.                  *)

LEMMA LoopMoves ==
  ASSUME TypeInv, NEW s \in Sides, NEW pc, NEW i, LoopAt(s, pc, i)
  PROVE  \A q \in Sides : loop'[q] = IF q = s THEN [pc |-> pc, id |-> i] ELSE loop[q]
BY DEF TypeInv, LoopType, LoopAt

LEMMA UploadNumbers ==
  ASSUME TypeInv, NEW s \in Sides, NEW i \in Ids
  PROVE  /\ upload[s][i].offset \in Nat /\ upload[s][i].size \in Nat
         /\ upload[s][i].offset + 0 = upload[s][i].offset
<1>1. upload[s][i] \in Upload
  BY UploadTyped DEF TypeInv
<1> QED
  BY <1>1, ConstantsAssumption DEF Upload

PcMoves(s, i, pc) ==
  \A t \in Sides, j \in Ids :
    /\ upload'[t][j].pc = IF t = s /\ j = i THEN pc ELSE upload[t][j].pc
    /\ upload'[t][j].size = upload[t][j].size
    /\ upload'[t][j].offset = upload[t][j].offset

LEMMA UploadMoves ==
  ASSUME TypeInv, NEW s \in Sides, NEW i \in Ids, NEW from, NEW to, Goto(s, i, from, to)
  PROVE  upload[s][i].pc = from /\ PcMoves(s, i, to)
<1>1. upload \in Uploads
  BY DEF TypeInv
<1> QED
  BY <1>1 DEF Goto, PcMoves, Uploads, Upload

\* Upload i of s advances by n, and moves to another step.
Advance(s, i, n, pc) ==
  upload' = [upload EXCEPT ![s][i].offset = @ + n, ![s][i].pc = pc]

Advanced(s, i, n, pc) ==
  \A t \in Sides, j \in Ids :
    /\ upload'[t][j].pc = IF t = s /\ j = i THEN pc ELSE upload[t][j].pc
    /\ upload'[t][j].size = upload[t][j].size
    /\ upload'[t][j].offset = upload[t][j].offset + IF t = s /\ j = i THEN n ELSE 0

LEMMA UploadAdvances ==
  ASSUME upload \in Uploads, NEW s \in Sides, NEW i \in Ids, NEW n, NEW pc,
         Advance(s, i, n, pc)
  PROVE  Advanced(s, i, n, pc)
<1> DEFINE u == upload[s][i]
           v == [u EXCEPT !.offset = @ + n, !.pc = pc]
<1>1. u \in Upload /\ \A t \in Sides, j \in Ids : upload[t][j] \in Upload
  BY DEF Uploads
<1>2. v.pc = pc /\ v.offset = u.offset + n /\ v.size = u.size
  BY <1>1 DEF Upload
<1>3. upload'[s][i] = v
  BY DEF Advance, Uploads
<1>4. \A t \in Sides, j \in Ids : t # s \/ j # i => upload'[t][j] = upload[t][j]
  BY DEF Advance, Uploads
<1>5. \A t \in Sides, j \in Ids : upload[t][j].offset + 0 = upload[t][j].offset
  BY <1>1, ConstantsAssumption DEF Upload
<1> HIDE DEF u, v
<1>6. ASSUME NEW t \in Sides, NEW j \in Ids
      PROVE  /\ upload'[t][j].pc = IF t = s /\ j = i THEN pc ELSE upload[t][j].pc
             /\ upload'[t][j].size = upload[t][j].size
             /\ upload'[t][j].offset = upload[t][j].offset + IF t = s /\ j = i THEN n ELSE 0
  BY <1>2, <1>3, <1>4, <1>5 DEF u
<1> QED
  BY <1>6 DEF Advanced

\* What SendChunk writes, and where it leaves the upload.
ChunkGoes(s, i, n, e) ==
  LET u == upload[s][i] IN
  /\ e = IsEof(u.size, u.offset, n)
  /\ Write(s, Chunk(i, n, e))
  /\ open[s] => Advanced(s, i, n, IF e THEN "ack" ELSE "check")
  /\ ~open[s] => PcMoves(s, i, "done")
  /\ altered' = IF n = Due(u.size, u.offset) THEN altered ELSE Add(altered, s, i)

LEMMA ChunkSent ==
  ASSUME TypeInv, NEW s \in Sides, NEW i \in Ids, SendChunk(s, i)
  PROVE  /\ upload[s][i].pc = "chunk"
         /\ \E n \in {0, 1}, e \in BOOLEAN : ChunkGoes(s, i, n, e)
<1> DEFINE u == upload[s][i]
<1>1. upload \in Uploads /\ u.pc = "chunk"
  BY DEF TypeInv, SendChunk
<1>2. PICK n \in {0, 1} :
        /\ Write(s, [kind |-> "chunk", id |-> i, n |-> n, eof |-> IsEof(u.size, u.offset, n)])
        /\ altered' = IF n = Due(u.size, u.offset) THEN altered ELSE Add(altered, s, i)
        /\ open[s] => Advance(s, i, n, IF IsEof(u.size, u.offset, n) THEN "ack" ELSE "check")
        /\ ~open[s] => Goto(s, i, "chunk", "done")
  BY DEF SendChunk, Advance, Goto
<1> DEFINE e == IsEof(u.size, u.offset, n)
<1>3. e \in BOOLEAN
  BY DEF IsEof
<1>4. Write(s, Chunk(i, n, e))
  BY <1>2 DEF Chunk
<1>5. open[s] => Advanced(s, i, n, IF e THEN "ack" ELSE "check")
  <2> HIDE DEF e
  <2> QED
    BY <1>1, <1>2, UploadAdvances DEF e
<1>6. ~open[s] => PcMoves(s, i, "done")
  BY <1>2, UploadMoves
<1>7. ChunkGoes(s, i, n, e)
  BY <1>2, <1>4, <1>5, <1>6 DEF ChunkGoes
<1> HIDE DEF e
<1> QED
  BY <1>1, <1>2, <1>3, <1>7

-----------------------------------------------------------------------------
(* The right to become file i of r, and that it is never gained.           *)

At(s, pc, i) == loop[s].pc = pc /\ loop[s].id = i

\* A loop that goes elsewhere comes to no other step.
LEMMA LoopLeaves ==
  ASSUME TypeInv, NEW s \in Sides, NEW pc, NEW j, LoopAt(s, pc, j),
         NEW r \in Sides, NEW k, NEW i, k # pc \/ i # j \/ r # s
  PROVE  At(r, k, i)' => At(r, k, i)
<1>1. \A q \in Sides : loop'[q] = IF q = s THEN [pc |-> pc, id |-> j] ELSE loop[q]
  BY LoopMoves
<1> QED
  BY <1>1 DEF At

Unsent(s, i) == upload[s][i].pc \in {"none", "insert", "offer"}

\* Before the download is in the table, and from then on.
Pending(r, i) ==
  Bit(Unsent(Other(r), i)) + Controls(r, "offer", i) + Bit(At(r, "insert", i))
Held(r, i) ==
  Bit(i \in inbounds[r]) + Bit(At(r, "rename", i)) + Bit(i \in saved[r])
Token(r, i) == Pending(r, i) + Held(r, i)

Falls(r, i) == Pending(r, i)' <= Pending(r, i) /\ Token(r, i)' <= Token(r, i)

\* A number that has not been given out has no upload.
Fresh == \A s \in Sides : \A i \in Ids : i >= next[s] => upload[s][i].pc = "none"

LEMMA FreshStep == TypeInv /\ Fresh /\ [Next]_vars => Fresh'
<1> SUFFICES ASSUME TypeInv, Fresh, [Next]_vars PROVE Fresh'
  OBVIOUS
<1> USE DEF Fresh, wire, session, sending, receiving, told
<1>1. ASSUME NEW s \in Sides, SendFile(s) PROVE Fresh'
  <2>1. PICK size \in 0 .. MaxChunks :
          upload' = [upload EXCEPT ![s][next[s]] = [pc |-> "insert", size |-> size, offset |-> 0]]
    BY <1>1 DEF SendFile
  <2>2. next' = [next EXCEPT ![s] = @ + 1] /\ next \in [Sides -> 1 .. MaxFiles + 1]
    BY <1>1 DEF SendFile, TypeInv
  <2>3. \A t \in Sides, i \in Ids : i >= next'[t] => i >= next[t] /\ (t # s \/ i # next[s])
    BY <2>2, ConstantsAssumption DEF Ids
  <2>4. \A t \in Sides, i \in Ids : t # s \/ i # next[s] => upload'[t][i] = upload[t][i]
    BY <2>1 DEF TypeInv, Uploads
  <2> QED
    BY <2>3, <2>4
<1>2. ASSUME NEW s \in Sides, NEW i \in Ids, UploadTask(s, i) PROVE Fresh'
  <2>1. upload[s][i].pc # "none" /\ next' = next
    BY <1>2 DEF UploadTask, InsertOutbound, SendOffer, AwaitDecision, CheckCancelled,
                ReadFails, SendChunk, AwaitAck, Goto
  <2>2. \A t \in Sides, j \in Ids : t # s \/ j # i => upload'[t][j].pc = upload[t][j].pc
    <3>1. CASE SendChunk(s, i)
      BY <3>1, ChunkSent DEF ChunkGoes, Advanced, PcMoves
    <3>2. CASE ~SendChunk(s, i)
      <4>1. PICK from, to : Goto(s, i, from, to)
        BY <1>2, <3>2 DEF UploadTask, InsertOutbound, SendOffer, AwaitDecision,
                          CheckCancelled, ReadFails, AwaitAck, Goto
      <4> QED
        BY <4>1, UploadMoves DEF PcMoves
    <3> QED
      BY <3>1, <3>2
  <2> QED
    BY <2>1, <2>2
<1>3. ASSUME UNCHANGED <<next, upload>> PROVE Fresh'
  BY <1>3
<1>4. CASE UNCHANGED vars
  BY <1>3, <1>4 DEF vars
<1>5. CASE ConnectionLost
  BY <1>3, <1>5 DEF ConnectionLost
<1>6. ASSUME NEW s \in Sides, Vanish(s) \/ CancelTask(s) \/ CloseBegins(s) \/ CloseTask(s)
      PROVE  Fresh'
  BY <1>3, <1>6 DEF Vanish, CancelTask, CancelInbound, TellCancelled, CloseBegins, CloseTask,
                    CloseSends, CloseStream, CloseInbounds, CloseOutbounds
<1>7. ASSUME NEW s \in Sides, NEW i \in Ids, Cancel(s, i) PROVE Fresh'
  BY <1>3, <1>7 DEF Cancel
<1>8. ASSUME NEW s \in Sides, LoopTask(s) PROVE Fresh'
  BY <1>3, <1>8 DEF LoopTask, LoopRecv, LoopStops, TakeOffer, InsertInbound, SendDecision,
       TakeDecision, IgnoreChunk, WriteChunk, WriteChunkFails, Rename, SendAck, TakeAck,
       TakeCancel, CancelledByPeer, TakeFin
<1> QED
  BY <1>1, <1>2, <1>4, <1>5, <1>6, <1>7, <1>8 DEF Next

LEMMA TokenType ==
  ASSUME TypeInv, NEW r \in Sides, NEW i \in Ids
  PROVE  /\ Controls(r, "offer", i) \in Nat
         /\ Pending(r, i) \in Nat /\ Held(r, i) \in Nat /\ Token(r, i) \in Nat
<1>1. Controls(r, "offer", i) \in Nat
  BY CountsAreNat DEF Kinds
<1> QED
  BY <1>1 DEF Token, Pending, Held, Bit

\* No place gains the right.
NoGain(r, i) ==
  /\ Unsent(Other(r), i)' => Unsent(Other(r), i)
  /\ Controls(r, "offer", i)' <= Controls(r, "offer", i)
  /\ At(r, "insert", i)' => At(r, "insert", i)
  /\ (i \in inbounds[r])' => i \in inbounds[r]
  /\ At(r, "rename", i)' => At(r, "rename", i)
  /\ (i \in saved[r])' => i \in saved[r]

LEMMA NoGainFalls ==
  ASSUME TypeInv, TypeInv', NEW r \in Sides, NEW i \in Ids, NoGain(r, i)
  PROVE  Falls(r, i)
<1>1. Controls(r, "offer", i) \in Nat
  BY TokenType
<1>2. Controls(r, "offer", i)' \in Nat
  BY CountsAreNatNext DEF Kinds
<1>3. Bit(Unsent(Other(r), i))' <= Bit(Unsent(Other(r), i))
  BY DEF NoGain, Bit
<1> QED
  BY <1>1, <1>2, <1>3 DEF NoGain, Falls, Token, Pending, Held, Bit

LEMMA TokenUpload ==
  ASSUME TypeInv, TypeInv', NEW s \in Sides, NEW j \in Ids, UploadTask(s, j),
         NEW r \in Sides, NEW i \in Ids
  PROVE  Falls(r, i)
<1> DEFINE t == Other(r)
<1>0. t \in Sides /\ Other(t) = r
  BY OtherEnd
<1>1. UNCHANGED <<loop, inbounds, saved>>
  BY DEF UploadTask, InsertOutbound, SendOffer, AwaitDecision, CheckCancelled,
         ReadFails, SendChunk, AwaitAck, receiving, session
<1>2. CASE SendOffer(s, j)
  <2>1. /\ upload[s][j].pc = "offer" /\ Write(s, Control("offer", j))
        /\ PcMoves(s, j, IF open[s] THEN "decision" ELSE "done")
    BY <1>2, UploadMoves DEF SendOffer, Goto
  <2>2. Controls(r, "offer", i)' =
          Controls(r, "offer", i) + Bit(Reaches(s, r) /\ j = i)
    BY <2>1, WriteControl DEF Kinds
  <2>3. Controls(r, "offer", i) \in Nat
    BY TokenType
  <2>4. CASE t = s /\ j = i
    <3>1. Unsent(t, i) /\ ~Unsent(t, i)'
      BY <1>0, <2>1, <2>4 DEF Unsent, PcMoves
    <3> QED
      BY <1>1, <2>2, <2>3, <3>1 DEF Falls, Token, Pending, Held, Bit, At
  <2>5. CASE ~(t = s /\ j = i)
    <3>1. ~(Reaches(s, r) /\ j = i)
      BY <2>5, OtherEnd DEF Reaches
    <3>2. NoGain(r, i)
      BY <1>0, <1>1, <2>1, <2>2, <2>3, <2>5, <3>1 DEF NoGain, Unsent, At, PcMoves, Bit
    <3> QED
      BY <3>2, NoGainFalls
  <2> QED
    BY <2>4, <2>5
<1>3. CASE ~SendOffer(s, j)
  <2>1. Unsent(t, i)' => Unsent(t, i)
    <3>1. CASE SendChunk(s, j)
      BY <1>0, <3>1, ChunkSent DEF ChunkGoes, Advanced, PcMoves, Unsent
    <3>2. CASE InsertOutbound(s, j)
      <4>1. upload[s][j].pc = "insert" /\ PcMoves(s, j, "offer")
        BY <3>2, UploadMoves DEF InsertOutbound
      <4> QED
        BY <1>0, <4>1 DEF PcMoves, Unsent
    <3>3. CASE ~SendChunk(s, j) /\ ~InsertOutbound(s, j)
      <4>1. PICK from, to : Goto(s, j, from, to) /\ to \in {"check", "chunk", "done"}
        BY <1>3, <3>3 DEF UploadTask, AwaitDecision, CheckCancelled, ReadFails, AwaitAck, Goto
      <4>2. PcMoves(s, j, to)
        BY <4>1, UploadMoves
      <4> QED
        BY <1>0, <4>1, <4>2 DEF PcMoves, Unsent
    <3> QED
      BY <3>1, <3>2, <3>3
  <2>2. Controls(r, "offer", i)' <= Controls(r, "offer", i)
    <3>1. CASE SendChunk(s, j)
      BY <3>1, ChunkSent, WriteChunkCounts, TokenType DEF ChunkGoes, SameControls, Kinds
    <3>2. CASE ~SendChunk(s, j)
      <4>1. queue' = queue
        BY <1>3, <3>2 DEF UploadTask, InsertOutbound, AwaitDecision, CheckCancelled,
                          ReadFails, AwaitAck, wire
      <4> QED
        BY <4>1, SameCounts, TokenType DEF SameControls, Kinds
    <3> QED
      BY <3>1, <3>2
  <2> QED
    BY <1>1, <2>1, <2>2, NoGainFalls DEF NoGain, At
<1> QED
  BY <1>2, <1>3

LEMMA TokenLoop ==
  ASSUME TypeInv, TypeInv', NEW s \in Sides, LoopTask(s), NEW r \in Sides, NEW i \in Ids
  PROVE  Falls(r, i)
<1>0. Controls(r, "offer", i) \in Nat /\ Controls(r, "offer", i)' \in Nat
  BY TokenType, CountsAreNatNext DEF Kinds
<1>1. upload' = upload
  BY DEF LoopTask, LoopRecv, LoopStops, TakeOffer, InsertInbound, SendDecision,
       TakeDecision, IgnoreChunk, WriteChunk, WriteChunkFails, Rename, SendAck, TakeAck,
       TakeCancel, CancelledByPeer, TakeFin, sending
\* The loop leaves downloads alone and is not about to make one.
<1>2. ASSUME NEW pc \in {"idle", "recv", "ended", "ack", "uncancel"}, NEW j, LoopAt(s, pc, j),
             Controls(r, "offer", i)' <= Controls(r, "offer", i),
             inbounds'[r] \subseteq inbounds[r], saved' = saved
      PROVE  Falls(r, i)
  <2>1. \A q \in Sides : loop'[q] = IF q = s THEN [pc |-> pc, id |-> j] ELSE loop[q]
    BY <1>2, LoopMoves
  <2>2. NoGain(r, i)
    BY <1>1, <1>2, <2>1 DEF NoGain, Unsent, At
  <2> QED
    BY <2>2, NoGainFalls
<1>3. ASSUME queue' = queue PROVE Controls(r, "offer", i)' <= Controls(r, "offer", i)
  BY <1>0, <1>3, SameCounts DEF SameControls, Kinds
<1>4. CASE LoopRecv(s) \/ LoopStops(s) \/ CancelledByPeer(s)
  BY <1>2, <1>3, <1>4 DEF LoopRecv, LoopStops, CancelledByPeer, receiving, wire
<1>5. CASE SendDecision(s) \/ SendAck(s)
  <2>1. PICK k \in {"decision", "ack"} : Write(s, Control(k, loop[s].id))
    BY <1>5 DEF SendDecision, SendAck
  <2>2. loop[s].id \in Ids
    BY <1>5 DEF SendDecision, SendAck, TypeInv, LoopType, Busy
  <2>3. Controls(r, "offer", i)' = Controls(r, "offer", i)
    BY <1>0, <2>1, <2>2, WriteControl DEF Kinds, Bit
  <2> QED
    BY <1>0, <1>2, <1>5, <2>3 DEF SendDecision, SendAck, receiving
<1>6. CASE TakeDecision(s) \/ TakeAck(s) \/ TakeCancel(s)
  <2>1. PICK k \in {"decision", "ack", "cancel"} : Take(s, k)
    BY <1>6 DEF TakeDecision, TakeAck, TakeCancel
  <2>2. Controls(r, "offer", i) = Controls(r, "offer", i)'
    BY <1>0, <2>1, TakeControl DEF Kinds, Bit
  <2>3. inbounds'[r] \subseteq inbounds[r] /\ saved' = saved
    <3>1. inbounds' = inbounds \/ inbounds' = Drop(inbounds, s, Head(queue[s]).id)
      BY <1>6 DEF TakeDecision, TakeAck, TakeCancel, DropInbound, receiving
    <3>2. inbounds'[r] \subseteq inbounds[r]
      <4>1. inbounds \in Tables
        BY DEF TypeInv
      <4> QED
        BY <3>1, <4>1 DEF Drop, Tables
    <3>3. saved' = saved
      BY <1>6 DEF TakeDecision, TakeAck, TakeCancel, receiving
    <3> QED
      BY <3>2, <3>3
  <2> QED
    BY <1>0, <1>2, <1>6, <2>2, <2>3 DEF TakeDecision, TakeAck, TakeCancel
<1>7. CASE IgnoreChunk(s) \/ WriteChunkFails(s) \/ TakeFin(s)
  <2>1. Controls(r, "offer", i)' = Controls(r, "offer", i)
    BY <1>7, TakeChunk, TakeFinCounts
       DEF IgnoreChunk, WriteChunkFails, TakeFin, SameControls, Kinds
  <2> QED
    BY <1>0, <1>2, <1>7, <2>1 DEF IgnoreChunk, WriteChunkFails, TakeFin, receiving
<1>8. CASE TakeOffer(s)
  <2> DEFINE j == Head(queue[s]).id
  <2>1. Controls(r, "offer", i) = Controls(r, "offer", i)' + Bit(r = s /\ i = j)
    BY <1>8, TakeControl DEF TakeOffer, Kinds
  <2>2. UNCHANGED <<inbounds, saved>>
    BY <1>8 DEF TakeOffer
  <2>3. CASE LoopAt(s, "insert", j)
    <3>1. \A q \in Sides : loop'[q] = IF q = s THEN [pc |-> "insert", id |-> j] ELSE loop[q]
      BY <2>3, LoopMoves
    <3>2. At(r, "insert", i)' => At(r, "insert", i) \/ (r = s /\ i = j)
      BY <3>1 DEF At
    <3>3. At(r, "rename", i)' => At(r, "rename", i)
      BY <3>1 DEF At
    <3> QED
      BY <1>0, <1>1, <2>1, <2>2, <3>2, <3>3 DEF Falls, Token, Pending, Held, Bit, Unsent
  <2>4. CASE LoopAt(s, "idle", 0)
    BY <1>0, <1>2, <2>1, <2>2, <2>4 DEF Bit
  <2> QED
    BY <1>8, <2>3, <2>4 DEF TakeOffer
<1>9. CASE InsertInbound(s)
  <2> DEFINE j == loop[s].id
  <2>1. \A q \in Sides : loop'[q] = IF q = s THEN [pc |-> "decide", id |-> j] ELSE loop[q]
    BY <1>9, LoopMoves DEF InsertInbound
  <2>2. Controls(r, "offer", i)' = Controls(r, "offer", i)
    BY <1>9, SameCounts DEF InsertInbound, wire, SameControls, Kinds
  <2>3. /\ (i \in inbounds[r])' => i \in inbounds[r] \/ (r = s /\ i = j)
        /\ saved' = saved /\ loop[s].pc = "insert"
    BY <1>9 DEF InsertInbound, Add, TypeInv, Tables
  <2>4. At(r, "rename", i)' => At(r, "rename", i)
    BY <2>1 DEF At
  <2>5. At(r, "insert", i)' => At(r, "insert", i) /\ ~(r = s /\ i = j)
    BY <2>1 DEF At
  <2>6. r = s /\ i = j => At(r, "insert", i)
    BY <2>3 DEF At
  <2> QED
    BY <1>0, <1>1, <2>2, <2>3, <2>4, <2>5, <2>6 DEF Falls, Token, Pending, Held, Bit, Unsent
<1>10. CASE WriteChunk(s)
  <2> DEFINE c == Head(queue[s])
  <2>1. Controls(r, "offer", i)' = Controls(r, "offer", i)
    BY <1>10, TakeChunk DEF WriteChunk, SameControls, Kinds
  <2>2. saved' = saved /\ c.id \in inbounds[s]
    BY <1>10 DEF WriteChunk
  <2>3. CASE c.eof
    <3>1. \A q \in Sides : loop'[q] = IF q = s THEN [pc |-> "rename", id |-> c.id] ELSE loop[q]
      BY <1>10, <2>3, LoopMoves DEF WriteChunk
    <3>2. (i \in inbounds[r])' => i \in inbounds[r] /\ ~(r = s /\ i = c.id)
      BY <1>10, <2>3 DEF WriteChunk, Drop, TypeInv, Tables
    <3>3. At(r, "rename", i)' => At(r, "rename", i) \/ (r = s /\ i = c.id)
      BY <3>1 DEF At
    <3>4. At(r, "insert", i)' => At(r, "insert", i)
      BY <3>1 DEF At
    <3> QED
      BY <1>0, <1>1, <2>1, <2>2, <3>2, <3>3, <3>4 DEF Falls, Token, Pending, Held, Bit, Unsent
  <2>4. CASE ~c.eof
    BY <1>0, <1>2, <1>10, <2>1, <2>4 DEF WriteChunk
  <2> QED
    BY <2>3, <2>4
<1>11. CASE Rename(s)
  <2> DEFINE j == loop[s].id
  <2>1. Controls(r, "offer", i)' = Controls(r, "offer", i)
    BY <1>11, SameCounts DEF Rename, wire, SameControls, Kinds
  <2>2. PICK pc \in {"ack", "idle"}, k \in {0, j} :
          \A q \in Sides : loop'[q] = IF q = s THEN [pc |-> pc, id |-> k] ELSE loop[q]
    <3>1. LoopAt(s, "ack", j) \/ LoopAt(s, "idle", 0)
      BY <1>11 DEF Rename
    <3> QED
      BY <3>1, LoopMoves
  <2>3. /\ inbounds' = inbounds /\ loop[s].pc = "rename"
        /\ (i \in saved[r])' => i \in saved[r] \/ (r = s /\ i = j)
    <3>1. saved' = saved \/ saved' = Add(saved, s, j)
      BY <1>11 DEF Rename
    <3>2. (i \in saved[r])' => i \in saved[r] \/ (r = s /\ i = j)
      BY <3>1 DEF Add, TypeInv, Tables
    <3> QED
      BY <1>11, <3>2 DEF Rename
  <2>4. At(r, "insert", i)' => At(r, "insert", i)
    BY <2>2 DEF At
  <2>5. At(r, "rename", i)' => At(r, "rename", i) /\ ~(r = s /\ i = j)
    BY <2>2 DEF At
  <2>6. r = s /\ i = j => At(r, "rename", i)
    BY <2>3 DEF At
  <2> QED
    BY <1>0, <1>1, <2>1, <2>3, <2>4, <2>5, <2>6 DEF Falls, Token, Pending, Held, Bit, Unsent
<1> QED
  BY <1>4, <1>5, <1>6, <1>7, <1>8, <1>9, <1>10, <1>11 DEF LoopTask

LEMMA TokenStep ==
  ASSUME TypeInv, TypeInv', Fresh, [Next]_vars, NEW r \in Sides, NEW i \in Ids
  PROVE  Falls(r, i)
<1>0. Controls(r, "offer", i) \in Nat /\ Controls(r, "offer", i)' \in Nat
  BY TokenType, CountsAreNatNext DEF Kinds
<1> USE DEF wire, session, sending, receiving, told
<1>1. CASE ConnectionLost
  <2>1. Controls(r, "offer", i)' = 0
    BY <1>1, LostCounts DEF Kinds
  <2> QED
    BY <1>0, <1>1, <2>1, NoGainFalls DEF ConnectionLost, NoGain, Unsent, At
<1>2. ASSUME queue' = queue, UNCHANGED <<upload, loop, saved>>, inbounds'[r] \subseteq inbounds[r]
      PROVE  Falls(r, i)
  <2>1. Controls(r, "offer", i)' = Controls(r, "offer", i)
    BY <1>2, SameCounts DEF SameControls, Kinds
  <2> QED
    BY <1>0, <1>2, <2>1, NoGainFalls DEF NoGain, Unsent, At
<1>3. ASSUME NEW s \in Sides,
             Vanish(s) \/ CloseBegins(s) \/ CloseStream(s) \/ CloseOutbounds(s)
               \/ \E j \in Ids : Cancel(s, j)
      PROVE  Falls(r, i)
  BY <1>2, <1>3 DEF Vanish, CloseBegins, CloseStream, CloseOutbounds, Cancel
<1>4. ASSUME NEW s \in Sides, CancelInbound(s) \/ CloseInbounds(s)
      PROVE  Falls(r, i)
  <2>1. inbounds \in Tables
    BY DEF TypeInv
  <2>2. inbounds' = Drop(inbounds, s, user[s].id) \/ inbounds' = [inbounds EXCEPT ![s] = {}]
    BY <1>4 DEF CancelInbound, DropInbound, CloseInbounds
  <2>3. inbounds'[r] \subseteq inbounds[r]
    BY <2>1, <2>2 DEF Drop, Tables
  <2> QED
    BY <1>2, <1>4, <2>3 DEF CancelInbound, CloseInbounds
<1>5. ASSUME NEW s \in Sides, TellCancelled(s) \/ CloseSends(s)
      PROVE  Falls(r, i)
  <2>1. Controls(r, "offer", i)' = Controls(r, "offer", i)
    <3>1. CASE TellCancelled(s)
      <4>1. user[s].id \in Ids /\ Write(s, Control("cancel", user[s].id))
        BY <3>1 DEF TellCancelled, TypeInv, UserType
      <4> QED
        BY <1>0, <4>1, WriteControl DEF Kinds, Bit
    <3>2. CASE CloseSends(s)
      BY <3>2, WriteFin DEF CloseSends, SameControls, Kinds
    <3> QED
      BY <1>5, <3>1, <3>2
  <2>2. UNCHANGED <<upload, loop, inbounds, saved>>
    BY <1>5 DEF TellCancelled, CloseSends
  <2> QED
    BY <1>0, <2>1, <2>2, NoGainFalls DEF NoGain, Unsent, At
<1>6. ASSUME NEW s \in Sides, SendFile(s) PROVE Falls(r, i)
  <2>1. PICK size \in 0 .. MaxChunks :
          upload' = [upload EXCEPT ![s][next[s]] = [pc |-> "insert", size |-> size, offset |-> 0]]
    BY <1>6 DEF SendFile
  <2>2. next[s] \in Ids
    BY <1>6, ConstantsAssumption DEF SendFile, TypeInv, Ids
  <2>3. \A t \in Sides, j \in Ids :
          t # s \/ j # next[s] => upload'[t][j] = upload[t][j]
    BY <2>1 DEF TypeInv, Uploads
  <2>4. upload[s][next[s]].pc = "none"
    BY <2>2, ConstantsAssumption DEF Fresh, Ids
  <2>5. Other(r) \in Sides
    BY OtherEnd
  <2>6. Unsent(Other(r), i)' => Unsent(Other(r), i)
    BY <2>3, <2>4, <2>5 DEF Unsent
  <2>7. Controls(r, "offer", i)' = Controls(r, "offer", i)
    BY <1>6, SameCounts DEF SendFile, SameControls, Kinds
  <2> QED
    BY <1>0, <1>6, <2>6, <2>7, NoGainFalls DEF SendFile, NoGain, At
<1>7. CASE UNCHANGED vars
  BY <1>2, <1>7 DEF vars
<1> QED
  BY <1>1, <1>3, <1>4, <1>5, <1>6, <1>7, TokenLoop, TokenUpload DEF Next, CancelTask, CloseTask

OneToken == \A r \in Sides : \A i \in Ids : Token(r, i) <= 1

\* The loop holds the reading lock only while there is something to read, and
\* close is under way only once the session is marked closed.
Phases ==
  \A s \in Sides : /\ loop[s].pc = "recv" => Readable(s)
                   /\ ~closed[s] => closer[s] = "none"

LEMMA PhasesStep == TypeInv /\ Phases /\ [Next]_vars => Phases'
<1> SUFFICES ASSUME TypeInv, Phases, [Next]_vars PROVE Phases'
  OBVIOUS
<1> USE DEF Phases, Readable
<1>0. /\ closed \in [Sides -> BOOLEAN] /\ DOMAIN closer = Sides
      /\ loop \in [Sides -> [pc: {"idle", "recv", "ended"} \cup Busy, id: {0} \cup Ids]]
  BY DEF TypeInv, LoopType
<1>1. ASSUME UNCHANGED <<closed, closer, loop>> PROVE Phases'
  BY <1>1
<1>2. CASE ConnectionLost \/ UNCHANGED vars
  BY <1>1, <1>2 DEF ConnectionLost, vars, session
<1>3. ASSUME NEW s \in Sides,
             Vanish(s) \/ SendFile(s) \/ CancelTask(s)
               \/ \E i \in Ids : UploadTask(s, i) \/ Cancel(s, i)
      PROVE  Phases'
  BY <1>1, <1>3 DEF Vanish, SendFile, CancelTask, CancelInbound, TellCancelled, Cancel,
       UploadTask, InsertOutbound, SendOffer, AwaitDecision, CheckCancelled, ReadFails,
       SendChunk, AwaitAck, session
<1>4. ASSUME NEW s \in Sides, CloseBegins(s) PROVE Phases'
  BY <1>0, <1>4 DEF CloseBegins, CloserAt
<1>5. ASSUME NEW s \in Sides, CloseTask(s) PROVE Phases'
  <2>1. PICK from, to : /\ CloserAt(s, from, to) /\ UNCHANGED <<closed, loop>>
                        /\ from # "none"
                        /\ loop[s].pc = "recv" => to = "stream" \/ ~(from \in {"send", "stream"})
    BY <1>5 DEF CloseTask, CloseSends, CloseStream, CloseInbounds, CloseOutbounds
  <2> QED
    BY <1>0, <2>1 DEF CloserAt
<1>6. ASSUME NEW s \in Sides, LoopTask(s) PROVE Phases'
  <2>1. CASE TakeFin(s)
    BY <1>0, <2>1 DEF TakeFin, LoopAt, Take
  <2>2. CASE ~TakeFin(s)
    <3>1. PICK pc, i : /\ LoopAt(s, pc, i) /\ UNCHANGED <<closed, closer>>
                       /\ pc = "recv" => closer[s] \in {"none", "send"}
      BY <1>6, <2>2 DEF LoopTask, LoopRecv, LoopStops, TakeOffer, InsertInbound, SendDecision,
           TakeDecision, IgnoreChunk, WriteChunk, WriteChunkFails, Rename, SendAck, TakeAck,
           TakeCancel, CancelledByPeer
    <3> QED
      BY <1>0, <3>1 DEF LoopAt
  <2> QED
    BY <2>1, <2>2
<1> QED
  BY <1>2, <1>3, <1>4, <1>5, <1>6 DEF Next

-----------------------------------------------------------------------------
(* No chunk is sent before the download it belongs to is in the table.     *)

\* End r has accepted, or is about to say so.
Answered(r, i) ==
  i \in decided[Other(r)] \/ Controls(Other(r), "decision", i) > 0 \/ At(r, "decide", i)

Started(s, i) ==
  \/ upload[s][i].offset > 0 \/ upload[s][i].pc \in {"check", "chunk", "ack"}
  \/ Chunks(Other(s), i) > 0

AnsweredOnce   == \A r \in Sides : \A i \in Ids : Answered(r, i) => Pending(r, i) = 0
StartedDecided == \A s \in Sides : \A i \in Ids : Started(s, i) => i \in decided[s]

\* An answer comes from the insertion into the table, and from nothing else.
LEMMA AnsweredStep ==
  ASSUME TypeInv, TypeInv', [Next]_vars, NEW r \in Sides, NEW i \in Ids, Answered(r, i)'
  PROVE  Answered(r, i) \/ (i \in inbounds[r])'
<1> DEFINE t == Other(r)
<1>0. /\ t \in Sides /\ Other(t) = r /\ r # t
      /\ Controls(t, "decision", i) \in Nat /\ Controls(t, "decision", i)' \in Nat
  BY OtherEnd, CountsAreNat, CountsAreNatNext DEF Kinds
<1> HIDE DEF t
<1>1. ASSUME (i \in decided[t])' => i \in decided[t],
             Controls(t, "decision", i)' <= Controls(t, "decision", i),
             At(r, "decide", i)' => At(r, "decide", i)
      PROVE  Answered(r, i)
  BY <1>0, <1>1 DEF Answered, t
<1>2. ASSUME queue' = queue
      PROVE  Controls(t, "decision", i)' <= Controls(t, "decision", i)
  BY <1>0, <1>2, SameCounts DEF SameControls, Kinds
<1>3. CASE ConnectionLost
  <2>1. Controls(t, "decision", i)' = 0
    BY <1>0, <1>3, LostCounts DEF Kinds
  <2> QED
    BY <1>0, <1>1, <1>3, <2>1 DEF ConnectionLost, session, sending, At
<1>4. ASSUME NEW s \in Sides,
             Vanish(s) \/ SendFile(s) \/ CancelInbound(s) \/ CloseBegins(s)
               \/ CloseStream(s) \/ CloseInbounds(s) \/ CloseOutbounds(s)
               \/ \E j \in Ids : Cancel(s, j)
      PROVE  Answered(r, i)
  BY <1>1, <1>2, <1>4 DEF Vanish, SendFile, CancelInbound, CloseBegins, CloseStream,
       CloseInbounds, CloseOutbounds, Cancel, At, wire, session, sending
<1>5. ASSUME NEW s \in Sides, TellCancelled(s) \/ CloseSends(s)
      PROVE  Answered(r, i)
  <2>1. Controls(t, "decision", i)' <= Controls(t, "decision", i)
    <3>1. CASE TellCancelled(s)
      <4>1. user[s].id \in Ids /\ Write(s, Control("cancel", user[s].id))
        BY <3>1 DEF TellCancelled, TypeInv, UserType
      <4> QED
        BY <1>0, <4>1, WriteControl DEF Kinds, Bit
    <3>2. CASE CloseSends(s)
      BY <1>0, <3>2, WriteFin DEF CloseSends, SameControls, Kinds
    <3> QED
      BY <1>5, <3>1, <3>2
  <2> QED
    BY <1>1, <1>5, <2>1 DEF TellCancelled, CloseSends, At, sending
<1>6. ASSUME NEW s \in Sides, NEW j \in Ids, UploadTask(s, j) PROVE Answered(r, i)
  <2>1. Controls(t, "decision", i)' <= Controls(t, "decision", i)
    <3>1. CASE SendOffer(s, j)
      BY <1>0, <3>1, WriteControl DEF SendOffer, Kinds, Bit
    <3>2. CASE SendChunk(s, j)
      BY <1>0, <3>2, ChunkSent, WriteChunkCounts DEF ChunkGoes, SameControls, Kinds
    <3>3. CASE ~SendOffer(s, j) /\ ~SendChunk(s, j)
      BY <1>2, <1>6, <3>3 DEF UploadTask, InsertOutbound, AwaitDecision, CheckCancelled,
                              ReadFails, AwaitAck, wire
    <3> QED
      BY <3>1, <3>2, <3>3
  <2> QED
    BY <1>1, <1>6, <2>1 DEF UploadTask, InsertOutbound, SendOffer, AwaitDecision,
         CheckCancelled, ReadFails, SendChunk, AwaitAck, session, At
<1>7. ASSUME NEW s \in Sides, LoopTask(s) PROVE Answered(r, i) \/ (i \in inbounds[r])'
  <2>1. CASE InsertInbound(s)
    <3>1. \A q \in Sides :
            loop'[q] = IF q = s THEN [pc |-> "decide", id |-> loop[s].id] ELSE loop[q]
      BY <2>1, LoopMoves DEF InsertInbound
    <3>2. CASE r = s /\ loop[s].id = i
      <4>1. inbounds \in Tables /\ inbounds' = Add(inbounds, s, loop[s].id)
        BY <2>1 DEF InsertInbound, TypeInv
      <4> QED
        BY <3>2, <4>1 DEF Add, Tables
    <3>3. CASE ~(r = s /\ loop[s].id = i)
      BY <1>1, <1>2, <2>1, <3>1, <3>3 DEF InsertInbound, At, wire, sending
    <3> QED
      BY <3>2, <3>3
  <2>2. CASE SendDecision(s)
    <3>1. loop[s].id \in Ids /\ Write(s, Control("decision", loop[s].id)) /\ decided' = decided
      BY <2>2 DEF SendDecision, TypeInv, LoopType, Busy, sending
    <3>2. Controls(t, "decision", i)' =
            Controls(t, "decision", i) + Bit(Reaches(s, t) /\ i = loop[s].id)
      BY <1>0, <3>1, WriteControl DEF Kinds
    <3>3. Reaches(s, t) => s = r
      BY <1>0, OtherEnd DEF Reaches
    <3>4. s = r /\ i = loop[s].id => At(r, "decide", i)
      BY <2>2 DEF SendDecision, At
    <3>5. At(r, "decide", i)' => At(r, "decide", i)
      BY <2>2, LoopLeaves DEF SendDecision
    <3> QED
      BY <1>0, <3>1, <3>2, <3>3, <3>4, <3>5 DEF Answered, Bit, t
  <2>3. CASE TakeDecision(s)
    <3> DEFINE k == Head(queue[s]).id
    <3>1. Controls(t, "decision", i) = Controls(t, "decision", i)' + Bit(t = s /\ i = k)
      BY <1>0, <2>3, TakeControl DEF TakeDecision, Kinds
    <3>2. (i \in decided[t])' => i \in decided[t] \/ (t = s /\ i = k)
      <4>1. decided \in Tables /\ (decided' = decided \/ decided' = Add(decided, s, k))
        BY <2>3 DEF TakeDecision, TypeInv
      <4> QED
        BY <1>0, <4>1 DEF Add, Tables
    <3>3. At(r, "decide", i)' => At(r, "decide", i)
      BY <2>3, LoopLeaves DEF TakeDecision
    <3> QED
      BY <1>0, <3>1, <3>2, <3>3 DEF Answered, Bit, t
  <2>4. ASSUME NEW pc, NEW j, LoopAt(s, pc, j), pc # "decide", decided' = decided,
               Controls(t, "decision", i)' <= Controls(t, "decision", i)
        PROVE  Answered(r, i)
    <3>1. At(r, "decide", i)' => At(r, "decide", i)
      BY <2>4, LoopLeaves
    <3> QED
      BY <1>1, <2>4, <3>1
  <2>5. CASE LoopRecv(s) \/ LoopStops(s) \/ Rename(s) \/ CancelledByPeer(s)
    <3>1. Controls(t, "decision", i)' <= Controls(t, "decision", i)
      BY <1>2, <2>5 DEF LoopRecv, LoopStops, Rename, CancelledByPeer, wire
    <3> QED
      BY <2>4, <2>5, <3>1 DEF LoopRecv, LoopStops, Rename, CancelledByPeer, sending
  <2>6. CASE SendAck(s)
    <3>1. loop[s].id \in Ids /\ Write(s, Control("ack", loop[s].id))
      BY <2>6 DEF SendAck, TypeInv, LoopType, Busy
    <3>2. Controls(t, "decision", i)' <= Controls(t, "decision", i)
      BY <1>0, <3>1, WriteControl DEF Kinds, Bit
    <3> QED
      BY <2>4, <2>6, <3>2 DEF SendAck, sending
  <2>7. CASE TakeOffer(s) \/ TakeAck(s) \/ TakeCancel(s)
    <3>1. PICK k \in {"offer", "ack", "cancel"} : Take(s, k)
      BY <2>7 DEF TakeOffer, TakeAck, TakeCancel
    <3>2. Controls(t, "decision", i)' <= Controls(t, "decision", i)
      BY <1>0, <3>1, TakeControl DEF Kinds, Bit
    <3> QED
      BY <2>4, <2>7, <3>2 DEF TakeOffer, TakeAck, TakeCancel, sending
  <2>8. CASE IgnoreChunk(s) \/ WriteChunk(s) \/ WriteChunkFails(s) \/ TakeFin(s)
    <3>1. Controls(t, "decision", i)' <= Controls(t, "decision", i)
      BY <1>0, <2>8, TakeChunk, TakeFinCounts
         DEF IgnoreChunk, WriteChunk, WriteChunkFails, TakeFin, SameControls, Kinds
    <3> QED
      BY <2>4, <2>8, <3>1 DEF IgnoreChunk, WriteChunk, WriteChunkFails, TakeFin, sending
  <2> QED
    BY <1>7, <2>1, <2>2, <2>3, <2>5, <2>6, <2>7, <2>8 DEF LoopTask
<1>8. CASE UNCHANGED vars
  BY <1>1, <1>2, <1>8 DEF vars, wire, session, sending, At
<1> QED
  BY <1>3, <1>4, <1>5, <1>6, <1>7, <1>8 DEF Next, CancelTask, CloseTask

LEMMA DecidedStays ==
  ASSUME TypeInv, [Next]_vars, NEW s \in Sides
  PROVE  decided[s] \subseteq decided'[s]
<1>1. decided \in Tables
  BY DEF TypeInv
<1>2. decided' = decided \/ \E q \in Sides : \E i : decided' = Add(decided, q, i)
  <2>1. ASSUME NEW q \in Sides, LoopTask(q)
        PROVE  decided' = decided \/ \E i : decided' = Add(decided, q, i)
    BY <2>1 DEF LoopTask, LoopRecv, LoopStops, TakeOffer, InsertInbound, SendDecision,
       TakeDecision, IgnoreChunk, WriteChunk, WriteChunkFails, Rename, SendAck, TakeAck,
       TakeCancel, CancelledByPeer, TakeFin, sending
  <2>2. ASSUME NEW q \in Sides, NEW i \in Ids, UploadTask(q, i) \/ Cancel(q, i)
        PROVE  decided' = decided
    BY <2>2 DEF UploadTask, InsertOutbound, SendOffer, AwaitDecision, CheckCancelled,
       ReadFails, SendChunk, AwaitAck, Cancel
  <2>3. ASSUME NEW q \in Sides,
               Vanish(q) \/ SendFile(q) \/ CancelTask(q) \/ CloseBegins(q) \/ CloseTask(q)
        PROVE  decided' = decided
    BY <2>3 DEF Vanish, SendFile, CancelTask, CancelInbound, TellCancelled, CloseBegins,
       CloseTask, CloseSends, CloseStream, CloseInbounds, CloseOutbounds, sending
  <2>4. CASE ConnectionLost \/ UNCHANGED vars
    BY <2>4 DEF ConnectionLost, vars, sending
  <2> QED
    BY <2>1, <2>2, <2>3, <2>4 DEF Next
<1> QED
  BY <1>1, <1>2 DEF Add, Tables

\* How the offset, the step and the chunks on the way of an upload come to be.
LEMMA StartedStep ==
  ASSUME TypeInv, TypeInv', Fresh, StartedDecided, [Next]_vars
  PROVE  StartedDecided'
<1> SUFFICES ASSUME NEW s \in Sides, NEW i \in Ids, Started(s, i)' PROVE i \in decided'[s]
  BY DEF StartedDecided
<1> DEFINE r == Other(s)
<1>0. /\ r \in Sides /\ r # s /\ Other(r) = s
      /\ Chunks(r, i) \in Nat /\ Chunks(r, i)' \in Nat
      /\ decided[s] \subseteq decided'[s] /\ (Started(s, i) => i \in decided[s])
  BY OtherEnd, CountsAreNat, CountsAreNatNext, DecidedStays DEF StartedDecided
<1> HIDE DEF r
<1>1. ASSUME Chunks(r, i)' <= Chunks(r, i), upload'[s][i].offset = upload[s][i].offset,
             upload'[s][i].pc \in {"check", "chunk", "ack"} =>
               upload[s][i].pc \in {"check", "chunk", "ack"} \/ i \in decided[s]
      PROVE  i \in decided'[s]
  BY <1>0, <1>1 DEF Started, r
<1>2. ASSUME Chunks(r, i)' <= Chunks(r, i), upload' = upload PROVE i \in decided'[s]
  BY <1>1, <1>2
<1>3. ASSUME queue' = queue PROVE Chunks(r, i)' <= Chunks(r, i)
  BY <1>0, <1>3, SameCounts DEF SameChunks
<1>4. CASE ConnectionLost
  BY <1>0, <1>2, <1>4, LostCounts DEF ConnectionLost, sending
<1>5. ASSUME NEW q \in Sides,
             Vanish(q) \/ CancelTask(q) \/ CloseBegins(q) \/ CloseTask(q)
               \/ \E j \in Ids : Cancel(q, j)
      PROVE  i \in decided'[s]
  <2>1. Chunks(r, i)' <= Chunks(r, i)
    <3>1. CASE TellCancelled(q)
      <4>1. user[q].id \in Ids /\ Write(q, Control("cancel", user[q].id))
        BY <3>1 DEF TellCancelled, TypeInv, UserType
      <4> QED
        BY <1>0, <4>1, WriteControl DEF Kinds, SameChunks
    <3>2. CASE CloseSends(q)
      BY <1>0, <3>2, WriteFin DEF CloseSends, SameChunks
    <3>3. CASE ~TellCancelled(q) /\ ~CloseSends(q)
      BY <1>3, <1>5, <3>3 DEF Vanish, CancelTask, CancelInbound, CloseBegins, CloseTask,
           CloseStream, CloseInbounds, CloseOutbounds, Cancel, wire
    <3> QED
      BY <3>1, <3>2, <3>3
  <2>2. upload' = upload
    BY <1>5 DEF Vanish, CancelTask, CancelInbound, TellCancelled, CloseBegins, CloseTask,
       CloseSends, CloseStream, CloseInbounds, CloseOutbounds, Cancel, sending
  <2> QED
    BY <1>2, <2>1, <2>2
<1>6. ASSUME NEW q \in Sides, SendFile(q) PROVE i \in decided'[s]
  <2>1. PICK size \in 0 .. MaxChunks :
          upload' = [upload EXCEPT ![q][next[q]] = [pc |-> "insert", size |-> size, offset |-> 0]]
    BY <1>6 DEF SendFile
  <2>2. upload \in Uploads
    BY DEF TypeInv
  <2>3. \/ upload'[s][i] = upload[s][i]
        \/ upload'[s][i] = [pc |-> "insert", size |-> size, offset |-> 0]
    BY <2>1, <2>2 DEF Uploads
  <2>4. Chunks(r, i)' <= Chunks(r, i)
    BY <1>3, <1>6 DEF SendFile, wire
  <2> QED
    BY <1>0, <2>3, <2>4 DEF Started, r
<1>7. ASSUME NEW q \in Sides, NEW j \in Ids, UploadTask(q, j) PROVE i \in decided'[s]
  <2>1. CASE SendChunk(q, j)
    <3>1. CASE q = s /\ j = i
      BY <1>0, <2>1, <3>1, ChunkSent DEF ChunkGoes, Started
    <3>2. CASE ~(q = s /\ j = i)
      <4>1. ~Reaches(q, r) \/ j # i
        BY <1>0, <3>2, OtherEnd DEF Reaches
      <4>2. Chunks(r, i)' <= Chunks(r, i)
        BY <1>0, <2>1, <4>1, ChunkSent, WriteChunkCounts DEF ChunkGoes, Bit
      <4>3. upload'[s][i].offset = upload[s][i].offset /\ upload'[s][i].pc = upload[s][i].pc
        <5>1. upload[s][i].offset + 0 = upload[s][i].offset
          BY UploadNumbers
        <5> QED
          BY <2>1, <3>2, <5>1, ChunkSent DEF ChunkGoes, Advanced, PcMoves
      <4> QED
        BY <1>1, <4>2, <4>3
    <3> QED
      BY <3>1, <3>2
  <2>2. CASE ~SendChunk(q, j)
    <3>1. Chunks(r, i)' <= Chunks(r, i)
      <4>1. CASE SendOffer(q, j)
        BY <1>0, <4>1, WriteControl DEF SendOffer, Kinds, SameChunks
      <4>2. CASE ~SendOffer(q, j)
        BY <1>3, <1>7, <2>2, <4>2 DEF UploadTask, InsertOutbound, AwaitDecision,
             CheckCancelled, ReadFails, AwaitAck, wire
      <4> QED
        BY <4>1, <4>2
    <3>2. PICK from, to : /\ Goto(q, j, from, to)
                          /\ to \in {"check", "chunk", "ack"} =>
                               j \in decided[q] \/ from \in {"check", "chunk", "ack"}
      BY <1>7, <2>2 DEF UploadTask, InsertOutbound, SendOffer, AwaitDecision, CheckCancelled,
           ReadFails, AwaitAck, Goto
    <3>3. PcMoves(q, j, to) /\ upload[q][j].pc = from
      BY <3>2, UploadMoves
    <3> QED
      BY <1>1, <3>1, <3>2, <3>3 DEF PcMoves
  <2> QED
    BY <2>1, <2>2
<1>8. ASSUME NEW q \in Sides, LoopTask(q) PROVE i \in decided'[s]
  <2>1. upload' = upload
    BY <1>8 DEF LoopTask, LoopRecv, LoopStops, TakeOffer, InsertInbound, SendDecision,
       TakeDecision, IgnoreChunk, WriteChunk, WriteChunkFails, Rename, SendAck, TakeAck,
       TakeCancel, CancelledByPeer, TakeFin, sending
  <2>2. Chunks(r, i)' <= Chunks(r, i)
    <3>1. CASE LoopRecv(q) \/ LoopStops(q) \/ InsertInbound(q) \/ Rename(q) \/ CancelledByPeer(q)
      BY <1>3, <3>1 DEF LoopRecv, LoopStops, InsertInbound, Rename, CancelledByPeer, wire
    <3>2. CASE SendDecision(q) \/ SendAck(q)
      <4>1. PICK k \in Kinds : Write(q, Control(k, loop[q].id)) /\ loop[q].id \in Ids
        BY <3>2 DEF SendDecision, SendAck, Kinds, TypeInv, LoopType, Busy
      <4> QED
        BY <1>0, <4>1, WriteControl DEF SameChunks
    <3>3. CASE TakeOffer(q) \/ TakeDecision(q) \/ TakeAck(q) \/ TakeCancel(q)
      <4>1. PICK k \in Kinds : Take(q, k)
        BY <3>3 DEF TakeOffer, TakeDecision, TakeAck, TakeCancel, Kinds
      <4> QED
        BY <1>0, <4>1, TakeControl DEF SameChunks
    <3>4. CASE IgnoreChunk(q) \/ WriteChunk(q) \/ WriteChunkFails(q)
      <4>1. Take(q, "chunk")
        BY <3>4 DEF IgnoreChunk, WriteChunk, WriteChunkFails
      <4> QED
        BY <1>0, <4>1, TakeChunk DEF Bit
    <3>5. CASE TakeFin(q)
      BY <1>0, <3>5, TakeFinCounts DEF TakeFin, SameChunks
    <3> QED
      BY <1>8, <3>1, <3>2, <3>3, <3>4, <3>5 DEF LoopTask
  <2> QED
    BY <1>2, <2>1, <2>2
<1>9. CASE UNCHANGED vars
  BY <1>2, <1>3, <1>9 DEF vars, wire, sending
<1> QED
  BY <1>4, <1>5, <1>6, <1>7, <1>8, <1>9 DEF Next

-----------------------------------------------------------------------------
(* The chunks of a file: sent, on their way, and written.                  *)

\* The last chunk is on its way, or has been written.
Ending(r, i) == Lasts(r, i) > 0 \/ At(r, "rename", i) \/ i \in saved[r]

Flow(r, i) ==
  LET u == upload[Other(r)][i]
      arrived == got[r][i] + Units(r, i)
      exact == i \notin altered[Other(r)]
  IN
  /\ arrived <= u.offset
  /\ exact => u.offset <= u.size
  \* Nothing is missing as long as r can read and the other end can write,
  /\ i \in inbounds[r] /\ i \notin spoiled[r] /\ open[Other(r)] /\ Readable(r) =>
       arrived = u.offset
  \* and ever after once the last chunk is on its way.
  /\ i \in inbounds[r] /\ i \notin spoiled[r] /\ Lasts(r, i) > 0 => arrived = u.offset
  /\ Ending(r, i) => u.pc \in {"ack", "done"} /\ (exact => u.offset = u.size)
  /\ (At(r, "rename", i) \/ i \in saved[r]) /\ i \notin spoiled[r] => got[r][i] = u.offset

\* The last chunk of a file has none of its chunks behind it.
LastEnds(r, i) ==
  \A m, n \in DOMAIN queue[r] :
    m < n /\ queue[r][m] \in LastChunks(i) => queue[r][n] \notin AllChunks(i)

\* A step that neither sends, writes nor loses a chunk of a download in the table.
KeepsFlow(r, i) ==
  LET u == upload[Other(r)][i] IN
  /\ u'.offset = u.offset /\ u'.size = u.size
  /\ u.pc \in {"ack", "done"} => u'.pc \in {"ack", "done"}
  /\ got'[r][i] = got[r][i]
  /\ Units(r, i)' <= Units(r, i) /\ Lasts(r, i)' <= Lasts(r, i)
  /\ Units(r, i)' # Units(r, i) =>
       (i \notin inbounds[r])' \/ (~open'[Other(r)] /\ Lasts(r, i)' = 0)
  /\ (i \in inbounds[r])' => i \in inbounds[r]
  /\ i \in spoiled[r] => (i \in spoiled[r])'
  /\ i \in altered[Other(r)] => (i \in altered[Other(r)])'
  /\ open'[Other(r)] => open[Other(r)]
  /\ Readable(r)' => Readable(r)
  /\ (At(r, "rename", i) \/ i \in saved[r])' => At(r, "rename", i) \/ i \in saved[r]

LEMMA FlowTypes ==
  ASSUME TypeInv, TypeInv', NEW r \in Sides, NEW i \in Ids
  PROVE  /\ got[r][i] \in Nat /\ got'[r][i] \in Nat
         /\ Units(r, i) \in Nat /\ Units(r, i)' \in Nat
         /\ Lasts(r, i) \in Nat /\ Lasts(r, i)' \in Nat
         /\ upload[Other(r)][i].offset \in Nat /\ upload[Other(r)][i].size \in Nat
<1>1. got \in Counters /\ got' \in Counters
  BY DEF TypeInv
<1> QED
  BY <1>1, CountsAreNat, CountsAreNatNext, UploadNumbers, OtherEnd DEF Counters

LEMMA FlowKept ==
  ASSUME TypeInv, TypeInv', NEW r \in Sides, NEW i \in Ids, Flow(r, i), KeepsFlow(r, i)
  PROVE  Flow(r, i)'
<1> DEFINE u == upload[Other(r)][i]
<1>1. u'.offset = u.offset /\ u'.size = u.size
  BY DEF KeepsFlow
<1>2. /\ got'[r][i] + Units(r, i)' <= u'.offset
      /\ (i \notin altered[Other(r)])' => u'.offset <= u'.size
  BY <1>1, FlowTypes DEF KeepsFlow, Flow
<1>3. ASSUME (i \in inbounds[r])', (i \notin spoiled[r])', open'[Other(r)], Readable(r)'
      PROVE  got'[r][i] + Units(r, i)' = u'.offset
  BY <1>1, <1>3, FlowTypes DEF KeepsFlow, Flow
<1>4. ASSUME (i \in inbounds[r])', (i \notin spoiled[r])', Lasts(r, i)' > 0
      PROVE  got'[r][i] + Units(r, i)' = u'.offset
  BY <1>1, <1>4, FlowTypes DEF KeepsFlow, Flow
<1>5. ASSUME Ending(r, i)'
      PROVE  /\ u'.pc \in {"ack", "done"}
             /\ (i \notin altered[Other(r)])' => u'.offset = u'.size
  <2>1. Ending(r, i)
    BY <1>5, FlowTypes DEF KeepsFlow, Ending
  <2> QED
    BY <1>1, <2>1 DEF KeepsFlow, Flow
<1>6. ASSUME (At(r, "rename", i) \/ i \in saved[r])', (i \notin spoiled[r])'
      PROVE  got'[r][i] = u'.offset
  BY <1>1, <1>6 DEF KeepsFlow, Flow
<1> QED
  BY <1>2, <1>3, <1>4, <1>5, <1>6 DEF Flow

-----------------------------------------------------------------------------
(* One token, one answer, one last chunk.                                  *)

LEMMA OneTokenStep ==
  ASSUME TypeInv, TypeInv', Fresh, OneToken, [Next]_vars
  PROVE  OneToken'
<1> SUFFICES ASSUME NEW r \in Sides, NEW i \in Ids PROVE Token(r, i)' <= 1
  BY DEF OneToken
<1>1. Falls(r, i) /\ Token(r, i) \in Nat
  BY TokenStep, TokenType
<1>2. Pending(r, i)' \in Nat /\ Held(r, i)' \in Nat
  <2>1. Controls(r, "offer", i)' \in Nat
    BY CountsAreNatNext DEF Kinds
  <2> QED
    BY <2>1 DEF Pending, Held, Bit
<1> QED
  BY <1>1, <1>2 DEF Falls, OneToken, Token

LEMMA AnsweredOnceStep ==
  ASSUME TypeInv, TypeInv', Fresh, OneToken', AnsweredOnce, [Next]_vars
  PROVE  AnsweredOnce'
<1> SUFFICES ASSUME NEW r \in Sides, NEW i \in Ids, Answered(r, i)' PROVE Pending(r, i)' = 0
  BY DEF AnsweredOnce
<1>1. Pending(r, i)' \in Nat /\ Held(r, i)' \in Nat /\ Pending(r, i)' + Held(r, i)' <= 1
  <2>1. Controls(r, "offer", i)' \in Nat
    BY CountsAreNatNext DEF Kinds
  <2> QED
    BY <2>1 DEF Pending, Held, Bit, OneToken, Token
<1>2. CASE (i \in inbounds[r])'
  <2>1. Held(r, i)' >= 1
    BY <1>2 DEF Held, Bit
  <2> QED
    BY <1>1, <2>1
<1>3. CASE Answered(r, i)
  <2>1. Pending(r, i) = 0 /\ Falls(r, i)
    BY <1>3, TokenStep DEF AnsweredOnce
  <2> QED
    BY <1>1, <2>1 DEF Falls
<1> QED
  BY <1>2, <1>3, AnsweredStep

\* LastEnds depends on the packets alone, and on them in this way.
LEMMA LastEndsTail ==
  ASSUME TypeInv, NEW s \in Sides, NEW k, Take(s, k), NEW i, LastEnds(s, i)
  PROVE  LastEnds(s, i)'
<1>1. /\ queue[s] \in Seq(Message) /\ queue[s] # <<>> /\ queue'[s] = Tail(queue[s])
  BY TakeStep
<1>2. /\ DOMAIN queue'[s] = 1 .. Len(queue[s]) - 1 /\ Len(queue[s]) \in Nat
      /\ DOMAIN queue[s] = 1 .. Len(queue[s])
      /\ \A n \in 1 .. Len(queue[s]) - 1 : queue'[s][n] = queue[s][n + 1]
  BY <1>1, HeadTailProperties
<1>3. ASSUME NEW m \in DOMAIN queue'[s], NEW n \in DOMAIN queue'[s], m < n,
             queue'[s][m] \in LastChunks(i)
      PROVE  queue'[s][n] \notin AllChunks(i)
  <2>1. m + 1 \in DOMAIN queue[s] /\ n + 1 \in DOMAIN queue[s] /\ m + 1 < n + 1
    BY <1>2, <1>3
  <2>2. queue[s][m + 1] \in LastChunks(i)
    BY <1>2, <1>3
  <2>3. queue[s][n + 1] \notin AllChunks(i)
    BY <2>1, <2>2 DEF LastEnds
  <2> QED
    BY <1>2, <2>3
<1> QED
  BY <1>3 DEF LastEnds

LEMMA LastEndsAppend ==
  ASSUME TypeInv, NEW r \in Sides, NEW p, queue'[r] = Append(queue[r], p), NEW i,
         LastEnds(r, i), p \in AllChunks(i) => Lasts(r, i) = 0
  PROVE  LastEnds(r, i)'
<1>1. queue[r] \in Seq(Message) /\ Len(queue[r]) \in Nat
  BY DEF TypeInv
<1>2. /\ DOMAIN queue[r] = 1 .. Len(queue[r])
      /\ DOMAIN queue'[r] = 1 .. Len(queue[r]) + 1
      /\ \A n \in 1 .. Len(queue[r]) : queue'[r][n] = queue[r][n]
      /\ queue'[r][Len(queue[r]) + 1] = p
  BY <1>1
<1>3. ASSUME NEW m \in DOMAIN queue'[r], NEW n \in DOMAIN queue'[r], m < n,
             queue'[r][m] \in LastChunks(i)
      PROVE  queue'[r][n] \notin AllChunks(i)
  <2>1. m \in DOMAIN queue[r] /\ queue[r][m] \in LastChunks(i)
    BY <1>1, <1>2, <1>3
  <2>2. CASE n = Len(queue[r]) + 1
    <3>1. Lasts(r, i) # 0
      BY <1>1, <2>1, CountNone DEF Lasts
    <3> QED
      BY <1>2, <2>2, <3>1
  <2>3. CASE n # Len(queue[r]) + 1
    BY <1>1, <1>2, <1>3, <2>1, <2>3 DEF LastEnds
  <2> QED
    BY <2>2, <2>3
<1> QED
  BY <1>3 DEF LastEnds

\* Every way a step changes what is on its way.
LEMMA QueueMoves ==
  ASSUME TypeInv, [Next]_vars
  PROVE  \/ queue' = queue \/ ConnectionLost
         \/ \E s \in Sides : \E k : Take(s, k)
         \/ \E s \in Sides, p \in Message : p.kind # "chunk" /\ Write(s, p)
         \/ \E s \in Sides, i \in Ids : SendChunk(s, i)
<1> DEFINE Goal == \/ queue' = queue \/ ConnectionLost
                   \/ \E s \in Sides : \E k : Take(s, k)
                   \/ \E s \in Sides, p \in Message : p.kind # "chunk" /\ Write(s, p)
                   \/ \E s \in Sides, i \in Ids : SendChunk(s, i)
<1>1. ASSUME NEW s \in Sides, NEW k \in Kinds, NEW i \in Ids, Write(s, Control(k, i))
      PROVE  Goal
  <2>1. Control(k, i) \in Message
    BY DEF Message
  <2>2. Control(k, i).kind # "chunk"
    BY DEF Control, Kinds
  <2> QED
    BY <1>1, <2>1, <2>2
<1>2. ASSUME NEW s \in Sides, Write(s, Fin) PROVE Goal
  <2>1. Fin \in Message /\ Fin.kind # "chunk"
    BY DEF Message, Fin
  <2> QED
    BY <1>2, <2>1
<1>3. ASSUME NEW s \in Sides, LoopTask(s) PROVE Goal
  <2>1. CASE SendDecision(s) \/ SendAck(s)
    <3>1. PICK k \in Kinds : Write(s, Control(k, loop[s].id)) /\ loop[s].id \in Ids
      BY <2>1 DEF SendDecision, SendAck, Kinds, TypeInv, LoopType, Busy
    <3> QED
      BY <1>1, <3>1
  <2>2. ASSUME NEW k, Take(s, k) PROVE Goal
    BY <2>2
  <2>3. CASE \/ TakeOffer(s) \/ TakeDecision(s) \/ TakeAck(s) \/ TakeCancel(s)
             \/ IgnoreChunk(s) \/ WriteChunk(s) \/ WriteChunkFails(s) \/ TakeFin(s)
    BY <2>2, <2>3 DEF TakeOffer, TakeDecision, TakeAck, TakeCancel, IgnoreChunk, WriteChunk,
       WriteChunkFails, TakeFin
  <2>4. CASE LoopRecv(s) \/ LoopStops(s) \/ InsertInbound(s) \/ Rename(s) \/ CancelledByPeer(s)
    BY <2>4 DEF LoopRecv, LoopStops, InsertInbound, Rename, CancelledByPeer, wire
  <2> QED
    BY <1>3, <2>1, <2>3, <2>4 DEF LoopTask
<1>4. ASSUME NEW s \in Sides, NEW i \in Ids, UploadTask(s, i) PROVE Goal
  <2>1. CASE SendOffer(s, i)
    BY <1>1, <2>1 DEF SendOffer, Kinds
  <2>2. CASE ~SendOffer(s, i)
    BY <1>4, <2>2 DEF UploadTask, InsertOutbound, AwaitDecision, CheckCancelled, ReadFails,
       AwaitAck, wire
  <2> QED
    BY <2>1, <2>2
<1>5. ASSUME NEW s \in Sides, CancelTask(s) PROVE Goal
  <2>1. CASE TellCancelled(s)
    <3>1. user[s].id \in Ids
      BY <2>1 DEF TellCancelled, TypeInv, UserType
    <3> QED
      BY <1>1, <2>1, <3>1 DEF TellCancelled, Kinds
  <2>2. CASE CancelInbound(s)
    BY <2>2 DEF CancelInbound, wire
  <2> QED
    BY <1>5, <2>1, <2>2 DEF CancelTask
<1>6. ASSUME NEW s \in Sides, CloseTask(s) PROVE Goal
  BY <1>2, <1>6 DEF CloseTask, CloseSends, CloseStream, CloseInbounds, CloseOutbounds, wire
<1>7. ASSUME NEW s \in Sides,
             Vanish(s) \/ SendFile(s) \/ CloseBegins(s) \/ \E i \in Ids : Cancel(s, i)
      PROVE  Goal
  BY <1>7 DEF Vanish, SendFile, CloseBegins, Cancel, wire
<1>8. CASE UNCHANGED vars
  BY <1>8 DEF vars, wire
<1> QED
  BY <1>3, <1>4, <1>5, <1>6, <1>7, <1>8 DEF Next

LEMMA LastEndsStep ==
  ASSUME TypeInv, [Next]_vars, NEW r \in Sides, NEW i \in Ids, LastEnds(r, i), Flow(r, i)
  PROVE  LastEnds(r, i)'
<1>1. ASSUME queue'[r] = queue[r] PROVE LastEnds(r, i)'
  BY <1>1 DEF LastEnds
<1>2. CASE ConnectionLost
  <2>1. queue'[r] = <<Fin>> /\ DOMAIN <<Fin>> = {1}
    BY <1>2 DEF ConnectionLost
  <2>2. \A m, n \in {1} : ~(m < n)
    OBVIOUS
  <2> QED
    BY <2>1, <2>2 DEF LastEnds
<1>3. ASSUME NEW s \in Sides, NEW k, Take(s, k) PROVE LastEnds(r, i)'
  BY <1>1, <1>3, TakeStep, LastEndsTail
<1>4. ASSUME NEW s \in Sides, NEW p \in Message, Write(s, p),
             Reaches(s, r) /\ p \in AllChunks(i) => Lasts(r, i) = 0
      PROVE  LastEnds(r, i)'
  <2>1. queue'[r] = IF Reaches(s, r) THEN Append(queue[r], p) ELSE queue[r]
    BY <1>4, WriteStep
  <2> QED
    BY <1>1, <1>4, <2>1, LastEndsAppend
<1>5. ASSUME NEW s \in Sides, NEW p \in Message, p.kind # "chunk", Write(s, p)
      PROVE  LastEnds(r, i)'
  <2>1. p \notin AllChunks(i)
    BY <1>5 DEF AllChunks, Chunk
  <2> QED
    BY <1>4, <1>5, <2>1
<1>6. ASSUME NEW s \in Sides, NEW j \in Ids, SendChunk(s, j) PROVE LastEnds(r, i)'
  <2>1. PICK n \in {0, 1}, e \in BOOLEAN : Write(s, Chunk(j, n, e)) /\ upload[s][j].pc = "chunk"
    BY <1>6, ChunkSent DEF ChunkGoes
  <2>2. Chunk(j, n, e) \in Message /\ (Chunk(j, n, e) \in AllChunks(i) => j = i)
    BY PacketsDiffer DEF Message
  <2>3. Reaches(s, r) /\ j = i => Lasts(r, i) = 0
    <3>1. Lasts(r, i) \in Nat
      BY CountsAreNat
    <3>2. Reaches(s, r) => s = Other(r)
      BY OtherEnd DEF Reaches
    <3> QED
      BY <2>1, <3>1, <3>2 DEF Flow, Ending
  <2> QED
    BY <1>4, <2>1, <2>2, <2>3
<1> QED
  BY <1>1, <1>2, <1>3, <1>5, <1>6, QueueMoves

LEMMA FlowLost ==
  ASSUME TypeInv, TypeInv', ConnectionLost, NEW r \in Sides, NEW i \in Ids, Flow(r, i)
  PROVE  Flow(r, i)'
<1>1. UNCHANGED <<upload, altered, got, loop, closer, inbounds, spoiled, saved>>
  BY DEF ConnectionLost, session, sending, receiving
<1>2. Units(r, i)' = 0 /\ Lasts(r, i)' = 0
  BY LostCounts
<1>3. ~open'[Other(r)]
  BY OtherEnd DEF ConnectionLost
<1>4. KeepsFlow(r, i)
  BY <1>1, <1>2, <1>3, FlowTypes DEF KeepsFlow, Readable, At
<1> QED
  BY <1>4, FlowKept

\* A step that concerns neither an upload, nor a chunk, nor the receive loop.
LEMMA FlowQuiet ==
  ASSUME TypeInv, TypeInv', NEW r \in Sides, NEW i \in Ids, Flow(r, i), SameChunks(r, i),
         UNCHANGED <<upload, altered, got, loop, spoiled, saved>>, inbounds'[r] \subseteq inbounds[r],
         open'[Other(r)] => open[Other(r)], Readable(r)' => Readable(r)
  PROVE  Flow(r, i)'
<1>1. KeepsFlow(r, i)
  BY FlowTypes DEF KeepsFlow, SameChunks, At
<1> QED
  BY <1>1, FlowKept

LEMMA FlowSession ==
  ASSUME TypeInv, TypeInv', NEW r \in Sides, NEW i \in Ids, Flow(r, i), NEW s \in Sides,
         \/ Vanish(s) \/ CancelTask(s) \/ CloseBegins(s) \/ CloseTask(s)
         \/ \E j \in Ids : Cancel(s, j)
  PROVE  Flow(r, i)'
<1>0. Other(r) \in Sides
  BY OtherEnd
<1>1. UNCHANGED <<upload, altered, got, loop, spoiled, saved>>
  BY DEF Vanish, CancelTask, CancelInbound, TellCancelled, CloseBegins, CloseTask, CloseSends,
         CloseStream, CloseInbounds, CloseOutbounds, Cancel, session, sending, receiving
<1>2. SameChunks(r, i)
  <2>1. CASE TellCancelled(s)
    <3>1. user[s].id \in Ids /\ Write(s, Control("cancel", user[s].id))
      BY <2>1 DEF TellCancelled, TypeInv, UserType
    <3> QED
      BY <3>1, WriteControl DEF Kinds
  <2>2. CASE CloseSends(s)
    BY <2>2, WriteFin DEF CloseSends
  <2>3. CASE ~TellCancelled(s) /\ ~CloseSends(s)
    <3>1. queue' = queue
      BY <2>3 DEF Vanish, CancelTask, CancelInbound, CloseBegins, CloseTask, CloseStream,
         CloseInbounds, CloseOutbounds, Cancel, wire
    <3> QED
      BY <3>1, SameCounts
  <2> QED
    BY <2>1, <2>2, <2>3
<1>3. inbounds'[r] \subseteq inbounds[r]
  <2>1. \/ inbounds' = inbounds \/ inbounds' = Drop(inbounds, s, user[s].id)
        \/ inbounds' = [inbounds EXCEPT ![s] = {}]
    BY DEF Vanish, CancelTask, CancelInbound, DropInbound, TellCancelled, CloseBegins,
         CloseTask, CloseSends, CloseStream, CloseInbounds, CloseOutbounds, Cancel, receiving
  <2>2. inbounds \in Tables
    BY DEF TypeInv
  <2> QED
    BY <2>1, <2>2 DEF Drop, Tables
<1>4. open'[Other(r)] => open[Other(r)]
  <2>1. open' = open \/ open' = [open EXCEPT ![s] = FALSE]
    BY DEF Vanish, CancelTask, CancelInbound, TellCancelled, CloseBegins, CloseTask,
         CloseSends, CloseStream, CloseInbounds, CloseOutbounds, Cancel, wire
  <2> QED
    BY <1>0, <2>1 DEF TypeInv
<1>5. Readable(r)' => Readable(r)
  <2>1. \/ closer' = closer
        \/ \E from, to : /\ CloserAt(s, from, to)
                         /\ from \in {"none", "send", "stream"} \/ to \in {"outbounds", "done"}
    BY DEF Vanish, CancelTask, CancelInbound, TellCancelled, CloseBegins, CloseTask,
         CloseSends, CloseStream, CloseInbounds, CloseOutbounds, Cancel, session
  <2> QED
    BY <2>1 DEF CloserAt, Readable, TypeInv
<1> QED
  BY <1>1, <1>2, <1>3, <1>4, <1>5, FlowQuiet

LEMMA FlowUpload ==
  ASSUME TypeInv, TypeInv', NEW s \in Sides, NEW j \in Ids, UploadTask(s, j), ~SendChunk(s, j),
         NEW r \in Sides, NEW i \in Ids, Flow(r, i)
  PROVE  Flow(r, i)'
<1>0. Other(r) \in Sides
  BY OtherEnd
<1>1. UNCHANGED <<altered, open, closer, loop, got, inbounds, spoiled, saved>>
  BY DEF UploadTask, InsertOutbound, SendOffer, AwaitDecision, CheckCancelled, ReadFails,
         AwaitAck, wire, session, receiving
<1>2. SameChunks(r, i)
  <2>1. CASE SendOffer(s, j)
    BY <2>1, WriteControl DEF SendOffer, Kinds
  <2>2. CASE ~SendOffer(s, j)
    BY <2>2, SameCounts DEF UploadTask, InsertOutbound, AwaitDecision, CheckCancelled,
         ReadFails, AwaitAck, wire
  <2> QED
    BY <2>1, <2>2
<1>3. PICK from, to : Goto(s, j, from, to) /\ (from \in {"ack", "done"} => to = "done")
  BY DEF UploadTask, InsertOutbound, SendOffer, AwaitDecision, CheckCancelled, ReadFails,
         AwaitAck, Goto
<1>4. upload[s][j].pc = from /\ PcMoves(s, j, to)
  BY <1>3, UploadMoves
<1>5. KeepsFlow(r, i)
  BY <1>0, <1>1, <1>2, <1>3, <1>4, FlowTypes DEF KeepsFlow, SameChunks, PcMoves, Readable, At
<1> QED
  BY <1>5, FlowKept

\* Nothing of an upload is on its way, or counted, before its task starts.
LEMMA FlowSendFile ==
  ASSUME TypeInv, TypeInv', Fresh, OneToken, AnsweredOnce, StartedDecided,
         NEW s \in Sides, SendFile(s), NEW r \in Sides, NEW i \in Ids, Flow(r, i)
  PROVE  Flow(r, i)'
<1> DEFINE t == Other(r)
<1>0. t \in Sides /\ Other(t) = r
  BY OtherEnd
<1>1. /\ UNCHANGED <<queue, open, closer, loop, altered, got, inbounds, spoiled, saved>>
      /\ SameChunks(r, i)
  BY SameCounts DEF SendFile, wire, session, receiving
<1>2. PICK size \in 0 .. MaxChunks :
        upload' = [upload EXCEPT ![s][next[s]] = [pc |-> "insert", size |-> size, offset |-> 0]]
  BY DEF SendFile
<1>3. upload \in Uploads
  BY DEF TypeInv
<1>4. CASE t = s /\ i = next[s]
  <2>1. upload'[t][i].offset = 0 /\ upload'[t][i].size \in Nat
    BY <1>0, <1>2, <1>3, <1>4 DEF Uploads
  <2>2. Unsent(t, i)
    BY <1>0, <1>4, ConstantsAssumption DEF Fresh, Unsent, Ids
  <2>3. Pending(r, i) >= 1 /\ Held(r, i) = 0
    <3>1. Pending(r, i) >= 1
      BY <2>2, TokenType DEF Pending, Bit
    <3> QED
      BY <3>1, TokenType DEF OneToken, Token
  <2>4. ~Started(t, i)
    <3>1. ~Answered(r, i)
      BY <2>3 DEF AnsweredOnce
    <3> QED
      BY <1>0, <3>1 DEF Answered, StartedDecided
  <2>5. upload[t][i].offset = 0 /\ Units(r, i) = 0 /\ Lasts(r, i) = 0
    <3>1. Chunks(r, i) = 0 /\ upload[t][i].offset = 0
      BY <1>0, <2>4, CountsAreNat, FlowTypes DEF Started
    <3> QED
      BY <3>1, ChunksBound, FlowTypes
  <2>6. i \notin inbounds[r] /\ i \notin saved[r] /\ ~At(r, "rename", i)
    BY <2>3 DEF Held, Bit
  <2>7. got[r][i] = 0
    BY <2>5, FlowTypes DEF Flow
  <2> QED
    BY <1>1, <2>1, <2>5, <2>6, <2>7 DEF Flow, Ending, SameChunks, At
<1>5. CASE ~(t = s /\ i = next[s])
  <2>1. upload'[t][i] = upload[t][i]
    BY <1>0, <1>2, <1>3, <1>5 DEF Uploads
  <2>2. KeepsFlow(r, i)
    BY <1>1, <2>1, FlowTypes DEF KeepsFlow, SameChunks, Readable, At
  <2> QED
    BY <2>2, FlowKept
<1> QED
  BY <1>4, <1>5

\* A chunk is counted on its way as it is counted sent.
LEMMA FlowSendChunk ==
  ASSUME TypeInv, TypeInv', NEW s \in Sides, NEW j \in Ids, SendChunk(s, j),
         NEW r \in Sides, NEW i \in Ids, Flow(r, i)
  PROVE  Flow(r, i)'
<1> DEFINE t == Other(r)
           u == upload[t][i]
<1>0. t \in Sides /\ Other(t) = r
  BY OtherEnd
<1>1. UNCHANGED <<open, closer, loop, got, inbounds, spoiled, saved>>
  BY DEF SendChunk, session, receiving
<1>2. CASE t = s /\ i = j /\ open[s]
  <2> DEFINE exact == i \notin altered[t]
  <2>1. PICK n \in {0, 1}, e \in BOOLEAN : ChunkGoes(s, i, n, e)
    BY <1>2, ChunkSent
  <2>2. u.pc = "chunk" /\ Write(s, Chunk(i, n, e))
    BY <1>2, <2>1, ChunkSent DEF ChunkGoes
  <2>3. exact' => exact /\ n = Due(u.size, u.offset)
    BY <1>0, <1>2, <2>1 DEF ChunkGoes, Add, TypeInv, Tables
  <2>4. ASSUME exact' PROVE u.offset + n <= u.size /\ (e <=> u.offset + n = u.size)
    <3>1. e <=> n = 0 \/ u.offset + n >= u.size \/ u.size = 0
      BY <1>2, <2>1 DEF ChunkGoes, IsEof
    <3>2. u.offset <= u.size /\ n = IF u.offset < u.size THEN 1 ELSE 0
      BY <2>3, <2>4 DEF Flow, Due
    <3>3. u.offset \in Nat /\ u.size \in Nat
      BY FlowTypes
    <3> HIDE DEF u
    <3> QED
      BY <3>1, <3>2, <3>3
  <2>5. /\ u'.offset = u.offset + n /\ u'.size = u.size
        /\ u'.pc = IF e THEN "ack" ELSE "check"
    BY <1>0, <1>2, <2>1 DEF ChunkGoes, Advanced
  <2>6. /\ Units(r, i)' = Units(r, i) + Bit(Reaches(s, r) /\ n = 1)
        /\ Lasts(r, i)' = Lasts(r, i) + Bit(Reaches(s, r) /\ e)
    BY <2>2, WriteChunkCounts
  <2>7. Lasts(r, i) = 0 /\ ~At(r, "rename", i) /\ i \notin saved[r]
    BY <2>2, FlowTypes DEF Flow, Ending
  <2>8. Reaches(s, r) <=> Readable(r)
    BY <1>0, <1>2 DEF Reaches
  <2> HIDE DEF u, exact
  <2>9. got[r][i] + Units(r, i)' <= u'.offset /\ (exact' => u'.offset <= u'.size)
    BY <2>1, <2>4, <2>5, <2>6, FlowTypes DEF Flow, Bit, u
  <2>10. ASSUME i \in inbounds[r], i \notin spoiled[r], Readable(r)
         PROVE  got[r][i] + Units(r, i)' = u'.offset
    BY <1>0, <1>2, <2>1, <2>5, <2>6, <2>8, <2>10, FlowTypes DEF Flow, Bit, u
  <2>11. ASSUME Lasts(r, i)' > 0
         PROVE  Readable(r) /\ u'.pc = "ack" /\ (exact' => u'.offset = u'.size)
    BY <2>4, <2>5, <2>6, <2>7, <2>8, <2>11 DEF Bit
  <2> QED
    BY <1>1, <2>7, <2>9, <2>10, <2>11 DEF Flow, Ending, At, Readable, u, exact
<1>3. CASE ~(t = s /\ i = j /\ open[s])
  <2>1. SameChunks(r, i)
    <3>1. PICK n \in {0, 1}, e \in BOOLEAN : Write(s, Chunk(j, n, e))
      BY ChunkSent DEF ChunkGoes
    <3>2. ~(Reaches(s, r) /\ i = j)
      BY <1>3, OtherEnd DEF Reaches
    <3> QED
      BY <3>1, <3>2, WriteChunkCounts, CountsAreNat DEF SameChunks, Bit
  <2>2. /\ u'.offset = u.offset /\ u'.size = u.size
        /\ u.pc \in {"ack", "done"} => u'.pc \in {"ack", "done"}
    <3>1. CASE t = s /\ i = j
      BY <1>0, <1>3, <3>1, ChunkSent DEF ChunkGoes, PcMoves
    <3>2. CASE ~(t = s /\ i = j)
      <4>1. u.offset + 0 = u.offset
        BY <1>0, UploadNumbers
      <4> QED
        BY <1>0, <3>2, <4>1, ChunkSent DEF ChunkGoes, Advanced, PcMoves
    <3> QED
      BY <3>1, <3>2
  <2>3. i \in altered[t] => i \in altered'[t]
    <3>1. altered' = altered \/ altered' = Add(altered, s, j)
      BY ChunkSent DEF ChunkGoes
    <3>2. altered \in Tables
      BY DEF TypeInv
    <3> QED
      BY <1>0, <3>1, <3>2 DEF Add, Tables
  <2>4. KeepsFlow(r, i)
    BY <1>1, <2>1, <2>2, <2>3, FlowTypes DEF KeepsFlow, SameChunks, Readable, At
  <2> QED
    BY <2>4, FlowKept
<1> QED
  BY <1>2, <1>3

\* The steps of the receive loop that deal with no chunk.
LEMMA FlowLoop ==
  ASSUME TypeInv, TypeInv', Phases, NEW s \in Sides, LoopTask(s),
         ~InsertInbound(s), ~IgnoreChunk(s), ~WriteChunk(s), ~WriteChunkFails(s),
         NEW r \in Sides, NEW i \in Ids, Flow(r, i)
  PROVE  Flow(r, i)'
<1>1. UNCHANGED <<upload, altered, open, got, spoiled>>
  BY DEF LoopTask, LoopRecv, LoopStops, TakeOffer, SendDecision, TakeDecision, Rename, SendAck,
         TakeAck, TakeCancel, CancelledByPeer, TakeFin, wire, sending, receiving
<1>2. SameChunks(r, i)
  <2>1. CASE LoopRecv(s) \/ LoopStops(s) \/ Rename(s) \/ CancelledByPeer(s)
    BY <2>1, SameCounts DEF LoopRecv, LoopStops, Rename, CancelledByPeer, wire
  <2>2. CASE SendDecision(s) \/ SendAck(s)
    <3>1. PICK k \in Kinds : Write(s, Control(k, loop[s].id)) /\ loop[s].id \in Ids
      BY <2>2 DEF SendDecision, SendAck, Kinds, TypeInv, LoopType, Busy
    <3> QED
      BY <3>1, WriteControl
  <2>3. CASE TakeOffer(s) \/ TakeDecision(s) \/ TakeAck(s) \/ TakeCancel(s)
    <3>1. PICK k \in Kinds : Take(s, k)
      BY <2>3 DEF TakeOffer, TakeDecision, TakeAck, TakeCancel, Kinds
    <3> QED
      BY <3>1, TakeControl
  <2>4. CASE TakeFin(s)
    BY <2>4, TakeFinCounts DEF TakeFin
  <2> QED
    BY <2>1, <2>2, <2>3, <2>4 DEF LoopTask
<1>3. inbounds'[r] \subseteq inbounds[r]
  <2>1. inbounds' = inbounds \/ \E j : inbounds' = Drop(inbounds, s, j)
    BY DEF LoopTask, LoopRecv, LoopStops, TakeOffer, SendDecision, TakeDecision, Rename, SendAck,
           TakeAck, TakeCancel, DropInbound, CancelledByPeer, TakeFin, receiving
  <2>2. inbounds \in Tables
    BY DEF TypeInv
  <2> QED
    BY <2>1, <2>2 DEF Drop, Tables
<1>4. Readable(r)' => Readable(r)
  <2>1. CASE TakeFin(s)
    BY <2>1 DEF TakeFin, Take, Phases, Readable, TypeInv
  <2>2. CASE ~TakeFin(s)
    BY <2>2 DEF LoopTask, LoopRecv, LoopStops, TakeOffer, SendDecision, TakeDecision, Rename,
         SendAck, TakeAck, TakeCancel, CancelledByPeer, Readable
  <2> QED
    BY <2>1, <2>2
<1>5. (At(r, "rename", i) \/ i \in saved[r])' => At(r, "rename", i) \/ i \in saved[r]
  <2>1. At(r, "rename", i)' => At(r, "rename", i)
    <3>1. PICK pc, j : LoopAt(s, pc, j) /\ pc # "rename"
      BY DEF LoopTask, LoopRecv, LoopStops, TakeOffer, SendDecision, TakeDecision, Rename,
             SendAck, TakeAck, TakeCancel, CancelledByPeer, TakeFin
    <3> QED
      BY <3>1, LoopLeaves
  <2>2. (i \in saved[r])' => At(r, "rename", i) \/ i \in saved[r]
    <3>1. CASE Rename(s)
      <4>1. saved \in Tables /\ (saved' = saved \/ saved' = Add(saved, s, loop[s].id))
        BY <3>1 DEF Rename, TypeInv
      <4>2. (i \in saved[r])' => i \in saved[r] \/ (r = s /\ i = loop[s].id)
        BY <4>1 DEF Add, Tables
      <4> QED
        BY <3>1, <4>2 DEF Rename, At
    <3>2. CASE ~Rename(s)
      BY <3>2 DEF LoopTask, LoopRecv, LoopStops, TakeOffer, SendDecision, TakeDecision,
           SendAck, TakeAck, TakeCancel, CancelledByPeer, TakeFin, receiving
    <3> QED
      BY <3>1, <3>2
  <2> QED
    BY <2>1, <2>2
<1>6. KeepsFlow(r, i)
  BY <1>1, <1>2, <1>3, <1>4, <1>5, FlowTypes DEF KeepsFlow, SameChunks
<1> QED
  BY <1>6, FlowKept

LEMMA FlowInsertInbound ==
  ASSUME TypeInv, TypeInv', OneToken, AnsweredOnce, StartedDecided,
         NEW s \in Sides, InsertInbound(s), NEW r \in Sides, NEW i \in Ids, Flow(r, i)
  PROVE  Flow(r, i)'
<1> DEFINE t == Other(r)
           j == loop[s].id
<1>0. t \in Sides /\ Other(t) = r /\ j \in Ids
  BY OtherEnd DEF InsertInbound, TypeInv, LoopType, Busy
<1>1. UNCHANGED <<queue, open, closer, upload, altered, spoiled, saved>> /\ SameChunks(r, i)
  BY SameCounts DEF InsertInbound, wire, sending
<1>2. At(r, "rename", i)' => At(r, "rename", i)
  BY LoopLeaves DEF InsertInbound
<1>3. CASE r = s /\ i = j
  <2>1. Pending(r, i) >= 1 /\ Held(r, i) = 0
    <3>1. At(r, "insert", i)
      BY <1>3 DEF InsertInbound, At
    <3>2. Pending(r, i) >= 1
      BY <3>1, TokenType DEF Pending, Bit
    <3> QED
      BY <3>2, TokenType DEF OneToken, Token
  <2>2. ~Started(t, i)
    <3>1. ~Answered(r, i)
      BY <2>1 DEF AnsweredOnce
    <3> QED
      BY <1>0, <3>1 DEF Answered, StartedDecided
  <2>3. upload[t][i].offset = 0 /\ Units(r, i) = 0 /\ Lasts(r, i) = 0
    <3>1. Chunks(r, i) = 0 /\ upload[t][i].offset = 0
      BY <1>0, <2>2, CountsAreNat, FlowTypes DEF Started
    <3> QED
      BY <3>1, ChunksBound, FlowTypes
  <2>4. i \notin saved[r] /\ ~At(r, "rename", i)
    BY <2>1 DEF Held, Bit
  <2>5. got'[r][i] = 0
    BY <1>3 DEF InsertInbound, TypeInv, Counters
  <2> QED
    BY <1>1, <1>2, <2>3, <2>4, <2>5, FlowTypes DEF Flow, Ending, SameChunks
<1>4. CASE ~(r = s /\ i = j)
  <2>1. got'[r][i] = got[r][i]
    BY <1>0, <1>4 DEF InsertInbound, TypeInv, Counters
  <2>2. (i \in inbounds[r])' => i \in inbounds[r]
    BY <1>4 DEF InsertInbound, Add, TypeInv, Tables
  <2>3. KeepsFlow(r, i)
    BY <1>1, <1>2, <2>1, <2>2, FlowTypes DEF KeepsFlow, SameChunks, Readable
  <2> QED
    BY <2>3, FlowKept
<1> QED
  BY <1>3, <1>4

\* A chunk that is written is counted there instead of on its way; the last
\* one, with no other behind it, leaves the whole file written.
LEMMA FlowChunk ==
  ASSUME TypeInv, TypeInv', OneToken, NEW s \in Sides,
         IgnoreChunk(s) \/ WriteChunk(s) \/ WriteChunkFails(s),
         NEW r \in Sides, NEW i \in Ids, Flow(r, i), LastEnds(r, i)
  PROVE  Flow(r, i)'
<1> DEFINE c == Head(queue[s])
           u == upload[Other(r)][i]
<1>1. /\ Take(s, "chunk") /\ UNCHANGED <<upload, altered, open, closer, saved>>
  BY DEF IgnoreChunk, WriteChunk, WriteChunkFails, sending, receiving
<1>2. /\ c.id \in Ids /\ c.n \in {0, 1} /\ c.eof \in BOOLEAN /\ c = Chunk(c.id, c.n, c.eof)
      /\ Units(r, i) = Units(r, i)' + Bit(r = s /\ i = c.id /\ c.n = 1)
      /\ Lasts(r, i) = Lasts(r, i)' + Bit(r = s /\ i = c.id /\ c.eof)
      /\ Chunks(r, i) = Chunks(r, i)' + Bit(r = s /\ i = c.id)
  BY <1>1, TakeChunk
<1>3. Readable(r)' = Readable(r)
  BY <1>1 DEF Readable
<1>4. PICK pc, j : LoopAt(s, pc, j) /\ (pc = "rename" => WriteChunk(s) /\ c.eof /\ j = c.id)
  BY DEF IgnoreChunk, WriteChunk, WriteChunkFails
<1>5. At(r, "rename", i)' => At(r, "rename", i) \/ (WriteChunk(s) /\ c.eof /\ i = c.id /\ r = s)
  BY <1>4, LoopLeaves
<1>6. inbounds'[r] \subseteq inbounds[r]
  <2>1. inbounds' = inbounds \/ inbounds' = Drop(inbounds, s, c.id)
    BY DEF IgnoreChunk, WriteChunk, WriteChunkFails, receiving
  <2>2. inbounds \in Tables
    BY DEF TypeInv
  <2> QED
    BY <2>1, <2>2 DEF Drop, Tables
<1>7. i \in spoiled[r] => i \in spoiled'[r]
  <2>1. spoiled' = spoiled \/ spoiled' = Add(spoiled, s, c.id)
    BY DEF IgnoreChunk, WriteChunk, WriteChunkFails, receiving
  <2>2. spoiled \in Tables
    BY DEF TypeInv
  <2> QED
    BY <2>1, <2>2 DEF Add, Tables
<1>8. CASE ~(r = s /\ i = c.id) \/ IgnoreChunk(s)
  <2>1. got'[r][i] = got[r][i]
    <3>1. got' = got \/ (WriteChunk(s) /\ got' = [got EXCEPT ![s][c.id] = @ + c.n])
      BY DEF IgnoreChunk, WriteChunk, WriteChunkFails, receiving
    <3>2. ~(r = s /\ i = c.id) \/ ~WriteChunk(s)
      BY <1>8 DEF IgnoreChunk, WriteChunk
    <3>3. got \in Counters
      BY DEF TypeInv
    <3> HIDE DEF c
    <3> QED
      BY <3>1, <3>2, <3>3 DEF Counters
  <2>2. IgnoreChunk(s) /\ r = s /\ i = c.id => (i \notin inbounds[r])'
    BY DEF IgnoreChunk, receiving
  <2>3. At(r, "rename", i)' => At(r, "rename", i)
    BY <1>4, <1>5, <1>8, LoopLeaves DEF IgnoreChunk, WriteChunk
  <2>4. Units(r, i)' <= Units(r, i) /\ Lasts(r, i)' <= Lasts(r, i)
    BY <1>2, FlowTypes DEF Bit
  <2>5. Units(r, i)' # Units(r, i) => (i \notin inbounds[r])'
    BY <1>2, <1>8, <2>2, FlowTypes DEF Bit
  <2>6. KeepsFlow(r, i)
    BY <1>1, <1>3, <1>6, <1>7, <2>1, <2>3, <2>4, <2>5 DEF KeepsFlow
  <2> QED
    BY <2>6, FlowKept
<1>9. CASE r = s /\ i = c.id /\ WriteChunk(s)
  <2>1. /\ got'[r][i] = got[r][i] + c.n /\ i \in inbounds[r]
        /\ c.eof => i \notin inbounds'[r]
    BY <1>2, <1>9 DEF WriteChunk, Drop, TypeInv, Counters, Tables
  <2>2. got'[r][i] + Units(r, i)' = got[r][i] + Units(r, i)
    BY <1>2, <1>9, <2>1, FlowTypes DEF Bit
  <2>3. ASSUME c.eof, i \notin spoiled[r] PROVE got'[r][i] = u.offset
    <3>1. got[r][i] + Units(r, i) = u.offset
      BY <1>2, <1>9, <2>1, <2>3, FlowTypes DEF Flow, Bit
    <3>2. Chunks(r, i)' = 0
      <4>1. /\ queue[s] \in Seq(Message) /\ queue[s] # <<>> /\ queue'[s] = Tail(queue[s])
        BY <1>1, TakeStep
      <4>2. /\ c = queue[s][1] /\ DOMAIN queue[s] = 1 .. Len(queue[s]) /\ Len(queue[s]) \in Nat \ {0}
            /\ DOMAIN queue'[s] = 1 .. Len(queue[s]) - 1 /\ queue'[s] \in Seq(Message)
            /\ \A n \in 1 .. Len(queue[s]) - 1 : queue'[s][n] = queue[s][n + 1]
        BY <4>1, HeadTailProperties, EmptySeq
      <4>3. c \in LastChunks(i)
        BY <1>2, <1>9, <2>3 DEF LastChunks
      <4>4. ASSUME NEW n \in DOMAIN queue'[s] PROVE queue'[s][n] \notin AllChunks(i)
        <5>1. 1 \in DOMAIN queue[s] /\ n + 1 \in DOMAIN queue[s] /\ 1 < n + 1
          BY <4>2, <4>4
        <5>2. queue[s][n + 1] \notin AllChunks(i)
          BY <1>9, <4>2, <4>3, <5>1 DEF LastEnds
        <5> QED
          BY <4>2, <4>4, <5>2
      <4> QED
        BY <1>9, <4>2, <4>4, CountNone DEF Chunks
    <3>3. Units(r, i)' = 0
      BY <3>2, ChunksBound, FlowTypes
    <3> QED
      BY <2>2, <3>1, <3>3, FlowTypes
  <2>4. Lasts(r, i)' <= Lasts(r, i) /\ (c.eof => Lasts(r, i) > 0)
    BY <1>2, <1>9, FlowTypes DEF Bit
  <2>5. i \notin saved[r] /\ ~At(r, "rename", i)
    <3>1. Token(r, i) <= 1 /\ Pending(r, i) \in Nat
      BY TokenType DEF OneToken
    <3> QED
      BY <2>1, <3>1 DEF Token, Held, Bit
  <2>6. /\ got'[r][i] + Units(r, i)' <= u'.offset
        /\ (i \notin altered[Other(r)])' => u'.offset <= u'.size
    BY <1>1, <2>2 DEF Flow
  <2>7. ASSUME i \notin spoiled'[r], open[Other(r)], Readable(r)
        PROVE  got'[r][i] + Units(r, i)' = u'.offset
    BY <1>1, <1>7, <2>1, <2>2, <2>7 DEF Flow
  <2>8. ASSUME i \notin spoiled'[r], Lasts(r, i)' > 0
        PROVE  got'[r][i] + Units(r, i)' = u'.offset
    BY <1>1, <1>7, <2>1, <2>2, <2>4, <2>8, FlowTypes DEF Flow
  <2>9. ASSUME Ending(r, i)'
        PROVE  u'.pc \in {"ack", "done"} /\ ((i \notin altered[Other(r)])' => u'.offset = u'.size)
    <3>1. Lasts(r, i) > 0
      BY <1>1, <1>5, <2>4, <2>5, <2>9, FlowTypes DEF Ending
    <3> QED
      BY <1>1, <3>1 DEF Flow, Ending
  <2>10. ASSUME (At(r, "rename", i) \/ i \in saved[r])', i \notin spoiled'[r]
         PROVE  got'[r][i] = u'.offset
    BY <1>1, <1>5, <1>7, <2>3, <2>5, <2>10
  <2> QED
    BY <1>1, <1>3, <2>1, <2>6, <2>7, <2>8, <2>9, <2>10 DEF Flow
<1>10. CASE r = s /\ i = c.id /\ WriteChunkFails(s)
  <2>1. i \in spoiled'[r] /\ got' = got
    BY <1>10 DEF WriteChunkFails, Add, TypeInv, Tables
  <2>2. Units(r, i)' <= Units(r, i) /\ Lasts(r, i)' <= Lasts(r, i)
    BY <1>2, FlowTypes DEF Bit
  <2>3. /\ got'[r][i] + Units(r, i)' <= u'.offset
        /\ (i \notin altered[Other(r)])' => u'.offset <= u'.size
    BY <1>1, <2>1, <2>2, FlowTypes DEF Flow
  <2>4. ASSUME Ending(r, i)'
        PROVE  u'.pc \in {"ack", "done"} /\ ((i \notin altered[Other(r)])' => u'.offset = u'.size)
    <3>1. At(r, "rename", i)' => At(r, "rename", i)
      BY <1>10, LoopLeaves DEF WriteChunkFails
    <3>2. Ending(r, i)
      BY <1>1, <2>2, <2>4, <3>1, FlowTypes DEF Ending
    <3> QED
      BY <1>1, <3>2 DEF Flow
  <2> QED
    BY <2>1, <2>3, <2>4 DEF Flow
<1> QED
  BY <1>8, <1>9, <1>10

Flows == \A r \in Sides : \A i \in Ids : Flow(r, i) /\ LastEnds(r, i)

\* The invariant of a transfer, from the offer to the file in place.
TransferInv ==
  TypeInv /\ Fresh /\ Phases /\ OneToken /\ AnsweredOnce /\ StartedDecided /\ Flows

LEMMA FlowsStep ==
  ASSUME TransferInv, TypeInv', [Next]_vars
  PROVE  Flows'
<1> USE DEF TransferInv
<1> SUFFICES ASSUME NEW r \in Sides, NEW i \in Ids PROVE Flow(r, i)' /\ LastEnds(r, i)'
  BY DEF Flows
<1>1. Flow(r, i) /\ LastEnds(r, i)
  BY DEF Flows
<1>2. LastEnds(r, i)'
  BY <1>1, LastEndsStep
<1>3. CASE ConnectionLost
  BY <1>1, <1>2, <1>3, FlowLost
<1>4. ASSUME NEW s \in Sides, SendFile(s) PROVE Flow(r, i)'
  BY <1>1, <1>4, FlowSendFile
<1>5. ASSUME NEW s \in Sides, NEW j \in Ids, UploadTask(s, j) PROVE Flow(r, i)'
  <2>1. CASE SendChunk(s, j)
    BY <1>1, <2>1, FlowSendChunk
  <2>2. CASE ~SendChunk(s, j)
    BY <1>1, <1>5, <2>2, FlowUpload
  <2> QED
    BY <2>1, <2>2
<1>6. ASSUME NEW s \in Sides, LoopTask(s) PROVE Flow(r, i)'
  <2>1. CASE InsertInbound(s)
    BY <1>1, <2>1, FlowInsertInbound
  <2>2. CASE IgnoreChunk(s) \/ WriteChunk(s) \/ WriteChunkFails(s)
    BY <1>1, <2>2, FlowChunk
  <2>3. CASE ~InsertInbound(s) /\ ~IgnoreChunk(s) /\ ~WriteChunk(s) /\ ~WriteChunkFails(s)
    BY <1>1, <1>6, <2>3, FlowLoop
  <2> QED
    BY <2>1, <2>2, <2>3
<1>7. ASSUME NEW s \in Sides,
             Vanish(s) \/ CancelTask(s) \/ CloseBegins(s) \/ CloseTask(s)
               \/ \E j \in Ids : Cancel(s, j)
      PROVE  Flow(r, i)'
  BY <1>1, <1>7, FlowSession
<1>8. CASE UNCHANGED vars
  <2>1. /\ UNCHANGED <<queue, open, closer, upload, altered, got, loop, spoiled, saved, inbounds>>
        /\ SameChunks(r, i)
    BY <1>8, SameCounts DEF vars, wire, session, sending, receiving
  <2> QED
    BY <1>1, <1>2, <2>1, FlowQuiet DEF Readable
<1> QED
  BY <1>2, <1>3, <1>4, <1>5, <1>6, <1>7, <1>8 DEF Next

LEMMA TransferInit == Init => TransferInv
<1> SUFFICES ASSUME Init PROVE TransferInv
  OBVIOUS
<1>1. TypeInv
  BY TypeInit
<1>2. Fresh /\ Phases
  BY DEF Init, Fresh, Phases, Readable
<1>3. \A q \in Sides : \A S : Count(queue[q], S) = 0
  <2>1. \A q \in Sides : queue[q] = <<>> /\ <<>> \in Seq(Message) /\ DOMAIN <<>> = {}
    BY DEF Init
  <2> QED
    BY <2>1, CountNone
<1>4. ASSUME NEW r \in Sides, NEW i \in Ids
      PROVE  /\ Token(r, i) <= 1 /\ ~Answered(r, i) /\ ~Started(r, i)
             /\ Flow(r, i) /\ LastEnds(r, i)
  <2> DEFINE t == Other(r)
  <2>0. t \in Sides
    BY OtherEnd
  <2>1. /\ upload[t][i].pc = "none" /\ upload[t][i].offset = 0 /\ upload[t][i].size = 0
        /\ upload[r][i].pc = "none" /\ upload[r][i].offset = 0
        /\ loop[r].pc = "idle" /\ i \notin inbounds[r] /\ i \notin saved[r]
        /\ i \notin decided[t] /\ got[r][i] = 0 /\ queue[r] = <<>>
    BY <2>0 DEF Init
  <2>2. \A q \in Sides : /\ \A k \in Kinds : Controls(q, k, i) = 0
                         /\ Units(q, i) = 0 /\ Lasts(q, i) = 0 /\ Chunks(q, i) = 0
    BY <1>3 DEF Controls, Units, Lasts, Chunks
  <2>3. Controls(r, "offer", i) = 0 /\ Controls(t, "decision", i) = 0 /\ Chunks(t, i) = 0
    BY <2>0, <2>2 DEF Kinds
  <2>4. Token(r, i) <= 1
    BY <2>1, <2>3 DEF Token, Pending, Held, Unsent, At, Bit
  <2>5. ~Answered(r, i) /\ ~Started(r, i)
    BY <2>1, <2>3 DEF Answered, Started, At
  <2>6. Flow(r, i)
    BY <2>1, <2>2 DEF Flow, Ending, At
  <2>7. LastEnds(r, i)
    BY <2>1 DEF LastEnds
  <2> QED
    BY <2>4, <2>5, <2>6, <2>7
<1> QED
  BY <1>1, <1>2, <1>4 DEF TransferInv, OneToken, AnsweredOnce, StartedDecided, Flows

LEMMA TransferStep == TransferInv /\ [Next]_vars => TransferInv'
<1> SUFFICES ASSUME TransferInv, [Next]_vars PROVE TransferInv'
  OBVIOUS
<1> USE DEF TransferInv
<1>1. TypeInv'
  BY TypeStep
<1>2. Fresh' /\ Phases'
  BY FreshStep, PhasesStep
<1>3. OneToken'
  BY <1>1, OneTokenStep
<1>4. AnsweredOnce' /\ StartedDecided'
  BY <1>1, <1>3, AnsweredOnceStep, StartedStep
<1>5. Flows'
  BY <1>1, FlowsStep
<1> QED
  BY <1>1, <1>2, <1>3, <1>4, <1>5

LEMMA TransferHolds == Spec => []TransferInv
BY TransferInit, TransferStep, PTL DEF Spec

LEMMA TransferTyped == TransferInv => TypeOK
<1> SUFFICES ASSUME TransferInv PROVE TypeOK
  OBVIOUS
<1>1. TypeInv
  BY DEF TransferInv
<1>2. queue \in [Sides -> Seq(Packet)]
  <2>1. \A p \in Message : p \in Packet
    BY MessageKinds
  <2>2. queue \in [Sides -> Seq(Message)]
    BY <1>1 DEF TypeInv
  <2>3. \A s \in Sides : queue[s] \in Seq(Packet)
    BY <2>1, <2>2
  <2> QED
    BY <2>2, <2>3
<1> QED
  BY <1>1, <1>2 DEF TypeInv, TypeOK, LoopType, UserType, Busy, Tables, Uploads, Counters

\* The variables of a channel have their types: packets are of the five kinds
\* the session exchanges, and the tables hold the ids of files sent.
THEOREM TypeCorrect == Spec => []TypeOK
BY TransferHolds, TransferTyped, PTL

\* A file in place holds every chunk that was read of the file sent, once, and is
\* the whole file, whatever is cancelled, lost or closed in between; unless writing
\* a chunk failed, or the file was not as long as announced
\* (handle_media_frame, accept_inbound and send_file of session.rs).
THEOREM SavedIsWholeHolds == Spec => []SavedIsWhole
<1>1. TransferInv => SavedIsWhole
  BY DEF TransferInv, Flows, Flow, Ending, SavedIsWhole, TypeInv, Tables
<1> QED
  BY <1>1, TransferHolds, PTL

-----------------------------------------------------------------------------
(* Temporary files.                                                        *)

\* The download that temporary file i of s is for.
Owned(s, i) == i \in inbounds[s] \/ At(s, "insert", i) \/ At(s, "rename", i)
Owners == \A s \in Sides : ~closed[s] => \A i \in temp[s] : Owned(s, i)

LEMMA ClosedStays ==
  ASSUME TypeInv, [Next]_vars, NEW s \in Sides, closed[s]
  PROVE  closed'[s]
<1>1. closed' = closed \/ \E q \in Sides : closed' = [closed EXCEPT ![q] = TRUE]
  <2>1. ASSUME NEW q \in Sides, LoopTask(q)
        PROVE  closed' = closed \/ closed' = [closed EXCEPT ![q] = TRUE]
    BY <2>1 DEF LoopTask, LoopRecv, LoopStops, TakeOffer, InsertInbound, SendDecision,
       TakeDecision, IgnoreChunk, WriteChunk, WriteChunkFails, Rename, SendAck, TakeAck,
       TakeCancel, CancelledByPeer, TakeFin
  <2>2. ASSUME NEW q \in Sides, NEW i \in Ids, UploadTask(q, i) \/ Cancel(q, i)
        PROVE  closed' = closed
    BY <2>2 DEF UploadTask, InsertOutbound, SendOffer, AwaitDecision, CheckCancelled,
       ReadFails, SendChunk, AwaitAck, Cancel, session
  <2>3. ASSUME NEW q \in Sides,
               Vanish(q) \/ SendFile(q) \/ CancelTask(q) \/ CloseBegins(q) \/ CloseTask(q)
        PROVE  closed' = closed \/ closed' = [closed EXCEPT ![q] = TRUE]
    BY <2>3 DEF Vanish, SendFile, CancelTask, CancelInbound, TellCancelled, CloseBegins,
       CloseTask, CloseSends, CloseStream, CloseInbounds, CloseOutbounds, session
  <2>4. CASE ConnectionLost \/ UNCHANGED vars
    BY <2>4 DEF ConnectionLost, vars, session
  <2> QED
    BY <2>1, <2>2, <2>3, <2>4 DEF Next
<1> QED
  BY <1>1 DEF TypeInv

LEMMA OwnersLoop ==
  ASSUME TypeInv, TypeInv', Owners, NEW s \in Sides, LoopTask(s),
         NEW r \in Sides, NEW i \in Ids, ~closed[r], ~closed'[r], i \in temp'[r]
  PROVE  Owned(r, i)'
<1>0. inbounds \in Tables /\ temp \in Tables
  BY DEF TypeInv
<1>1. i \in temp[r] => Owned(r, i)
  BY DEF Owners
<1>2. CASE TakeOffer(s)
  <2> DEFINE j == Head(queue[s]).id
  <2>1. loop[s].pc = "recv" /\ inbounds' = inbounds
    BY <1>2 DEF TakeOffer, Take
  <2>2. CASE LoopAt(s, "insert", j) /\ temp' = Add(temp, s, j)
    <3>1. \A q \in Sides : loop'[q] = IF q = s THEN [pc |-> "insert", id |-> j] ELSE loop[q]
      BY <2>2, LoopMoves
    <3>2. i \in temp[r] \/ (r = s /\ i = j)
      BY <1>0, <2>2 DEF Add, Tables
    <3> QED
      BY <1>1, <2>1, <3>1, <3>2 DEF Owned, At
  <2>3. CASE LoopAt(s, "idle", 0) /\ temp' = temp
    <3>1. \A q \in Sides : loop'[q] = IF q = s THEN [pc |-> "idle", id |-> 0] ELSE loop[q]
      BY <2>3, LoopMoves
    <3> QED
      BY <1>1, <2>1, <2>3, <3>1 DEF Owned, At
  <2> QED
    BY <1>2, <2>2, <2>3 DEF TakeOffer
<1>3. CASE InsertInbound(s)
  <2> DEFINE j == loop[s].id
  <2>1. \A q \in Sides : loop'[q] = IF q = s THEN [pc |-> "decide", id |-> j] ELSE loop[q]
    BY <1>3, LoopMoves DEF InsertInbound
  <2>2. loop[s].pc = "insert" /\ temp' = temp /\ inbounds' = Add(inbounds, s, j)
    BY <1>3 DEF InsertInbound
  <2>3. i \in inbounds'[r] <=> i \in inbounds[r] \/ (r = s /\ i = j)
    BY <1>0, <2>2 DEF Add, Tables
  <2> QED
    BY <1>1, <2>1, <2>2, <2>3 DEF Owned, At
<1>4. CASE WriteChunk(s)
  <2> DEFINE c == Head(queue[s])
  <2>1. loop[s].pc = "recv" /\ temp' = temp
    BY <1>4 DEF WriteChunk, Take
  <2>2. CASE c.eof
    <3>1. \A q \in Sides : loop'[q] = IF q = s THEN [pc |-> "rename", id |-> c.id] ELSE loop[q]
      BY <1>4, <2>2, LoopMoves DEF WriteChunk
    <3>2. i \in inbounds'[r] <=> i \in inbounds[r] /\ ~(r = s /\ i = c.id)
      BY <1>0, <1>4, <2>2 DEF WriteChunk, Drop, Tables
    <3> QED
      BY <1>1, <2>1, <3>1, <3>2 DEF Owned, At
  <2>3. CASE ~c.eof
    <3>1. \A q \in Sides : loop'[q] = IF q = s THEN [pc |-> "idle", id |-> 0] ELSE loop[q]
      BY <1>4, <2>3, LoopMoves DEF WriteChunk
    <3>2. inbounds' = inbounds
      BY <1>4, <2>3 DEF WriteChunk
    <3> QED
      BY <1>1, <2>1, <3>1, <3>2 DEF Owned, At
  <2> QED
    BY <2>2, <2>3
<1>5. CASE Rename(s)
  <2> DEFINE j == loop[s].id
  <2>1. PICK pc, k : LoopAt(s, pc, k)
    BY <1>5 DEF Rename
  <2>2. \A q \in Sides : q # s => loop'[q] = loop[q]
    BY <2>1, LoopMoves
  <2>3. loop[s].pc = "rename" /\ inbounds' = inbounds /\ temp' = Drop(temp, s, j)
    BY <1>5 DEF Rename
  <2>4. i \in temp[r] /\ ~(r = s /\ i = j)
    BY <1>0, <2>3 DEF Drop, Tables
  <2> QED
    BY <1>1, <2>2, <2>3, <2>4 DEF Owned, At
<1>6. CASE TakeCancel(s)
  <2> DEFINE j == Head(queue[s]).id
  <2>1. \A q \in Sides : loop'[q] = IF q = s THEN [pc |-> "uncancel", id |-> j] ELSE loop[q]
    BY <1>6, LoopMoves DEF TakeCancel
  <2>2. /\ loop[s].pc = "recv" /\ inbounds' = Drop(inbounds, s, j)
        /\ temp' = IF j \in inbounds[s] THEN Drop(temp, s, j) ELSE temp
    BY <1>6 DEF TakeCancel, Take, DropInbound
  <2>3. i \in inbounds'[r] <=> i \in inbounds[r] /\ ~(r = s /\ i = j)
    BY <1>0, <2>2 DEF Drop, Tables
  <2>4. i \in temp[r] /\ ~(r = s /\ i = j /\ j \in inbounds[s])
    BY <1>0, <2>2 DEF Drop, Tables
  <2> QED
    BY <1>1, <2>1, <2>2, <2>3, <2>4 DEF Owned, At
<1>7. CASE TakeFin(s)
  <2>1. closed'[s] /\ UNCHANGED <<inbounds, temp>>
    BY <1>7 DEF TakeFin, receiving, TypeInv
  <2>2. \A q \in Sides : q # s => loop'[q] = loop[q]
    <3>1. loop' = [loop EXCEPT ![s] = [pc |-> "ended", id |-> 0]]
      BY <1>7 DEF TakeFin, LoopAt
    <3>2. DOMAIN loop = Sides
      BY DEF TypeInv, LoopType
    <3> QED
      BY <3>1, <3>2
  <2> QED
    BY <1>1, <2>1, <2>2 DEF Owned, At
<1>8. CASE \/ LoopRecv(s) \/ LoopStops(s) \/ SendDecision(s) \/ TakeDecision(s)
           \/ IgnoreChunk(s) \/ WriteChunkFails(s) \/ SendAck(s) \/ TakeAck(s)
           \/ CancelledByPeer(s)
  <2>1. UNCHANGED <<inbounds, temp>> /\ loop[s].pc \notin {"insert", "rename"}
    BY <1>8 DEF LoopRecv, LoopStops, SendDecision, TakeDecision, IgnoreChunk, WriteChunkFails,
       SendAck, TakeAck, CancelledByPeer, Take, receiving
  <2>2. PICK pc, j : LoopAt(s, pc, j)
    BY <1>8 DEF LoopRecv, LoopStops, SendDecision, TakeDecision, IgnoreChunk, WriteChunkFails,
       SendAck, TakeAck, CancelledByPeer
  <2>3. \A q \in Sides : q # s => loop'[q] = loop[q]
    BY <2>2, LoopMoves
  <2> QED
    BY <1>1, <2>1, <2>3 DEF Owned, At
<1> QED
  BY <1>2, <1>3, <1>4, <1>5, <1>6, <1>7, <1>8 DEF LoopTask

LEMMA OwnersStep ==
  ASSUME TypeInv, TypeInv', Phases, Owners, [Next]_vars
  PROVE  Owners'
<1> SUFFICES ASSUME NEW r \in Sides, NEW i \in temp'[r], ~closed'[r] PROVE Owned(r, i)'
  BY DEF Owners
<1>0. /\ inbounds \in Tables /\ temp \in Tables /\ i \in Ids
      /\ ~closed[r] /\ (i \in temp[r] => Owned(r, i))
  BY ClosedStays DEF TypeInv, Tables, Owners
<1>1. ASSUME UNCHANGED <<inbounds, temp, loop>> PROVE Owned(r, i)'
  BY <1>0, <1>1 DEF Owned, At
<1>2. CASE ConnectionLost \/ UNCHANGED vars
  BY <1>1, <1>2 DEF ConnectionLost, vars, session, receiving
<1>3. ASSUME NEW s \in Sides, LoopTask(s) PROVE Owned(r, i)'
  BY <1>0, <1>3, OwnersLoop
<1>4. ASSUME NEW s \in Sides, NEW j \in Ids, UploadTask(s, j) \/ Cancel(s, j)
      PROVE  Owned(r, i)'
  BY <1>1, <1>4 DEF UploadTask, InsertOutbound, SendOffer, AwaitDecision, CheckCancelled,
     ReadFails, SendChunk, AwaitAck, Cancel, session, receiving
<1>5. ASSUME NEW s \in Sides, CancelInbound(s) PROVE Owned(r, i)'
  <2> DEFINE j == user[s].id
  <2>1. /\ loop' = loop /\ inbounds' = Drop(inbounds, s, j)
        /\ temp' = IF j \in inbounds[s] THEN Drop(temp, s, j) ELSE temp
    BY <1>5 DEF CancelInbound, DropInbound
  <2>2. i \in inbounds'[r] <=> i \in inbounds[r] /\ ~(r = s /\ i = j)
    BY <1>0, <2>1 DEF Drop, Tables
  <2>3. i \in temp[r] /\ ~(r = s /\ i = j /\ j \in inbounds[s])
    BY <1>0, <2>1 DEF Drop, Tables
  <2> QED
    BY <1>0, <2>1, <2>2, <2>3 DEF Owned, At
<1>6. ASSUME NEW s \in Sides, CloseInbounds(s) PROVE Owned(r, i)'
  <2>1. s # r
    BY <1>0, <1>6 DEF CloseInbounds, CloserAt, Phases
  <2>2. loop' = loop /\ inbounds'[r] = inbounds[r] /\ temp'[r] = temp[r]
    BY <1>0, <1>6, <2>1 DEF CloseInbounds, Tables
  <2> QED
    BY <1>0, <2>2 DEF Owned, At
<1>7. ASSUME NEW s \in Sides,
             \/ Vanish(s) \/ SendFile(s) \/ TellCancelled(s) \/ CloseBegins(s)
             \/ CloseSends(s) \/ CloseStream(s) \/ CloseOutbounds(s)
      PROVE  Owned(r, i)'
  BY <1>1, <1>7 DEF Vanish, SendFile, TellCancelled, CloseBegins, CloseSends, CloseStream,
     CloseOutbounds, session, receiving
<1> QED
  BY <1>2, <1>3, <1>4, <1>5, <1>6, <1>7 DEF Next, CancelTask, CloseTask

\* As long as the session is open, each temporary file belongs to a download in
\* the table or to the one the receive loop is accepting or finishing: no way a
\* transfer ends leaves one behind (accept_inbound, handle_media_frame,
\* cancel_transfer and the drop of an inbound in session.rs).
THEOREM TempOwnedHolds == Spec => []TempOwned
<1>1. Init => Owners
  BY DEF Init, Owners
<1>2. TransferInv /\ TransferInv' /\ Owners /\ [Next]_vars => Owners'
  BY OwnersStep DEF TransferInv
<1>3. TransferInv /\ Owners => TempOwned
  BY DEF TransferInv, TypeInv, Tables, Owners, Owned, At, TempOwned
<1> QED
  BY <1>1, <1>2, <1>3, TransferHolds, PTL DEF Spec

-----------------------------------------------------------------------------
(* Acknowledgements.                                                       *)

\* End r has the file in place, or is about to say so, or has said so.
Confirmed(r, i) ==
  i \in acked[Other(r)] \/ Controls(Other(r), "ack", i) > 0 \/ At(r, "ack", i)

ConfirmedSaved == \A r \in Sides : \A i \in Ids : Confirmed(r, i) => i \in saved[r]

\* An acknowledgement comes from the rename, and from nothing else.
LEMMA ConfirmedStep ==
  ASSUME TypeInv, TypeInv', [Next]_vars, NEW r \in Sides, NEW i \in Ids, Confirmed(r, i)'
  PROVE  Confirmed(r, i) \/ (i \in saved[r])'
<1> DEFINE t == Other(r)
<1>0. /\ t \in Sides /\ Other(t) = r /\ r # t
      /\ Controls(t, "ack", i) \in Nat /\ Controls(t, "ack", i)' \in Nat
  BY OtherEnd, CountsAreNat, CountsAreNatNext DEF Kinds
<1> HIDE DEF t
<1>1. ASSUME (i \in acked[t])' => i \in acked[t],
             Controls(t, "ack", i)' <= Controls(t, "ack", i),
             At(r, "ack", i)' => At(r, "ack", i)
      PROVE  Confirmed(r, i)
  BY <1>0, <1>1 DEF Confirmed, t
<1>2. ASSUME queue' = queue
      PROVE  Controls(t, "ack", i)' <= Controls(t, "ack", i)
  BY <1>0, <1>2, SameCounts DEF SameControls, Kinds
<1>3. CASE ConnectionLost
  <2>1. Controls(t, "ack", i)' = 0
    BY <1>0, <1>3, LostCounts DEF Kinds
  <2> QED
    BY <1>0, <1>1, <1>3, <2>1 DEF ConnectionLost, session, sending, At
<1>4. ASSUME NEW s \in Sides,
             Vanish(s) \/ SendFile(s) \/ CancelInbound(s) \/ CloseBegins(s)
               \/ CloseStream(s) \/ CloseInbounds(s) \/ CloseOutbounds(s)
               \/ \E j \in Ids : Cancel(s, j)
      PROVE  Confirmed(r, i)
  BY <1>1, <1>2, <1>4 DEF Vanish, SendFile, CancelInbound, CloseBegins, CloseStream,
       CloseInbounds, CloseOutbounds, Cancel, At, wire, session, sending
<1>5. ASSUME NEW s \in Sides, TellCancelled(s) \/ CloseSends(s)
      PROVE  Confirmed(r, i)
  <2>1. Controls(t, "ack", i)' <= Controls(t, "ack", i)
    <3>1. CASE TellCancelled(s)
      <4>1. user[s].id \in Ids /\ Write(s, Control("cancel", user[s].id))
        BY <3>1 DEF TellCancelled, TypeInv, UserType
      <4> QED
        BY <1>0, <4>1, WriteControl DEF Kinds, Bit
    <3>2. CASE CloseSends(s)
      BY <1>0, <3>2, WriteFin DEF CloseSends, SameControls, Kinds
    <3> QED
      BY <1>5, <3>1, <3>2
  <2> QED
    BY <1>1, <1>5, <2>1 DEF TellCancelled, CloseSends, At, sending
<1>6. ASSUME NEW s \in Sides, NEW j \in Ids, UploadTask(s, j) PROVE Confirmed(r, i)
  <2>1. Controls(t, "ack", i)' <= Controls(t, "ack", i)
    <3>1. CASE SendOffer(s, j)
      BY <1>0, <3>1, WriteControl DEF SendOffer, Kinds, Bit
    <3>2. CASE SendChunk(s, j)
      BY <1>0, <3>2, ChunkSent, WriteChunkCounts DEF ChunkGoes, SameControls, Kinds
    <3>3. CASE ~SendOffer(s, j) /\ ~SendChunk(s, j)
      BY <1>2, <1>6, <3>3 DEF UploadTask, InsertOutbound, AwaitDecision, CheckCancelled,
                              ReadFails, AwaitAck, wire
    <3> QED
      BY <3>1, <3>2, <3>3
  <2> QED
    BY <1>1, <1>6, <2>1 DEF UploadTask, InsertOutbound, SendOffer, AwaitDecision,
         CheckCancelled, ReadFails, SendChunk, AwaitAck, session, At
<1>7. ASSUME NEW s \in Sides, LoopTask(s) PROVE Confirmed(r, i) \/ (i \in saved[r])'
  <2>1. CASE Rename(s)
    <3> DEFINE j == loop[s].id
    <3>1. CASE LoopAt(s, "ack", j) /\ saved' = Add(saved, s, j)
      <4>1. \A q \in Sides : loop'[q] = IF q = s THEN [pc |-> "ack", id |-> j] ELSE loop[q]
        BY <3>1, LoopMoves
      <4>2. saved \in Tables
        BY DEF TypeInv
      <4>3. CASE r = s /\ j = i
        <5>1. j \in Ids
          BY <4>3
        <5> QED
          BY <3>1, <4>2, <4>3 DEF Add, Tables
      <4>4. CASE ~(r = s /\ j = i)
        BY <1>1, <1>2, <2>1, <4>1, <4>4 DEF Rename, At, wire, sending
      <4> QED
        BY <4>3, <4>4
    <3>2. CASE LoopAt(s, "idle", 0)
      <4>1. At(r, "ack", i)' => At(r, "ack", i)
        BY <3>2, LoopLeaves
      <4> QED
        BY <1>1, <1>2, <2>1, <4>1 DEF Rename, wire, sending
    <3> QED
      BY <2>1, <3>1, <3>2 DEF Rename
  <2>2. CASE SendAck(s)
    <3>1. loop[s].id \in Ids /\ Write(s, Control("ack", loop[s].id)) /\ acked' = acked
      BY <2>2 DEF SendAck, TypeInv, LoopType, Busy, sending
    <3>2. Controls(t, "ack", i)' =
            Controls(t, "ack", i) + Bit(Reaches(s, t) /\ i = loop[s].id)
      BY <1>0, <3>1, WriteControl DEF Kinds
    <3>3. Reaches(s, t) => s = r
      BY <1>0, OtherEnd DEF Reaches
    <3>4. s = r /\ i = loop[s].id => At(r, "ack", i)
      BY <2>2 DEF SendAck, At
    <3>5. At(r, "ack", i)' => At(r, "ack", i)
      BY <2>2, LoopLeaves DEF SendAck
    <3> QED
      BY <1>0, <3>1, <3>2, <3>3, <3>4, <3>5 DEF Confirmed, Bit, t
  <2>3. CASE TakeAck(s)
    <3> DEFINE k == Head(queue[s]).id
    <3>1. Controls(t, "ack", i) = Controls(t, "ack", i)' + Bit(t = s /\ i = k)
      BY <1>0, <2>3, TakeControl DEF TakeAck, Kinds
    <3>2. (i \in acked[t])' => i \in acked[t] \/ (t = s /\ i = k)
      <4>1. acked \in Tables /\ (acked' = acked \/ acked' = Add(acked, s, k))
        BY <2>3 DEF TakeAck, TypeInv
      <4> QED
        BY <1>0, <4>1 DEF Add, Tables
    <3>3. At(r, "ack", i)' => At(r, "ack", i)
      BY <2>3, LoopLeaves DEF TakeAck
    <3> QED
      BY <1>0, <3>1, <3>2, <3>3 DEF Confirmed, Bit, t
  <2>4. ASSUME NEW pc, NEW j, LoopAt(s, pc, j), pc # "ack", acked' = acked,
               Controls(t, "ack", i)' <= Controls(t, "ack", i)
        PROVE  Confirmed(r, i)
    <3>1. At(r, "ack", i)' => At(r, "ack", i)
      BY <2>4, LoopLeaves
    <3> QED
      BY <1>1, <2>4, <3>1
  <2>5. CASE LoopRecv(s) \/ LoopStops(s) \/ InsertInbound(s) \/ CancelledByPeer(s)
    <3>1. Controls(t, "ack", i)' <= Controls(t, "ack", i)
      BY <1>2, <2>5 DEF LoopRecv, LoopStops, InsertInbound, CancelledByPeer, wire
    <3> QED
      BY <2>4, <2>5, <3>1 DEF LoopRecv, LoopStops, InsertInbound, CancelledByPeer, sending
  <2>6. CASE SendDecision(s)
    <3>1. loop[s].id \in Ids /\ Write(s, Control("decision", loop[s].id))
      BY <2>6 DEF SendDecision, TypeInv, LoopType, Busy
    <3>2. Controls(t, "ack", i)' <= Controls(t, "ack", i)
      BY <1>0, <3>1, WriteControl DEF Kinds, Bit
    <3> QED
      BY <2>4, <2>6, <3>2 DEF SendDecision, sending
  <2>7. CASE TakeOffer(s) \/ TakeDecision(s) \/ TakeCancel(s)
    <3>1. PICK k \in {"offer", "decision", "cancel"} : Take(s, k)
      BY <2>7 DEF TakeOffer, TakeDecision, TakeCancel
    <3>2. Controls(t, "ack", i)' <= Controls(t, "ack", i)
      BY <1>0, <3>1, TakeControl DEF Kinds, Bit
    <3> QED
      BY <2>4, <2>7, <3>2 DEF TakeOffer, TakeDecision, TakeCancel, sending
  <2>8. CASE IgnoreChunk(s) \/ WriteChunk(s) \/ WriteChunkFails(s) \/ TakeFin(s)
    <3>1. Controls(t, "ack", i)' <= Controls(t, "ack", i)
      BY <1>0, <2>8, TakeChunk, TakeFinCounts
         DEF IgnoreChunk, WriteChunk, WriteChunkFails, TakeFin, SameControls, Kinds
    <3> QED
      BY <2>4, <2>8, <3>1 DEF IgnoreChunk, WriteChunk, WriteChunkFails, TakeFin, sending
  <2> QED
    BY <1>7, <2>1, <2>2, <2>3, <2>5, <2>6, <2>7, <2>8 DEF LoopTask
<1>8. CASE UNCHANGED vars
  BY <1>1, <1>2, <1>8 DEF vars, wire, session, sending, At
<1> QED
  BY <1>3, <1>4, <1>5, <1>6, <1>7, <1>8 DEF Next, CancelTask, CloseTask

\* A file in place stays there, and an acknowledgement received counts for good.
LEMMA SavedStays ==
  ASSUME TypeInv, [Next]_vars, NEW s \in Sides
  PROVE  saved[s] \subseteq saved'[s] /\ acked[s] \subseteq acked'[s]
<1>1. saved \in Tables /\ acked \in Tables
  BY DEF TypeInv
<1>2. /\ saved' = saved \/ \E q \in Sides : \E i : saved' = Add(saved, q, i)
      /\ acked' = acked \/ \E q \in Sides : \E i : acked' = Add(acked, q, i)
  <2>1. ASSUME NEW q \in Sides, LoopTask(q)
        PROVE  /\ saved' = saved \/ \E i : saved' = Add(saved, q, i)
               /\ acked' = acked \/ \E i : acked' = Add(acked, q, i)
    <3>1. CASE Rename(q) \/ TakeAck(q)
      BY <3>1 DEF Rename, TakeAck, sending, receiving
    <3>2. CASE ~(Rename(q) \/ TakeAck(q))
      BY <2>1, <3>2 DEF LoopTask, LoopRecv, LoopStops, TakeOffer, InsertInbound, SendDecision,
         TakeDecision, IgnoreChunk, WriteChunk, WriteChunkFails, SendAck, TakeCancel,
         CancelledByPeer, TakeFin, sending, receiving
    <3> QED
      BY <3>1, <3>2
  <2>2. ASSUME NEW q \in Sides, NEW i \in Ids, UploadTask(q, i) \/ Cancel(q, i)
        PROVE  saved' = saved /\ acked' = acked
    BY <2>2 DEF UploadTask, InsertOutbound, SendOffer, AwaitDecision, CheckCancelled,
       ReadFails, SendChunk, AwaitAck, Cancel, receiving
  <2>3. ASSUME NEW q \in Sides,
               Vanish(q) \/ SendFile(q) \/ CancelTask(q) \/ CloseBegins(q) \/ CloseTask(q)
        PROVE  saved' = saved /\ acked' = acked
    BY <2>3 DEF Vanish, SendFile, CancelTask, CancelInbound, TellCancelled, CloseBegins,
       CloseTask, CloseSends, CloseStream, CloseInbounds, CloseOutbounds, sending, receiving
  <2>4. CASE ConnectionLost \/ UNCHANGED vars
    BY <2>4 DEF ConnectionLost, vars, sending, receiving
  <2> QED
    BY <2>1, <2>2, <2>3, <2>4 DEF Next
<1> QED
  BY <1>1, <1>2 DEF Add, Tables

LEMMA ConfirmedSavedStep ==
  ASSUME TypeInv, TypeInv', ConfirmedSaved, [Next]_vars
  PROVE  ConfirmedSaved'
<1> SUFFICES ASSUME NEW r \in Sides, NEW i \in Ids, Confirmed(r, i)' PROVE i \in saved'[r]
  BY DEF ConfirmedSaved
<1>1. Confirmed(r, i) \/ i \in saved'[r]
  BY ConfirmedStep
<1>2. saved[r] \subseteq saved'[r]
  BY SavedStays
<1> QED
  BY <1>1, <1>2 DEF ConfirmedSaved

\* A step that is none of the receive loop's, an upload's or a cancellation.
Elsewhere(s) == Vanish(s) \/ SendFile(s) \/ CloseBegins(s) \/ CloseTask(s)

\* An upload becomes complete by its own task, once it is acknowledged.
LEMMA CompletedMoves ==
  ASSUME TypeInv, [Next]_vars, NEW s \in Sides, NEW i \in completed'[s], i \notin completed[s]
  PROVE  AwaitAck(s, i) /\ i \in acked[s] /\ failed' = failed
<1>1. completed' # completed
  OBVIOUS
<1>2. PICK q \in Sides, j \in Ids : AwaitAck(q, j)
  <2>1. ASSUME NEW q \in Sides, LoopTask(q) PROVE completed' = completed
    BY <2>1 DEF LoopTask, LoopRecv, LoopStops, TakeOffer, InsertInbound, SendDecision,
       TakeDecision, IgnoreChunk, WriteChunk, WriteChunkFails, Rename, SendAck, TakeAck,
       TakeCancel, CancelledByPeer, TakeFin, told
  <2>2. ASSUME NEW q \in Sides, NEW j \in Ids, UploadTask(q, j), ~AwaitAck(q, j)
        PROVE  completed' = completed
    BY <2>2 DEF UploadTask, InsertOutbound, SendOffer, AwaitDecision, CheckCancelled,
       ReadFails, SendChunk, told
  <2>3. ASSUME NEW q \in Sides, Elsewhere(q) \/ CancelTask(q) \/ \E j \in Ids : Cancel(q, j)
        PROVE  completed' = completed
    BY <2>3 DEF Elsewhere, Vanish, SendFile, CancelTask, CancelInbound, TellCancelled,
       CloseBegins, CloseTask, CloseSends, CloseStream, CloseInbounds, CloseOutbounds, Cancel, told
  <2>4. ASSUME ConnectionLost \/ UNCHANGED vars PROVE completed' = completed
    BY <2>4 DEF ConnectionLost, vars, told
  <2> QED
    BY <1>1, <2>1, <2>2, <2>3, <2>4 DEF Next, Elsewhere
<1>3. /\ completed \in Tables
      /\ completed' = completed
           \/ (completed' = Add(completed, q, j) /\ j \in acked[q] /\ failed' = failed)
  BY <1>2 DEF AwaitAck, TypeInv
<1>4. q = s /\ j = i
  BY <1>1, <1>3 DEF Add, Tables
<1> QED
  BY <1>1, <1>2, <1>3, <1>4

\* An upload reported complete has ended, with an acknowledgement.
CompletedDone ==
  \A s \in Sides : \A i \in completed[s] : i \in acked[s] /\ upload[s][i].pc = "done"

\* An upload that has ended, or that has been given its number, stays so.
LEMMA DoneStays ==
  ASSUME TypeInv, Fresh, [Next]_vars, NEW s \in Sides, NEW i \in Ids
  PROVE  /\ upload[s][i].pc = "done" => upload'[s][i].pc = "done"
         /\ upload[s][i].pc # "none" => upload'[s][i].pc # "none"
         /\ upload[s][i].pc \notin {"none", "insert"} => upload'[s][i].pc \notin {"none", "insert"}
<1>1. ASSUME upload' = upload PROVE upload'[s][i].pc = upload[s][i].pc
  BY <1>1
<1>2. CASE ConnectionLost \/ UNCHANGED vars
  BY <1>1, <1>2 DEF ConnectionLost, vars, sending
<1>3. ASSUME NEW q \in Sides, LoopTask(q) PROVE upload'[s][i].pc = upload[s][i].pc
  BY <1>1, <1>3 DEF LoopTask, LoopRecv, LoopStops, TakeOffer, InsertInbound, SendDecision,
     TakeDecision, IgnoreChunk, WriteChunk, WriteChunkFails, Rename, SendAck, TakeAck,
     TakeCancel, CancelledByPeer, TakeFin, sending
<1>4. ASSUME NEW q \in Sides,
             Vanish(q) \/ CancelTask(q) \/ CloseBegins(q) \/ CloseTask(q)
               \/ \E j \in Ids : Cancel(q, j)
      PROVE  upload'[s][i].pc = upload[s][i].pc
  BY <1>1, <1>4 DEF Vanish, CancelTask, CancelInbound, TellCancelled, CloseBegins,
     CloseTask, CloseSends, CloseStream, CloseInbounds, CloseOutbounds, Cancel, sending
<1>5. ASSUME NEW q \in Sides, SendFile(q)
      PROVE  \/ upload'[s][i].pc = upload[s][i].pc
             \/ upload[s][i].pc = "none" /\ upload'[s][i].pc = "insert"
  <2>1. PICK size \in 0 .. MaxChunks :
          upload' = [upload EXCEPT ![q][next[q]] = [pc |-> "insert", size |-> size, offset |-> 0]]
    BY <1>5 DEF SendFile
  <2>2. upload \in Uploads /\ (s = q /\ i = next[q] => upload[s][i].pc = "none")
    BY ConstantsAssumption DEF TypeInv, Fresh, Ids
  <2> QED
    BY <2>1, <2>2 DEF Uploads
<1>6. ASSUME NEW q \in Sides, NEW j \in Ids, UploadTask(q, j)
      PROVE  \/ upload'[s][i].pc = upload[s][i].pc
             \/ /\ upload[s][i].pc \notin {"none", "done"}
                /\ upload'[s][i].pc \notin {"none", "insert"}
  <2>1. CASE SendChunk(q, j)
    BY <2>1, ChunkSent DEF ChunkGoes, Advanced, PcMoves
  <2>2. CASE ~SendChunk(q, j)
    <3>1. PICK from, to : Goto(q, j, from, to) /\ from \notin {"none", "done"}
                            /\ to \notin {"none", "insert"}
      BY <1>6, <2>2 DEF UploadTask, InsertOutbound, SendOffer, AwaitDecision, CheckCancelled,
         ReadFails, AwaitAck, Goto
    <3>2. upload[q][j].pc = from /\ PcMoves(q, j, to)
      BY <3>1, UploadMoves
    <3> QED
      BY <3>1, <3>2 DEF PcMoves
  <2> QED
    BY <2>1, <2>2
<1> QED
  BY <1>2, <1>3, <1>4, <1>5, <1>6 DEF Next

LEMMA CompletedDoneStep ==
  ASSUME TypeInv, TypeInv', Fresh, CompletedDone, [Next]_vars
  PROVE  CompletedDone'
<1> SUFFICES ASSUME NEW s \in Sides, NEW i \in completed'[s]
             PROVE  i \in acked'[s] /\ upload'[s][i].pc = "done"
  BY DEF CompletedDone
<1>0. i \in Ids /\ completed \in Tables /\ acked[s] \subseteq acked'[s]
  BY SavedStays DEF TypeInv, Tables
<1>1. CASE i \in completed[s]
  BY <1>0, <1>1, DoneStays DEF CompletedDone
<1>2. CASE i \notin completed[s]
  <2>1. AwaitAck(s, i) /\ i \in acked[s]
    BY <1>2, CompletedMoves
  <2>2. PcMoves(s, i, "done")
    BY <1>0, <2>1, UploadMoves DEF AwaitAck
  <2> QED
    BY <1>0, <2>1, <2>2 DEF PcMoves
<1> QED
  BY <1>1, <1>2

\* What the acknowledgements say.
AckInv == TransferInv /\ ConfirmedSaved /\ CompletedDone

LEMMA AckHolds == Spec => []AckInv
<1>1. Init => ConfirmedSaved /\ CompletedDone
  <2> SUFFICES ASSUME Init PROVE ConfirmedSaved /\ CompletedDone
    OBVIOUS
  <2>1. \A q \in Sides : \A S : Count(queue[q], S) = 0
    <3>1. \A q \in Sides : queue[q] = <<>> /\ <<>> \in Seq(Message) /\ DOMAIN <<>> = {}
      BY DEF Init
    <3> QED
      BY <3>1, CountNone
  <2>2. ASSUME NEW r \in Sides, NEW i \in Ids PROVE ~Confirmed(r, i)
    <3>1. i \notin acked[Other(r)] /\ Controls(Other(r), "ack", i) = 0 /\ loop[r].pc = "idle"
      BY <2>1, OtherEnd DEF Init, Controls
    <3> QED
      BY <3>1 DEF Confirmed, At
  <2> QED
    BY <2>2 DEF Init, ConfirmedSaved, CompletedDone
<1>2. TransferInv /\ TransferInv' /\ ConfirmedSaved /\ [Next]_vars => ConfirmedSaved'
  BY ConfirmedSavedStep DEF TransferInv
<1>3. TransferInv /\ TransferInv' /\ CompletedDone /\ [Next]_vars => CompletedDone'
  BY CompletedDoneStep DEF TransferInv
<1> QED
  BY <1>1, <1>2, <1>3, TransferHolds, PTL DEF Spec, AckInv

\* An upload is reported complete only if the other end has the file in place:
\* FileAck is sent after the rename and answers it (handle_media_frame,
\* handle_control_msg of session.rs).
THEOREM CompletedIsSavedHolds == Spec => []CompletedIsSaved
<1>1. AckInv => CompletedIsSaved
  <2> SUFFICES ASSUME AckInv, NEW s \in Sides, NEW i \in completed[s]
               PROVE  i \in saved[Other(s)]
    BY DEF CompletedIsSaved
  <2>1. i \in Ids /\ i \in acked[s]
    BY DEF AckInv, TransferInv, TypeInv, Tables, CompletedDone
  <2>2. Confirmed(Other(s), i)
    BY <2>1, OtherEnd DEF Confirmed
  <2> QED
    BY <2>1, <2>2, OtherEnd DEF AckInv, ConfirmedSaved
<1> QED
  BY <1>1, AckHolds, PTL

-----------------------------------------------------------------------------
(* One outcome for each upload.                                            *)

\* An upload enters the table as it is inserted, and leaves it as it is
\* acknowledged.
LEMMA TableMoves ==
  ASSUME TypeInv, [Next]_vars, NEW s \in Sides, NEW i \in Ids
  PROVE  /\ i \in outbounds'[s] =>
              \/ i \in outbounds[s]
              \/ upload[s][i].pc = "insert" /\ upload'[s][i].pc = "offer" /\ acked' = acked
         /\ i \in acked'[s] => i \in acked[s] \/ (i \in outbounds[s] /\ i \notin outbounds'[s])
<1>0. outbounds \in Tables /\ acked \in Tables
  BY DEF TypeInv
<1> DEFINE Goal == /\ i \in outbounds'[s] =>
                        \/ i \in outbounds[s]
                        \/ /\ upload[s][i].pc = "insert" /\ upload'[s][i].pc = "offer"
                           /\ acked' = acked
                   /\ i \in acked'[s] =>
                        i \in acked[s] \/ (i \in outbounds[s] /\ i \notin outbounds'[s])
<1>1. ASSUME acked' = acked,
             outbounds' = outbounds \/ (\E q, j : outbounds' = Drop(outbounds, q, j))
               \/ (\E q : outbounds' = [outbounds EXCEPT ![q] = {}])
      PROVE  Goal
  BY <1>0, <1>1 DEF Drop, Tables
<1>2. ASSUME NEW q \in Sides, LoopTask(q) PROVE Goal
  <2>1. CASE TakeAck(q)
    <3> DEFINE j == Head(queue[q]).id
    <3>1. /\ acked' = IF j \in outbounds[q] THEN Add(acked, q, j) ELSE acked
          /\ outbounds' = Drop(outbounds, q, j)
      BY <2>1 DEF TakeAck
    <3> HIDE DEF j
    <3> QED
      BY <1>0, <3>1 DEF Add, Drop, Tables
  <2>2. CASE ~TakeAck(q)
    BY <1>1, <1>2, <2>2 DEF LoopTask, LoopRecv, LoopStops, TakeOffer, InsertInbound,
       SendDecision, TakeDecision, IgnoreChunk, WriteChunk, WriteChunkFails, Rename, SendAck,
       TakeCancel, CancelledByPeer, DropOutbound, TakeFin, sending
  <2> QED
    BY <2>1, <2>2
<1>3. ASSUME NEW q \in Sides, NEW j \in Ids, UploadTask(q, j) PROVE Goal
  <2>1. CASE InsertOutbound(q, j)
    <3>1. upload[q][j].pc = "insert" /\ PcMoves(q, j, "offer")
      BY <2>1, UploadMoves DEF InsertOutbound
    <3>2. outbounds' = Add(outbounds, q, j) /\ acked' = acked
      BY <2>1 DEF InsertOutbound
    <3>3. i \in outbounds'[s] => i \in outbounds[s] \/ (s = q /\ i = j)
      BY <1>0, <3>2 DEF Add, Tables
    <3> QED
      BY <3>1, <3>2, <3>3 DEF PcMoves
  <2>2. CASE ~InsertOutbound(q, j)
    BY <1>1, <1>3, <2>2 DEF UploadTask, SendOffer, AwaitDecision, CheckCancelled, ReadFails,
       SendChunk, AwaitAck
  <2> QED
    BY <2>1, <2>2
<1>4. ASSUME NEW q \in Sides, Elsewhere(q) \/ CancelTask(q) \/ \E j \in Ids : Cancel(q, j)
      PROVE  Goal
  BY <1>1, <1>4 DEF Elsewhere, Vanish, SendFile, CloseBegins, CloseTask, CloseSends,
     CloseStream, CloseInbounds, CloseOutbounds, CancelTask, CancelInbound, TellCancelled,
     Cancel, DropOutbound, sending
<1>5. CASE ConnectionLost \/ UNCHANGED vars
  BY <1>1, <1>5 DEF ConnectionLost, vars, sending
<1> QED
  BY <1>2, <1>3, <1>4, <1>5 DEF Next, Elsewhere

\* An upload in the table, or acknowledged, has been inserted, and is not both.
Entered ==
  \A s \in Sides : \A i \in Ids :
    /\ i \in outbounds[s] \cup acked[s] => upload[s][i].pc \notin {"none", "insert"}
    /\ i \notin outbounds[s] \cap acked[s]

\* An upload that has left the table unacknowledged.
Gone(s, i) ==
  i \notin outbounds[s] /\ i \notin acked[s] /\ upload[s][i].pc \notin {"none", "insert"}

LEMMA EnteredStep ==
  ASSUME TypeInv, Fresh, Entered, [Next]_vars
  PROVE  Entered'
<1> SUFFICES ASSUME NEW s \in Sides, NEW i \in Ids
             PROVE  /\ i \in outbounds'[s] \cup acked'[s] =>
                         upload'[s][i].pc \notin {"none", "insert"}
                    /\ i \notin outbounds'[s] \cap acked'[s]
  BY DEF Entered
<1> QED
  BY TableMoves, DoneStays DEF Entered

LEMMA GoneStays ==
  ASSUME TypeInv, Fresh, [Next]_vars, NEW s \in Sides, NEW i \in Ids, Gone(s, i)
  PROVE  Gone(s, i)'
BY TableMoves, DoneStays DEF Gone

\* An end that sends no files has no uploads.
Quiet == \A s \in Sides : s \notin Senders => \A i \in Ids : upload[s][i].pc = "none"

LEMMA QuietStep ==
  ASSUME TypeInv, Quiet, [Next]_vars
  PROVE  Quiet'
<1> SUFFICES ASSUME NEW s \in Sides, s \notin Senders, NEW i \in Ids
             PROVE  upload'[s][i].pc = "none"
  BY DEF Quiet
<1>0. upload \in Uploads /\ \A j \in Ids : upload[s][j].pc = "none"
  BY DEF TypeInv, Quiet
<1>1. ASSUME NEW q \in Sides, SendFile(q) PROVE upload'[s][i].pc = "none"
  <2>1. PICK size \in 0 .. MaxChunks :
          upload' = [upload EXCEPT ![q][next[q]] = [pc |-> "insert", size |-> size, offset |-> 0]]
    BY <1>1 DEF SendFile
  <2>2. q # s
    BY <1>1 DEF SendFile
  <2> QED
    BY <1>0, <2>1, <2>2 DEF Uploads
<1>2. ASSUME NEW q \in Sides, NEW j \in Ids, UploadTask(q, j) PROVE upload'[s][i].pc = "none"
  <2>1. upload[q][j].pc # "none"
    BY <1>2 DEF UploadTask, InsertOutbound, SendOffer, AwaitDecision, CheckCancelled,
       ReadFails, SendChunk, AwaitAck, Goto
  <2>2. q # s
    BY <1>0, <2>1
  <2>3. CASE SendChunk(q, j)
    BY <1>0, <2>2, <2>3, ChunkSent DEF ChunkGoes, Advanced, PcMoves
  <2>4. CASE ~SendChunk(q, j)
    <3>1. PICK from, to : Goto(q, j, from, to)
      BY <1>2, <2>4 DEF UploadTask, InsertOutbound, SendOffer, AwaitDecision, CheckCancelled,
         ReadFails, AwaitAck, Goto
    <3> QED
      BY <1>0, <2>2, <3>1, UploadMoves DEF PcMoves
  <2> QED
    BY <2>3, <2>4
<1>3. ASSUME upload' = upload PROVE upload'[s][i].pc = "none"
  BY <1>0, <1>3
<1>4. ASSUME NEW q \in Sides, LoopTask(q) PROVE upload'[s][i].pc = "none"
  BY <1>3, <1>4 DEF LoopTask, LoopRecv, LoopStops, TakeOffer, InsertInbound, SendDecision,
     TakeDecision, IgnoreChunk, WriteChunk, WriteChunkFails, Rename, SendAck, TakeAck,
     TakeCancel, CancelledByPeer, TakeFin, sending
<1>5. ASSUME NEW q \in Sides,
             Vanish(q) \/ CancelTask(q) \/ CloseBegins(q) \/ CloseTask(q)
               \/ \E j \in Ids : Cancel(q, j)
      PROVE  upload'[s][i].pc = "none"
  BY <1>3, <1>5 DEF Vanish, CancelTask, CancelInbound, TellCancelled, CloseBegins,
     CloseTask, CloseSends, CloseStream, CloseInbounds, CloseOutbounds, Cancel, sending
<1>6. CASE ConnectionLost \/ UNCHANGED vars
  BY <1>3, <1>6 DEF ConnectionLost, vars, sending
<1> QED
  BY <1>1, <1>2, <1>4, <1>5, <1>6 DEF Next

\* ... and the other end no downloads.
LEMMA QuietPeer ==
  ASSUME TypeInv, OneToken, Quiet, NEW s \in Sides, Other(s) \notin Senders, NEW i \in Ids
  PROVE  i \notin inbounds[s] /\ ~At(s, "rename", i)
<1>1. Unsent(Other(s), i)
  BY OtherEnd DEF Quiet, Unsent
<1>2. Pending(s, i) >= 1
  BY <1>1, TokenType DEF Pending, Bit
<1>3. Held(s, i) = 0
  BY <1>2, TokenType DEF OneToken, Token
<1> QED
  BY <1>3 DEF Held, Bit

LEMMA UserMoves ==
  ASSUME TypeInv, [Next]_vars, NEW s \in Sides
  PROVE  \/ user'[s] = user[s]
         \/ \E j \in Ids : Cancel(s, j)
         \/ CancelInbound(s) \/ TellCancelled(s)
<1>1. ASSUME NEW q \in Sides, NEW pc, NEW j, NEW hit, UserAt(q, pc, j, hit), q # s
      PROVE  user'[s] = user[s]
  BY <1>1 DEF UserAt, TypeInv, UserType
<1>2. ASSUME NEW q \in Sides, (\E j \in Ids : Cancel(q, j)) \/ CancelInbound(q) \/ TellCancelled(q),
             q # s
      PROVE  user'[s] = user[s]
  BY <1>1, <1>2 DEF Cancel, CancelInbound, TellCancelled
<1>3. ASSUME NEW q \in Sides, LoopTask(q) PROVE user' = user
  BY <1>3 DEF LoopTask, LoopRecv, LoopStops, TakeOffer, InsertInbound, SendDecision,
     TakeDecision, IgnoreChunk, WriteChunk, WriteChunkFails, Rename, SendAck, TakeAck,
     TakeCancel, CancelledByPeer, TakeFin
<1>4. ASSUME NEW q \in Sides, NEW j \in Ids, UploadTask(q, j) PROVE user' = user
  BY <1>4 DEF UploadTask, InsertOutbound, SendOffer, AwaitDecision, CheckCancelled,
     ReadFails, SendChunk, AwaitAck, session
<1>5. ASSUME NEW q \in Sides, Elsewhere(q) PROVE user' = user
  BY <1>5 DEF Elsewhere, Vanish, SendFile, CloseBegins, CloseTask, CloseSends, CloseStream,
     CloseInbounds, CloseOutbounds, session
<1>6. CASE ConnectionLost \/ UNCHANGED vars
  BY <1>6 DEF ConnectionLost, vars, session
<1> QED
  BY <1>2, <1>3, <1>4, <1>5, <1>6 DEF Next, Elsewhere, CancelTask

\* What a call of cancel_transfer has found: when only the other end receives,
\* it is an upload, which has then left the table.
Call(s) ==
  /\ user[s].pc = "tell" => user[s].hit
  /\ s \notin Senders /\ user[s].pc = "inbounds" => ~user[s].hit
  /\ Other(s) \notin Senders /\ user[s].pc # "idle" /\ user[s].hit => Gone(s, user[s].id)
Calls == \A s \in Sides : Call(s)

LEMMA CallsStep ==
  ASSUME TypeInv, Fresh, OneToken, Entered, Quiet, Calls, [Next]_vars
  PROVE  Calls'
<1> SUFFICES ASSUME NEW s \in Sides PROVE Call(s)'
  BY DEF Calls
<1>0. Call(s) /\ user \in [Sides -> [pc: {"idle", "inbounds", "tell"}, id: {0} \cup Ids, hit: BOOLEAN]]
  BY DEF Calls, TypeInv, UserType
<1>1. CASE user'[s] = user[s]
  <2>1. user[s].pc # "idle" => user[s].id \in Ids
    BY DEF TypeInv, UserType
  <2>2. user[s].pc # "idle" /\ Gone(s, user[s].id) => (Gone(s, user[s].id))'
    <3>1. ASSUME NEW i \in Ids, Gone(s, i), i = user[s].id PROVE (Gone(s, user[s].id))'
      <4>1. Gone(s, i)'
        BY <3>1, GoneStays
      <4> QED
        BY <1>1, <3>1, <4>1 DEF Gone
    <3> QED
      BY <2>1, <3>1
  <2> QED
    BY <1>0, <1>1, <2>2 DEF Call
<1>2. ASSUME NEW j \in Ids, Cancel(s, j) PROVE Call(s)'
  <2>1. /\ user'[s].pc = "inbounds" /\ user'[s].id = j /\ (user'[s].hit <=> j \in outbounds[s])
    BY <1>0, <1>2 DEF Cancel, UserAt
  <2>2. s \notin Senders => j \notin outbounds[s]
    BY DEF Quiet, Entered
  <2>3. j \in outbounds[s] => Gone(s, j)'
    <3>1. outbounds' = Drop(outbounds, s, j) /\ UNCHANGED <<acked, upload>> /\ outbounds \in Tables
      BY <1>2 DEF Cancel, DropOutbound, TypeInv
    <3>2. j \notin outbounds'[s]
      BY <3>1 DEF Drop, Tables
    <3> QED
      BY <3>1, <3>2 DEF Entered, Gone
  <2> QED
    BY <2>1, <2>2, <2>3 DEF Call, Gone
<1>3. CASE CancelInbound(s)
  <2>0. PICK j \in Ids : j = user[s].id /\ user[s].pc = "inbounds"
    BY <1>3 DEF CancelInbound, TypeInv, UserType
  <2> DEFINE hit == user[s].hit \/ j \in inbounds[s]
  <2>1. /\ user'[s].pc = IF hit THEN "tell" ELSE "idle"
        /\ user'[s].id = j /\ (user'[s].hit <=> hit)
    BY <1>0, <1>3, <2>0 DEF CancelInbound, UserAt
  <2>2. ASSUME Other(s) \notin Senders, hit PROVE Gone(s, j)'
    <3>1. j \notin inbounds[s]
      BY <2>0, <2>2, QuietPeer
    <3>2. Gone(s, j)
      BY <1>0, <2>0, <2>2, <3>1 DEF Call
    <3> QED
      BY <3>2, GoneStays
  <2> HIDE DEF hit
  <2> QED
    BY <2>1, <2>2 DEF Call, Gone
<1>4. CASE TellCancelled(s)
  <2>1. user'[s].pc = "idle"
    BY <1>0, <1>4 DEF TellCancelled, UserAt
  <2> QED
    BY <2>1 DEF Call
<1> QED
  BY <1>1, <1>2, <1>3, <1>4, UserMoves

\* Receiver r has cancelled file i, and the sender does not know, or has just
\* been told.
Recalled(r, i) ==
  \/ user[r].pc = "tell" /\ user[r].id = i
  \/ Controls(Other(r), "cancel", i) > 0
  \/ At(Other(r), "uncancel", i)

\* What is recalled never becomes a file.
RecalledLost ==
  \A r \in Sides : r \notin Senders => \A i \in Ids : Recalled(r, i) => Token(r, i) = 0

LEMMA RecalledStep ==
  ASSUME TypeInv, TypeInv', Fresh, OneToken, Calls, [Next]_vars,
         NEW r \in Sides, r \notin Senders, NEW i \in Ids, Recalled(r, i)'
  PROVE  Recalled(r, i) \/ Token(r, i)' = 0
<1> DEFINE t == Other(r)
<1>0. /\ t \in Sides /\ Other(t) = r /\ r # t
      /\ Controls(t, "cancel", i) \in Nat /\ Controls(t, "cancel", i)' \in Nat
  BY OtherEnd, CountsAreNat, CountsAreNatNext DEF Kinds
<1> HIDE DEF t
<1>1. ASSUME user'[r].pc = "tell", user'[r].id = i
      PROVE  Recalled(r, i) \/ Token(r, i)' = 0
  <2>0. user \in [Sides -> [pc: {"idle", "inbounds", "tell"}, id: {0} \cup Ids, hit: BOOLEAN]]
    BY DEF TypeInv, UserType
  <2>1. CASE user'[r] = user[r]
    BY <1>1, <2>1 DEF Recalled
  <2>2. CASE CancelInbound(r)
    <3>1. /\ user[r].pc = "inbounds" /\ user'[r].id = user[r].id
          /\ user'[r].pc = IF user[r].hit \/ user[r].id \in inbounds[r] THEN "tell" ELSE "idle"
          /\ inbounds' = Drop(inbounds, r, user[r].id) /\ UNCHANGED <<loop, saved>>
      BY <2>0, <2>2 DEF CancelInbound, UserAt, DropInbound
    <3>2. i \in inbounds[r] /\ inbounds' = Drop(inbounds, r, i)
      BY <1>1, <3>1 DEF Calls, Call
    <3>3. i \notin inbounds'[r]
      BY <3>2 DEF Drop, TypeInv, Tables
    <3>4. Pending(r, i) = 0 /\ i \notin saved[r] /\ ~At(r, "rename", i)
      <4>1. Token(r, i) <= 1 /\ Pending(r, i) \in Nat
        BY TokenType DEF OneToken
      <4> QED
        BY <3>2, <4>1 DEF Token, Held, Bit
    <3>5. Pending(r, i)' = 0
      <4>1. Controls(r, "offer", i)' \in Nat
        BY CountsAreNatNext DEF Kinds
      <4>2. Pending(r, i)' \in Nat
        BY <4>1 DEF Pending, Bit
      <4>3. Falls(r, i)
        BY TokenStep
      <4> QED
        BY <3>4, <4>2, <4>3 DEF Falls
    <3> QED
      BY <3>1, <3>3, <3>4, <3>5 DEF Token, Held, At, Bit
  <2>3. CASE TellCancelled(r) \/ \E j \in Ids : Cancel(r, j)
    BY <1>1, <2>0, <2>3 DEF TellCancelled, Cancel, UserAt
  <2> QED
    BY <2>1, <2>2, <2>3, UserMoves
<1>2. ASSUME Controls(t, "cancel", i)' <= Controls(t, "cancel", i),
             At(t, "uncancel", i)' => At(t, "uncancel", i)
      PROVE  Recalled(r, i) \/ Token(r, i)' = 0
  <2>1. CASE user'[r].pc = "tell" /\ user'[r].id = i
    BY <1>1, <2>1
  <2>2. CASE ~(user'[r].pc = "tell" /\ user'[r].id = i)
    BY <1>0, <1>2, <2>2 DEF Recalled, t
  <2> QED
    BY <2>1, <2>2
<1>3. ASSUME queue' = queue
      PROVE  Controls(t, "cancel", i)' <= Controls(t, "cancel", i)
  BY <1>0, <1>3, SameCounts DEF SameControls, Kinds
<1>4. CASE ConnectionLost
  <2>1. Controls(t, "cancel", i)' = 0
    BY <1>0, <1>4, LostCounts DEF Kinds
  <2> QED
    BY <1>0, <1>2, <1>4, <2>1 DEF ConnectionLost, session, At
<1>5. ASSUME NEW s \in Sides, CancelInbound(s) \/ \E j \in Ids : Cancel(s, j)
      PROVE  Recalled(r, i) \/ Token(r, i)' = 0
  BY <1>2, <1>3, <1>5 DEF CancelInbound, Cancel, At, wire
<1>6. ASSUME NEW s \in Sides, Elsewhere(s)
      PROVE  Recalled(r, i) \/ Token(r, i)' = 0
  <2>1. CASE CloseSends(s)
    <3>1. Controls(t, "cancel", i)' <= Controls(t, "cancel", i)
      BY <1>0, <2>1, WriteFin DEF CloseSends, SameControls, Kinds
    <3> QED
      BY <1>2, <2>1, <3>1 DEF CloseSends, At
  <2>2. CASE ~CloseSends(s)
    BY <1>2, <1>3, <1>6, <2>2 DEF Elsewhere, Vanish, SendFile, CloseBegins, CloseTask,
       CloseStream, CloseInbounds, CloseOutbounds, At, wire, session
  <2> QED
    BY <2>1, <2>2
<1>7. ASSUME NEW s \in Sides, TellCancelled(s)
      PROVE  Recalled(r, i) \/ Token(r, i)' = 0
  <2>1. user[s].id \in Ids /\ user[s].pc = "tell" /\ Write(s, Control("cancel", user[s].id))
    BY <1>7 DEF TellCancelled, TypeInv, UserType
  <2>2. Controls(t, "cancel", i)' =
          Controls(t, "cancel", i) + Bit(Reaches(s, t) /\ i = user[s].id)
    BY <1>0, <2>1, WriteControl DEF Kinds
  <2>3. CASE Reaches(s, t) /\ i = user[s].id
    <3>1. s = r
      BY <1>0, <2>3, OtherEnd DEF Reaches
    <3> QED
      BY <2>1, <2>3, <3>1 DEF Recalled
  <2>4. CASE ~(Reaches(s, t) /\ i = user[s].id)
    BY <1>0, <1>2, <1>7, <2>2, <2>4 DEF TellCancelled, At, Bit
  <2> QED
    BY <2>3, <2>4
<1>8. ASSUME NEW s \in Sides, NEW j \in Ids, UploadTask(s, j)
      PROVE  Recalled(r, i) \/ Token(r, i)' = 0
  <2>1. Controls(t, "cancel", i)' <= Controls(t, "cancel", i)
    <3>1. CASE SendOffer(s, j)
      BY <1>0, <3>1, WriteControl DEF SendOffer, Kinds, Bit
    <3>2. CASE SendChunk(s, j)
      BY <1>0, <3>2, ChunkSent, WriteChunkCounts DEF ChunkGoes, SameControls, Kinds
    <3>3. CASE ~SendOffer(s, j) /\ ~SendChunk(s, j)
      BY <1>3, <1>8, <3>3 DEF UploadTask, InsertOutbound, AwaitDecision, CheckCancelled,
                              ReadFails, AwaitAck, wire
    <3> QED
      BY <3>1, <3>2, <3>3
  <2> QED
    BY <1>2, <1>8, <2>1 DEF UploadTask, InsertOutbound, SendOffer, AwaitDecision,
         CheckCancelled, ReadFails, SendChunk, AwaitAck, session, At
<1>9. ASSUME NEW s \in Sides, LoopTask(s)
      PROVE  Recalled(r, i) \/ Token(r, i)' = 0
  <2>1. CASE TakeCancel(s)
    <3> DEFINE k == Head(queue[s]).id
    <3>1. Controls(t, "cancel", i) = Controls(t, "cancel", i)' + Bit(t = s /\ i = k)
      BY <1>0, <2>1, TakeControl DEF TakeCancel, Kinds
    <3>2. LoopAt(s, "uncancel", k)
      BY <2>1 DEF TakeCancel
    <3> HIDE DEF k
    <3>3. CASE t = s /\ i = k
      BY <1>0, <3>1, <3>3 DEF Recalled, Bit, t
    <3>4. CASE ~(t = s /\ i = k)
      <4>1. At(t, "uncancel", i)' => At(t, "uncancel", i)
        BY <1>0, <3>2, <3>4, LoopLeaves
      <4> QED
        BY <1>0, <1>2, <3>1, <3>4, <4>1 DEF Bit
    <3> QED
      BY <3>3, <3>4
  <2>2. ASSUME NEW pc, NEW j, LoopAt(s, pc, j), pc # "uncancel",
               Controls(t, "cancel", i)' <= Controls(t, "cancel", i)
        PROVE  Recalled(r, i) \/ Token(r, i)' = 0
    <3>1. At(t, "uncancel", i)' => At(t, "uncancel", i)
      BY <1>0, <2>2, LoopLeaves
    <3> QED
      BY <1>2, <2>2, <3>1
  <2>3. CASE LoopRecv(s) \/ LoopStops(s) \/ InsertInbound(s) \/ Rename(s) \/ CancelledByPeer(s)
    <3>1. Controls(t, "cancel", i)' <= Controls(t, "cancel", i)
      BY <1>3, <2>3 DEF LoopRecv, LoopStops, InsertInbound, Rename, CancelledByPeer, wire
    <3> QED
      BY <2>2, <2>3, <3>1 DEF LoopRecv, LoopStops, InsertInbound, Rename, CancelledByPeer
  <2>4. CASE SendDecision(s) \/ SendAck(s)
    <3>1. PICK k \in {"decision", "ack"} : Write(s, Control(k, loop[s].id)) /\ loop[s].id \in Ids
      BY <2>4 DEF SendDecision, SendAck, TypeInv, LoopType, Busy
    <3>2. Controls(t, "cancel", i)' <= Controls(t, "cancel", i)
      BY <1>0, <3>1, WriteControl DEF Kinds, Bit
    <3> QED
      BY <2>2, <2>4, <3>2 DEF SendDecision, SendAck
  <2>5. CASE TakeOffer(s) \/ TakeDecision(s) \/ TakeAck(s)
    <3>1. PICK k \in {"offer", "decision", "ack"} : Take(s, k)
      BY <2>5 DEF TakeOffer, TakeDecision, TakeAck
    <3>2. Controls(t, "cancel", i)' <= Controls(t, "cancel", i)
      BY <1>0, <3>1, TakeControl DEF Kinds, Bit
    <3> QED
      BY <2>2, <2>5, <3>2 DEF TakeOffer, TakeDecision, TakeAck
  <2>6. CASE IgnoreChunk(s) \/ WriteChunk(s) \/ WriteChunkFails(s) \/ TakeFin(s)
    <3>1. Controls(t, "cancel", i)' <= Controls(t, "cancel", i)
      BY <1>0, <2>6, TakeChunk, TakeFinCounts
         DEF IgnoreChunk, WriteChunk, WriteChunkFails, TakeFin, SameControls, Kinds
    <3> QED
      BY <2>2, <2>6, <3>1 DEF IgnoreChunk, WriteChunk, WriteChunkFails, TakeFin
  <2> QED
    BY <1>9, <2>1, <2>3, <2>4, <2>5, <2>6 DEF LoopTask
<1>10. CASE UNCHANGED vars
  BY <1>2, <1>3, <1>10 DEF vars, wire, session, At
<1> QED
  BY <1>4, <1>5, <1>6, <1>7, <1>8, <1>9, <1>10 DEF Next, CancelTask, Elsewhere

LEMMA RecalledLostStep ==
  ASSUME TypeInv, TypeInv', Fresh, OneToken, Calls, RecalledLost, [Next]_vars
  PROVE  RecalledLost'
<1> SUFFICES ASSUME NEW r \in Sides, r \notin Senders, NEW i \in Ids, Recalled(r, i)'
             PROVE  Token(r, i)' = 0
  BY DEF RecalledLost
<1>1. CASE Recalled(r, i)
  <2>1. Token(r, i) = 0 /\ Falls(r, i)
    BY <1>1, TokenStep DEF RecalledLost
  <2>2. Token(r, i)' \in Nat
    <3>1. Controls(r, "offer", i)' \in Nat
      BY CountsAreNatNext DEF Kinds
    <3> QED
      BY <3>1 DEF Token, Pending, Held, Bit
  <2> QED
    BY <2>1, <2>2 DEF Falls
<1> QED
  BY <1>1, RecalledStep

\* Every way an upload or download is reported failed.
LEMMA FailedMoves ==
  ASSUME TypeInv, [Next]_vars, NEW s \in Sides, NEW i \in Ids, i \in failed'[s], i \notin failed[s]
  PROVE  \/ upload[s][i].pc # "done" /\ upload'[s][i].pc = "done" /\ completed' = completed
         \/ At(s, "rename", i)
         \/ /\ CancelledByPeer(s) /\ At(s, "uncancel", i)
            /\ i \notin outbounds'[s] /\ UNCHANGED <<acked, upload, completed>>
         \/ /\ user[s].pc = "tell" /\ user[s].id = i /\ completed' = completed
<1> DEFINE Goal ==
        \/ upload[s][i].pc # "done" /\ upload'[s][i].pc = "done" /\ completed' = completed
        \/ At(s, "rename", i)
        \/ /\ CancelledByPeer(s) /\ At(s, "uncancel", i)
           /\ i \notin outbounds'[s] /\ UNCHANGED <<acked, upload, completed>>
        \/ /\ user[s].pc = "tell" /\ user[s].id = i /\ completed' = completed
<1>0. failed \in Tables /\ outbounds \in Tables /\ failed' # failed
  BY DEF TypeInv
<1>1. ASSUME NEW q, NEW j, failed' = Add(failed, q, j)
      PROVE  q = s /\ j = i
  BY <1>0, <1>1 DEF Add, Tables
<1>2. ASSUME NEW q \in Sides, LoopTask(q) PROVE Goal
  <2>1. CASE Rename(q)
    <3>1. failed' = Add(failed, q, loop[q].id) /\ loop[q].pc = "rename"
      BY <1>0, <2>1 DEF Rename
    <3> QED
      BY <1>1, <3>1 DEF At
  <2>2. CASE CancelledByPeer(q)
    <3>1. /\ failed' = Add(failed, q, loop[q].id) /\ loop[q].pc = "uncancel"
          /\ outbounds' = Drop(outbounds, q, loop[q].id)
          /\ UNCHANGED <<acked, upload, completed>>
      BY <2>2 DEF CancelledByPeer, DropOutbound
    <3>2. q = s /\ loop[q].id = i
      BY <1>1, <3>1
    <3>3. i \notin outbounds'[s]
      BY <1>0, <3>1, <3>2 DEF Drop, Tables
    <3> QED
      BY <2>2, <3>1, <3>2, <3>3 DEF At
  <2>3. CASE ~Rename(q) /\ ~CancelledByPeer(q)
    BY <1>0, <1>2, <2>3 DEF LoopTask, LoopRecv, LoopStops, TakeOffer, InsertInbound,
       SendDecision, TakeDecision, IgnoreChunk, WriteChunk, WriteChunkFails, SendAck, TakeAck,
       TakeCancel, TakeFin, told
  <2> QED
    BY <2>1, <2>2, <2>3
<1>3. ASSUME NEW q \in Sides, NEW j \in Ids, UploadTask(q, j) PROVE Goal
  <2>1. failed' = Add(failed, q, j) /\ completed' = completed
    BY <1>0, <1>3 DEF UploadTask, InsertOutbound, SendOffer, AwaitDecision, CheckCancelled,
       ReadFails, SendChunk, AwaitAck, told
  <2>2. q = s /\ j = i
    BY <1>1, <2>1
  <2>3. CASE SendChunk(q, j)
    <3>1. ~open[q]
      BY <1>0, <2>3 DEF SendChunk
    <3> QED
      BY <2>1, <2>2, <2>3, <3>1, ChunkSent DEF ChunkGoes, PcMoves
  <2>4. CASE ~SendChunk(q, j)
    <3>1. PICK from : Goto(q, j, from, "done") /\ from # "done"
      BY <1>0, <1>3, <2>4 DEF UploadTask, InsertOutbound, SendOffer, AwaitDecision,
         CheckCancelled, ReadFails, AwaitAck, Goto, told
    <3> QED
      BY <2>1, <2>2, <3>1, UploadMoves DEF PcMoves
  <2> QED
    BY <2>3, <2>4
<1>4. ASSUME NEW q \in Sides, TellCancelled(q) PROVE Goal
  <2>1. failed' = Add(failed, q, user[q].id) /\ user[q].pc = "tell" /\ completed' = completed
    BY <1>4 DEF TellCancelled
  <2> QED
    BY <1>1, <2>1
<1>5. ASSUME NEW q \in Sides, Elsewhere(q) \/ CancelInbound(q) \/ \E j \in Ids : Cancel(q, j)
      PROVE  Goal
  BY <1>0, <1>5 DEF Elsewhere, Vanish, SendFile, CancelInbound, CloseBegins, CloseTask,
     CloseSends, CloseStream, CloseInbounds, CloseOutbounds, Cancel, told
<1>6. CASE ConnectionLost \/ UNCHANGED vars
  BY <1>0, <1>6 DEF ConnectionLost, vars, told
<1> QED
  BY <1>2, <1>3, <1>4, <1>5, <1>6 DEF Next, CancelTask, Elsewhere

\* An upload reported failed is not complete, and can no longer become so: its
\* task has ended, or its entry is gone without an acknowledgement.
FailedEnded ==
  \A s \in Sides : Other(s) \notin Senders => \A i \in Ids : i \in failed[s] =>
    i \notin completed[s] /\ (upload[s][i].pc = "done" \/ Gone(s, i))

LEMMA FailedEndedStep ==
  ASSUME AckInv, TypeInv', Quiet, Calls, RecalledLost, FailedEnded, [Next]_vars
  PROVE  FailedEnded'
<1> USE DEF AckInv, TransferInv
<1> SUFFICES ASSUME NEW s \in Sides, Other(s) \notin Senders, NEW i \in Ids, i \in failed'[s]
             PROVE  i \notin completed'[s] /\ (upload'[s][i].pc = "done" \/ Gone(s, i)')
  BY DEF FailedEnded
<1>0. Other(s) \in Sides /\ Other(Other(s)) = s /\ completed \in Tables
  BY OtherEnd DEF TypeInv
\* What is already so stays so.
<1>1. ASSUME i \notin completed[s], upload[s][i].pc = "done" \/ Gone(s, i)
      PROVE  i \notin completed'[s] /\ (upload'[s][i].pc = "done" \/ Gone(s, i)')
  <2>1. ASSUME i \in completed'[s] PROVE FALSE
    <3>1. AwaitAck(s, i) /\ i \in acked[s]
      BY <1>1, <2>1, CompletedMoves
    <3>2. upload[s][i].pc = "ack"
      BY <3>1 DEF AwaitAck, Goto
    <3> QED
      BY <1>1, <3>1, <3>2 DEF Gone
  <2>2. upload'[s][i].pc = "done" \/ Gone(s, i)'
    BY <1>1, DoneStays, GoneStays
  <2> QED
    BY <2>1, <2>2
<1>2. CASE i \in failed[s]
  BY <1>1, <1>2 DEF FailedEnded
<1>3. CASE i \notin failed[s]
  <2>1. CASE upload[s][i].pc # "done" /\ upload'[s][i].pc = "done" /\ completed' = completed
    BY <2>1 DEF CompletedDone
  <2>2. CASE At(s, "rename", i)
    BY <2>2, QuietPeer
  <2>3. CASE /\ CancelledByPeer(s) /\ At(s, "uncancel", i)
             /\ i \notin outbounds'[s] /\ UNCHANGED <<acked, upload, completed>>
    <3>1. Token(Other(s), i) = 0
      BY <1>0, <2>3 DEF RecalledLost, Recalled
    <3>2. i \notin saved[Other(s)] /\ ~Unsent(s, i)
      <4>1. Pending(Other(s), i) = 0 /\ Held(Other(s), i) = 0
        BY <1>0, <3>1, TokenType DEF Token
      <4>2. Controls(Other(s), "offer", i) \in Nat
        BY <1>0, TokenType
      <4> QED
        BY <1>0, <4>1, <4>2 DEF Pending, Held, Bit
    <3>3. i \notin acked[s]
      BY <1>0, <3>2 DEF ConfirmedSaved, Confirmed
    <3> QED
      BY <2>3, <3>2, <3>3 DEF CompletedDone, Gone, Unsent
  <2>4. CASE user[s].pc = "tell" /\ user[s].id = i /\ completed' = completed
    <3>1. Gone(s, i)
      BY <2>4 DEF Calls, Call
    <3>2. i \notin completed[s]
      BY <3>1 DEF CompletedDone, Gone
    <3> QED
      BY <1>1, <3>1, <3>2
  <2> QED
    BY <1>3, <2>1, <2>2, <2>3, <2>4, FailedMoves
<1> QED
  BY <1>2, <1>3

\* When only one end sends, an upload reported complete is not reported failed
\* as well, however a cancellation of either end and the acknowledgement cross
\* (cancel_transfer, handle_control_msg and send_file of session.rs).
THEOREM OneOutcomeHolds == Spec => []OneOutcome
<1> DEFINE OutcomeInv == Entered /\ Quiet /\ Calls /\ RecalledLost /\ FailedEnded
<1>1. Init => OutcomeInv
  <2> SUFFICES ASSUME Init PROVE OutcomeInv
    OBVIOUS
  <2>1. \A q \in Sides : \A S : Count(queue[q], S) = 0
    <3>1. \A q \in Sides : queue[q] = <<>> /\ <<>> \in Seq(Message) /\ DOMAIN <<>> = {}
      BY DEF Init
    <3> QED
      BY <3>1, CountNone
  <2>2. ASSUME NEW r \in Sides, NEW i \in Ids PROVE ~Recalled(r, i)
    <3>1. /\ user[r].pc = "idle" /\ Controls(Other(r), "cancel", i) = 0
          /\ loop[Other(r)].pc = "idle"
      BY <2>1, OtherEnd DEF Init, Controls
    <3> QED
      BY <3>1 DEF Recalled, At
  <2>3. Entered /\ Quiet /\ FailedEnded
    BY DEF Init, Entered, Quiet, FailedEnded
  <2>4. Calls
    BY DEF Init, Calls, Call
  <2> QED
    BY <2>2, <2>3, <2>4 DEF RecalledLost
<1>2. AckInv /\ AckInv' /\ OutcomeInv /\ [Next]_vars => OutcomeInv'
  <2> SUFFICES ASSUME AckInv, AckInv', OutcomeInv, [Next]_vars PROVE OutcomeInv'
    OBVIOUS
  <2>1. TypeInv /\ TypeInv' /\ Fresh /\ OneToken
    BY DEF AckInv, TransferInv
  <2>2. Entered' /\ Quiet' /\ Calls'
    BY <2>1, EnteredStep, QuietStep, CallsStep
  <2>3. RecalledLost' /\ FailedEnded'
    BY <2>1, RecalledLostStep, FailedEndedStep
  <2> QED
    BY <2>2, <2>3
<1>3. AckInv /\ OutcomeInv => OneOutcome
  <2> SUFFICES ASSUME AckInv, OutcomeInv, NEW s \in Sides, Senders = {s}, NEW i \in failed[s]
               PROVE  i \notin completed[s]
    BY DEF OneOutcome
  <2>1. Other(s) \notin Senders /\ i \in Ids
    BY OtherEnd DEF AckInv, TransferInv, TypeInv, Tables
  <2> QED
    BY <2>1 DEF FailedEnded
<1> QED
  BY <1>1, <1>2, <1>3, AckHolds, PTL DEF Spec

=============================================================================
