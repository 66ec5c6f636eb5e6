--------------------------- MODULE ReceivingProofs ---------------------------
(***************************************************************************)
(* Proofs about what becomes of the frames a node receives.                *)
(*                                                                         *)
(* JitterBuffer: what the loops of poll compute, the types, and that the   *)
(* player is given the frames in order, groups whole and nothing newer     *)
(* passed over.  The last three are about the numbers that the buffer is   *)
(* given, those of the source or those of the arrivals, and hold for at    *)
(* most half as many frames and arrivals as there are numbers, 2^31, from  *)
(* any First, so that the numbers may wrap around in the middle.  Beyond   *)
(* that a frame could be taken for one behind it.                          *)
(*                                                                         *)
(* Playback: the viewer is shown no picture under the stamp of another     *)
(* decoder, and none is held too long.                                     *)
(***************************************************************************)
EXTENDS JitterBuffer, Playback, FiniteSetTheorems, WellFoundedInduction, TLAPS

-----------------------------------------------------------------------------
(* Numbers.                                                                *)

\* A set of natural numbers that is not empty has a least element.
LEMMA Least ==
  ASSUME NEW T \in SUBSET Nat, T # {}
  PROVE  \E m \in T : \A k \in T : m <= k
<1>. DEFINE X == {0 .. m : m \in T}
<1>1. X \subseteq FiniteSubsetsOf(Nat)
  <2>. SUFFICES ASSUME NEW m \in T PROVE 0 .. m \in FiniteSubsetsOf(Nat)
    OBVIOUS
  <2>1. IsFiniteSet(0 .. m) /\ 0 .. m \subseteq Nat
    BY FS_Interval
  <2>. QED  BY <2>1 DEF FiniteSubsetsOf
<1>2. PICK x \in X : \A y \in X : <<y, x>> \notin StrictSubsetOrdering(Nat)
  <2>1. X # {}
    OBVIOUS
  <2>. HIDE DEF X
  <2>. QED  BY <1>1, <2>1, FS_StrictSubsetOrderingWellFounded, WFMin
<1>3. PICK m \in T : x = 0 .. m
  OBVIOUS
<1>4. ASSUME NEW k \in T, ~(m <= k) PROVE FALSE
  <2>1. 0 .. k \in X /\ 0 .. k \subseteq 0 .. m /\ m \in 0 .. m /\ m \notin 0 .. k
    BY <1>4
  <2>2. <<0 .. k, 0 .. m>> \in StrictSubsetOrdering(Nat)
    <3>1. 0 .. k \in SUBSET Nat /\ 0 .. m \in SUBSET Nat /\ 0 .. k # 0 .. m
      BY <2>1
    <3>. QED  BY <2>1, <3>1 DEF StrictSubsetOrdering
  <2>. QED  BY <1>2, <1>3, <2>1, <2>2
<1>. QED  BY <1>4

LEMMA ModOf ==
  ASSUME NEW M \in Nat \ {0}, NEW q \in Int, NEW r \in 0 .. M - 1
  PROVE  (q * M + r) % M = r
OBVIOUS

LEMMA ModIs ==
  ASSUME NEW M \in Nat \ {0}, NEW x \in Int
  PROVE  \E q \in Int, r \in 0 .. M - 1 : x = q * M + r /\ x % M = r
<1>1. x \div M \in Int /\ x % M \in 0 .. M - 1 /\ x = ((x \div M) * M) + (x % M)
  OBVIOUS
<1>2. WITNESS x \div M \in Int, x % M \in 0 .. M - 1
<1>. QED  BY <1>1

\* Adding a number to a remainder.
LEMMA ModPlus ==
  ASSUME NEW M \in Nat \ {0}, NEW x \in Int, NEW y \in Int
  PROVE  ((x % M) + y) % M = (x + y) % M
<1>1. PICK q \in Int, r \in 0 .. M - 1 : x = q * M + r /\ x % M = r
  BY ModIs
<1>2. PICK z \in Int : z = r + y
  OBVIOUS
<1>3. PICK p \in Int, s \in 0 .. M - 1 : z = p * M + s /\ z % M = s
  BY ModIs
<1>4. x + y = (q + p) * M + s /\ q + p \in Int
  <2>1. (q + p) * M = q * M + p * M /\ q * M \in Int /\ p * M \in Int
    OBVIOUS
  <2>. QED  BY <1>1, <1>2, <1>3, <2>1
<1>5. (x + y) % M = s
  BY <1>4, ModOf
<1>. QED  BY <1>1, <1>2, <1>3, <1>5

\* The difference of two remainders.
LEMMA ModMinus ==
  ASSUME NEW M \in Nat \ {0}, NEW x \in Int, NEW y \in Int
  PROVE  ((x % M) - (y % M)) % M = (x - y) % M
<1>1. PICK q \in Int, r \in 0 .. M - 1 : x = q * M + r /\ x % M = r
  BY ModIs
<1>2. PICK p \in Int, s \in 0 .. M - 1 : y = p * M + s /\ y % M = s
  BY ModIs
<1>3. PICK z \in Int : z = r - s
  OBVIOUS
<1>4. PICK o \in Int, t \in 0 .. M - 1 : z = o * M + t /\ z % M = t
  BY ModIs
<1>5. x - y = (q - p + o) * M + t /\ q - p + o \in Int
  <2>1. /\ (q - p + o) * M = q * M - p * M + o * M
        /\ q * M \in Int /\ p * M \in Int /\ o * M \in Int
    OBVIOUS
  <2>. QED  BY <1>1, <1>2, <1>3, <1>4, <2>1
<1>6. (x - y) % M = t
  BY <1>5, ModOf
<1>. QED  BY <1>1, <1>2, <1>3, <1>4, <1>6

LEMMA Sizes ==
  /\ Modulus \in Nat \ {0} /\ Modulus > 2 * Capacity
  /\ First \in Int /\ Base \in Int
  /\ Modulus \div 2 \in Nat /\ 2 * (Modulus \div 2) <= Modulus
  /\ Modulus <= 2 * (Modulus \div 2) + 1
BY ConstantsAssumption DEF Base

LEMMA NumIn ==
  ASSUME NEW f \in Int
  PROVE  Num(f) \in Seqs
BY Sizes, Base + f \in Int DEF Num, Seqs

LEMMA NumAhead ==
  ASSUME NEW f \in Int, NEW k \in Int
  PROVE  Ahead(Num(f), k) = Num(f + k)
<1>1. Base + f \in Int /\ (Base + f) + k = Base + (f + k)
  BY Sizes
<1>2. (((Base + f) % Modulus) + k) % Modulus = ((Base + f) + k) % Modulus
  BY <1>1, Sizes, ModPlus
<1>. QED  BY <1>1, <1>2 DEF Ahead, Num

LEMMA NumDiff ==
  ASSUME NEW f \in Int, NEW g \in Int
  PROVE  (Num(f) - Num(g)) % Modulus = (f - g) % Modulus
<1>1. Base + f \in Int /\ Base + g \in Int /\ (Base + f) - (Base + g) = f - g
  BY Sizes
<1>2. (((Base + f) % Modulus) - ((Base + g) % Modulus)) % Modulus
        = ((Base + f) - (Base + g)) % Modulus
  BY <1>1, Sizes, ModMinus
<1>. QED  BY <1>1, <1>2 DEF Num

\* The remainder of a number that is small, or a little below zero.
LEMMA ModSmall ==
  ASSUME NEW d \in Int, -Modulus < d, d < Modulus
  PROVE  d % Modulus = IF d >= 0 THEN d ELSE d + Modulus
<1>1. CASE d >= 0
  BY <1>1, Sizes, d = 0 * Modulus + d, ModOf
<1>2. CASE d < 0
  BY <1>2, Sizes, d = (-1) * Modulus + (d + Modulus), d + Modulus \in 0 .. Modulus - 1, ModOf
<1>. QED  BY <1>1, <1>2

\* Places less than a whole turn apart have different numbers.
LEMMA NumSame ==
  ASSUME NEW f \in Int, NEW g \in Int, -Modulus < f - g, f - g < Modulus,
         Num(f) = Num(g)
  PROVE  f = g
<1>1. Num(f) - Num(g) = 0
  BY NumIn, Sizes DEF Seqs
<1>2. 0 % Modulus = 0
  BY Sizes, 0 = 0 * Modulus + 0, 0 \in 0 .. Modulus - 1, ModOf
<1>3. (f - g) % Modulus = 0
  BY <1>1, <1>2, NumDiff
<1>4. PICK d \in Int : d = f - g
  OBVIOUS
<1>5. d % Modulus = IF d >= 0 THEN d ELSE d + Modulus
  BY <1>4, ModSmall
<1>. QED  BY <1>3, <1>4, <1>5, Sizes

\* Of frames at most half a turn apart, SeqLess knows which is the later.
LEMMA NumLess ==
  ASSUME NEW f \in Int, NEW g \in Int, -(Modulus \div 2) <= f - g, f - g < Modulus \div 2
  PROVE  SeqLess(Num(f), Num(g)) <=> f < g
<1>1. PICK d \in Int : d = f - g
  OBVIOUS
<1>2. d % Modulus = IF d >= 0 THEN d ELSE d + Modulus
  BY <1>1, Sizes, ModSmall
<1>3. (f - g) % Modulus = IF f - g >= 0 THEN f - g ELSE (f - g) + Modulus
  BY <1>1, <1>2
<1>4. SeqLess(Num(f), Num(g)) <=> (f - g) % Modulus >= Modulus \div 2
  BY NumDiff DEF SeqLess
<1>5. CASE d >= 0
  <2>1. (f - g) % Modulus = d /\ ~(f < g) /\ d < Modulus \div 2
    BY <1>1, <1>3, <1>5
  <2>. QED  BY <1>4, <2>1, Sizes
<1>6. CASE d < 0
  <2>1. (f - g) % Modulus = d + Modulus /\ f < g /\ -(Modulus \div 2) <= d
    BY <1>1, <1>3, <1>6
  <2>2. PICK m \in Nat : m = Modulus \div 2
    BY Sizes
  <2>3. d + Modulus >= m
    BY <2>1, <2>2, Sizes
  <2>. QED  BY <1>4, <2>1, <2>2, <2>3
<1>. QED  BY <1>5, <1>6

\* One turn of the slots leads to the same slot with another number.
LEMMA Turn ==
  ASSUME NEW n \in Seqs
  PROVE  /\ Ahead(n, 0) = n
         /\ Ahead(n, Capacity) # n
         /\ Ahead(n, Capacity) % Capacity = n % Capacity
<1>1. PICK C \in Nat \ {0}, M \in Nat \ {0} : C = Capacity /\ M = Modulus
  BY Sizes, ConstantsAssumption
<1>2. M % C = 0 /\ 2 * C < M /\ n \in 0 .. M - 1
  BY <1>1, Sizes, ConstantsAssumption DEF Seqs
<1>3. Ahead(n, 0) = n
  <2>1. n + 0 = n /\ n \in Int /\ -Modulus < n /\ n < Modulus /\ n >= 0
    BY Sizes DEF Seqs
  <2>. QED  BY <2>1, ModSmall DEF Ahead
<1>4. PICK p \in Int, z \in 0 .. C - 1 : M = p * C + z /\ M % C = z
  BY ModIs
<1>5. PICK q \in Int, r \in 0 .. C - 1 : n = q * C + r /\ n % C = r
  BY <1>2, ModIs
<1>6. (n + C) % M # n /\ ((n + C) % M) % C = r
  <2>1. CASE n + C < M
    <3>1. (n + C) % M = n + C
      BY <1>2, <2>1, n + C = 0 * M + (n + C), n + C \in 0 .. M - 1, ModOf
    <3>2. n + C = (q + 1) * C + r
      BY <1>5
    <3>3. (n + C) % C = r
      BY <3>2, q + 1 \in Int, ModOf
    <3>. QED  BY <1>2, <3>1, <3>3
  <2>2. CASE n + C >= M
    <3>1. PICK d \in Int : d = n + C - M
      BY <1>2
    <3>2. 0 <= d /\ d < C /\ d < M
      BY <1>2, <2>2, <3>1
    <3>3. (n + C) % M = d
      BY <1>2, <3>1, <3>2, n + C = 1 * M + d, d \in 0 .. M - 1, ModOf
    <3>4. d = (q + 1 - p) * C + r /\ q + 1 - p \in Int
      <4>1. (q + 1 - p) * C = q * C + C - p * C
        OBVIOUS
      <4>2. q * C \in Int /\ p * C \in Int
        OBVIOUS
      <4>. QED  BY <1>2, <1>4, <1>5, <3>1, <4>1, <4>2
    <3>5. d % C = r
      BY <3>4, ModOf
    <3>. QED  BY <1>2, <3>1, <3>2, <3>3, <3>5
  <2>. QED  BY <1>2, <2>1, <2>2
<1>. QED  BY <1>1, <1>3, <1>5, <1>6 DEF Ahead

-----------------------------------------------------------------------------
(* The loops of poll: how far they go, and that they stay within the types. *)

Slot == [seq : Seqs, frame : 0 .. MaxArrivals]

Buf == [next : Seqs \cup {None}, highest : Seqs \cup {None},
        slots : [0 .. Capacity - 1 -> Slot],
        awaiting : BOOLEAN, age : 0 .. MaxWait + 1, out : Seq(Places)]

LEMMA SlotIn ==
  ASSUME NEW n \in Seqs
  PROVE  n % Capacity \in 0 .. Capacity - 1
BY ConstantsAssumption DEF Seqs

LEMMA AheadIn ==
  ASSUME NEW n \in Seqs, NEW k \in Int
  PROVE  Ahead(n, k) \in Seqs
<1>1. n + k \in Int
  BY DEF Seqs
<1>. QED  BY <1>1, Sizes DEF Ahead, Seqs

\* The run of frames that can be given out ends within one turn, because a slot
\* holds one number.
LEMMA RunIs ==
  ASSUME NEW b \in Buf, b.next \in Seqs
  PROVE  /\ Run(b) \in 0 .. Capacity
         /\ ~Has(b, Ahead(b.next, Run(b)))
         /\ \A i \in 0 .. Run(b) - 1 : Has(b, Ahead(b.next, i))
<1>. DEFINE T == {k \in 0 .. Capacity : ~Has(b, Ahead(b.next, k))}
<1>. Capacity \in Nat \ {0}
  BY ConstantsAssumption
<1>1. T # {}
  <2>. SUFFICES ASSUME T = {} PROVE FALSE
    OBVIOUS
  <2>1. Has(b, Ahead(b.next, 0)) /\ Has(b, Ahead(b.next, Capacity))
    <3>1. 0 \in 0 .. Capacity /\ Capacity \in 0 .. Capacity
      OBVIOUS
    <3>. QED  BY <3>1
  <2>. QED  BY <2>1, Turn DEF Has
<1>2. T \in SUBSET Nat
  OBVIOUS
<1>3. PICK m \in T : \A k \in T : m <= k
  BY <1>1, <1>2, Least
<1>4. \A i \in 0 .. m - 1 : Has(b, Ahead(b.next, i))
  <2>. SUFFICES ASSUME NEW i \in 0 .. m - 1 PROVE Has(b, Ahead(b.next, i))
    OBVIOUS
  <2>1. i \in 0 .. Capacity /\ ~(m <= i)
    BY <1>2
  <2>. QED  BY <1>3, <2>1
<1>5. m \in 0 .. Capacity /\ ~Has(b, Ahead(b.next, m))
  OBVIOUS
<1>. QED  BY <1>4, <1>5 DEF Run

\* Why the walk over holes ends at k.
Stop(b, k) == k = Capacity \/ Has(b, Ahead(b.next, k)) \/ Beyond(b, Ahead(b.next, k))

LEMMA HolesIs ==
  ASSUME NEW b
  PROVE  /\ Holes(b) \in 0 .. Capacity
         /\ Stop(b, Holes(b))
         /\ \A i \in 0 .. Holes(b) - 1 : ~Stop(b, i)
<1>. DEFINE T == {k \in 0 .. Capacity : Stop(b, k)}
<1>. Capacity \in Nat \ {0}
  BY ConstantsAssumption
<1>1. Capacity \in T
  BY DEF Stop
<1>2. T \in SUBSET Nat
  OBVIOUS
<1>3. PICK m \in T : \A k \in T : m <= k
  BY <1>1, <1>2, Least
<1>4. \A i \in 0 .. m - 1 : ~Stop(b, i)
  <2>. SUFFICES ASSUME NEW i \in 0 .. m - 1, Stop(b, i) PROVE FALSE
    OBVIOUS
  <2>1. i \in T /\ ~(m <= i)
    BY <1>2
  <2>. QED  BY <1>3, <2>1
<1>5. m \in 0 .. Capacity /\ Stop(b, m)
  OBVIOUS
<1>6. Holes(b) = CHOOSE k \in 0 .. Capacity : Stop(b, k) /\ \A i \in 0 .. k - 1 : ~Stop(b, i)
  BY DEF Holes, Stop
<1>. QED  BY <1>4, <1>5, <1>6

\* What poll gives out and what it leaves.
LEMMA EmitType ==
  ASSUME NEW b \in Buf, b.next \in Seqs
  PROVE  /\ Emit(b) \in Buf
         /\ Emit(b).next = Ahead(b.next, Run(b)) /\ Emit(b).next \in Seqs
         /\ Emit(b).highest = b.highest /\ Emit(b).awaiting = b.awaiting
         /\ Emit(b).out = [i \in 1 .. Run(b) |-> b.slots[Ahead(b.next, i - 1) % Capacity].frame]
         /\ \A i \in 0 .. Capacity - 1 :
              Emit(b).slots[i] = IF b.slots[i].seq \in {Ahead(b.next, j) : j \in 0 .. Run(b) - 1}
                                 THEN Empty ELSE b.slots[i]
<1>1. PICK k \in 0 .. Capacity : k = Run(b)
  BY RunIs
<1>. Capacity \in Nat \ {0} /\ MaxArrivals \in Nat /\ Modulus \in Nat \ {0} /\ MaxWait \in Nat
  BY ConstantsAssumption, Sizes
<1>2. \A i \in 1 .. k : b.slots[Ahead(b.next, i - 1) % Capacity].frame \in Places
  <2>. SUFFICES ASSUME NEW i \in 1 .. k
                PROVE  b.slots[Ahead(b.next, i - 1) % Capacity].frame \in Places
    OBVIOUS
  <2>1. i - 1 \in 0 .. k - 1 /\ i - 1 \in Int
    OBVIOUS
  <2>2. Has(b, Ahead(b.next, i - 1))
    BY <1>1, <2>1, RunIs
  <2>3. PICK n \in 0 .. Capacity - 1 : n = Ahead(b.next, i - 1) % Capacity
    BY <2>1, AheadIn, SlotIn
  <2>4. b.slots[n] \in Slot /\ b.slots[n].frame # 0
    BY <2>2, <2>3 DEF Has, Buf
  <2>5. b.slots[n].frame \in 0 .. MaxArrivals
    BY <2>4 DEF Slot
  <2>. QED  BY <2>3, <2>4, <2>5 DEF Places
<1>. DEFINE given == {Ahead(b.next, j) : j \in 0 .. k - 1}
            o == [i \in 1 .. k |-> b.slots[Ahead(b.next, i - 1) % Capacity].frame]
            s == [i \in DOMAIN b.slots |-> IF b.slots[i].seq \in given THEN Empty ELSE b.slots[i]]
<1>3. o \in Seq(Places)
  BY <1>2
<1>4. DOMAIN b.slots = 0 .. Capacity - 1 /\ \A i \in 0 .. Capacity - 1 : b.slots[i] \in Slot
  BY DEF Buf
<1>5. Empty \in Slot
  BY DEF Empty, Slot, Seqs
<1>6. s \in [0 .. Capacity - 1 -> Slot]
  BY <1>4, <1>5
<1>7. Ahead(b.next, k) \in Seqs
  BY AheadIn
<1>8. Emit(b) = [b EXCEPT !.out = o, !.slots = s, !.next = Ahead(@, k),
                          !.age = IF k > 0 THEN 0 ELSE @]
  BY <1>1 DEF Emit
<1>9. (IF k > 0 THEN 0 ELSE b.age) \in 0 .. MaxWait + 1
  BY DEF Buf
<1>10. \A i \in 0 .. Capacity - 1 : s[i] = IF b.slots[i].seq \in given THEN Empty ELSE b.slots[i]
  BY <1>4
<1>. HIDE DEF o, s
<1>11. Emit(b) = [next |-> Ahead(b.next, k), highest |-> b.highest, slots |-> s,
                  awaiting |-> b.awaiting, age |-> IF k > 0 THEN 0 ELSE b.age, out |-> o]
  BY <1>8 DEF Buf
<1>12. Emit(b) \in Buf
  <2>1. b.highest \in Seqs \cup {None} /\ b.awaiting \in BOOLEAN
    BY DEF Buf
  <2>. QED  BY <1>3, <1>6, <1>7, <1>9, <1>11, <2>1 DEF Buf
<1>13. /\ Emit(b).next = Ahead(b.next, k) /\ Emit(b).highest = b.highest
       /\ Emit(b).out = o /\ Emit(b).slots = s
  BY <1>11
<1>14. Emit(b).awaiting = b.awaiting
  BY <1>11
<1>15. Emit(b).out = [i \in 1 .. k |-> b.slots[Ahead(b.next, i - 1) % Capacity].frame]
  BY <1>13 DEF o
<1>. HIDE DEF given
<1>16. \A i \in 0 .. Capacity - 1 :
         Emit(b).slots[i] = IF b.slots[i].seq \in given THEN Empty ELSE b.slots[i]
  BY <1>10, <1>13
<1>. QED  BY <1>1, <1>7, <1>12, <1>13, <1>14, <1>15, <1>16 DEF given

\* Moving the cursor and waiting, or not.
LEMMA AwaitsType ==
  ASSUME NEW b \in Buf, NEW n \in Seqs, NEW w \in BOOLEAN
  PROVE  LET a == [b EXCEPT !.next = n, !.awaiting = w] IN
         /\ a \in Buf
         /\ a.next = n /\ a.highest = b.highest /\ a.slots = b.slots /\ a.out = b.out
         /\ a.awaiting = w
BY DEF Buf

\* Poll goes by the cursor: nothing, what is there, or a hole given up.
LEMMA PollType ==
  ASSUME NEW b \in Buf, NEW wait
  PROVE  Poll(b, wait) \in Buf
<1>1. CASE b.awaiting \/ b.next = None
  BY <1>1 DEF Poll
<1>2. CASE ~(b.awaiting \/ b.next = None)
  <2>1. b.next \in Seqs
    BY <1>2 DEF Buf
  <2>2. Emit(b) \in Buf
    BY <2>1, EmitType
  <2>3. CASE video
    <3>1. Ahead(b.next, 1) \in Seqs
      BY <2>1, AheadIn
    <3>4. [b EXCEPT !.next = Ahead(b.next, 1), !.awaiting = TRUE] \in Buf
      BY <3>1, AwaitsType
    <3>. QED  BY <1>2, <2>2, <2>3, <3>4 DEF Poll, Skip
  <2>4. CASE ~video
    <3>1. PICK k \in 0 .. Capacity : k = Holes(b)
      BY HolesIs
    <3>2. PICK a : a = [b EXCEPT !.next = Ahead(@, k)]
      OBVIOUS
    <3>3. Ahead(b.next, k) \in Seqs
      BY <2>1, AheadIn
    <3>4. a \in Buf /\ a.next \in Seqs
      BY <3>2, <3>3 DEF Buf
    <3>5. Emit(a) \in Buf
      BY <3>4, EmitType
    <3>. QED  BY <1>2, <2>2, <2>4, <3>1, <3>2, <3>5 DEF Poll, Skip
  <2>. QED  BY <2>3, <2>4
<1>. QED  BY <1>1, <1>2

\* Placing a frame changes at most the slot of its number.
LEMMA PlaceType ==
  ASSUME NEW b \in Buf, NEW n \in Seqs, NEW f \in Places
  PROVE  /\ Place(b, n, f) \in Buf
         /\ Place(b, n, f).next = b.next /\ Place(b, n, f).highest = b.highest
         /\ Place(b, n, f).awaiting = b.awaiting /\ Place(b, n, f).out = b.out
         /\ \/ Place(b, n, f).slots = b.slots
            \/ Place(b, n, f).slots
                 = [b.slots EXCEPT ![n % Capacity] = [seq |-> n, frame |-> f]]
<1>1. CASE Place(b, n, f) = b
  BY <1>1
<1>2. CASE Place(b, n, f) # b
  <2>1. [seq |-> n, frame |-> f] \in Slot
    BY ConstantsAssumption DEF Slot, Places
  <2>2. PICK s : s = [b.slots EXCEPT ![n % Capacity] = [seq |-> n, frame |-> f]]
    OBVIOUS
  <2>3. s \in [0 .. Capacity - 1 -> Slot]
    BY <2>1, <2>2, SlotIn DEF Buf
  <2>4. Place(b, n, f) = [b EXCEPT !.slots = s]
    BY <1>2, <2>2 DEF Place
  <2>5. [b EXCEPT !.slots = s] \in Buf /\ [b EXCEPT !.slots = s].slots = s
    BY <2>3 DEF Buf
  <2>6. [b EXCEPT !.slots = s].awaiting = b.awaiting
    BY DEF Buf
  <2>7. /\ [b EXCEPT !.slots = s].next = b.next /\ [b EXCEPT !.slots = s].highest = b.highest
        /\ [b EXCEPT !.slots = s].out = b.out
    BY DEF Buf
  <2>. QED  BY <2>2, <2>4, <2>5, <2>6, <2>7
<1>. QED  BY <1>1, <1>2

\* The buffer that a keyframe with number n begins anew.
Renewed(b, n) == [b EXCEPT !.slots = [i \in DOMAIN b.slots |-> Empty], !.next = n,
                           !.highest = n, !.awaiting = FALSE, !.age = 0]

LEMMA RenewedType ==
  ASSUME NEW b \in Buf, NEW n \in Seqs
  PROVE  /\ Renewed(b, n) \in Buf
         /\ Renewed(b, n).next = n /\ Renewed(b, n).highest = n
         /\ Renewed(b, n).slots = [i \in 0 .. Capacity - 1 |-> Empty]
         /\ Renewed(b, n).out = b.out
         /\ Renewed(b, n).awaiting = FALSE
<1>1. PICK s : s = [i \in 0 .. Capacity - 1 |-> Empty]
  OBVIOUS
<1>2. s \in [0 .. Capacity - 1 -> Slot]
  <2>1. Empty \in Slot
    BY Sizes, ConstantsAssumption DEF Empty, Slot, Seqs
  <2>. QED  BY <1>1, <2>1
<1>3. 0 \in 0 .. MaxWait + 1
  BY ConstantsAssumption
<1>4. DOMAIN b.slots = 0 .. Capacity - 1
  BY DEF Buf
<1>5. Renewed(b, n) = [b EXCEPT !.slots = s, !.next = n, !.highest = n, !.awaiting = FALSE, !.age = 0]
  BY <1>1, <1>4 DEF Renewed
<1>6. PICK w \in BOOLEAN : w = FALSE
  OBVIOUS
<1>7. PICK t \in 0 .. MaxWait + 1 : t = 0
  BY <1>3
<1>8. PICK a : a = [b EXCEPT !.slots = s, !.next = n, !.highest = n, !.awaiting = w, !.age = t]
  OBVIOUS
<1>9. /\ a \in Buf
      /\ a.next = n /\ a.highest = n /\ a.slots = s /\ a.out = b.out
      /\ a.awaiting = w
  BY <1>2, <1>8 DEF Buf
<1>10. Renewed(b, n) = a
  BY <1>5, <1>6, <1>7, <1>8
<1>. QED  BY <1>1, <1>6, <1>9, <1>10

\* The buffer as PushOther has it before a frame with number n is placed.
Begun(b, n) == IF b.next = None THEN [b EXCEPT !.next = n, !.age = 0] ELSE b

Raised(b, n) ==
  [Begun(b, n) EXCEPT !.highest = IF @ = None \/ SeqLess(@, n) THEN n ELSE @]

LEMMA RaisedType ==
  ASSUME NEW b \in Buf, NEW n \in Seqs
  PROVE  /\ Begun(b, n) \in Buf /\ Raised(b, n) \in Buf
         /\ Begun(b, n).next = IF b.next = None THEN n ELSE b.next
         /\ Begun(b, n).out = b.out
         /\ Raised(b, n).next = IF b.next = None THEN n ELSE b.next
         /\ Raised(b, n).highest
              = IF b.highest = None \/ SeqLess(b.highest, n) THEN n ELSE b.highest
         /\ Raised(b, n).slots = b.slots /\ Raised(b, n).out = b.out
         /\ Raised(b, n).awaiting = b.awaiting
<1>1. /\ b.next \in Seqs \cup {None} /\ b.highest \in Seqs \cup {None}
      /\ b.slots \in [0 .. Capacity - 1 -> Slot]
      /\ b.age \in 0 .. MaxWait + 1 /\ b.out \in Seq(Places) /\ 0 \in 0 .. MaxWait + 1
  BY ConstantsAssumption DEF Buf
<1>2. b.awaiting \in BOOLEAN
  BY DEF Buf
<1>3. PICK c : c = IF b.next = None THEN n ELSE b.next
  OBVIOUS
<1>4. PICK a : a = IF b.next = None THEN 0 ELSE b.age
  OBVIOUS
<1>5. PICK h : h = IF b.highest = None \/ SeqLess(b.highest, n) THEN n ELSE b.highest
  OBVIOUS
<1>6. c \in Seqs \cup {None} /\ a \in 0 .. MaxWait + 1 /\ h \in Seqs \cup {None}
  BY <1>1, <1>3, <1>4, <1>5
<1>7. Begun(b, n) = [next |-> c, highest |-> b.highest, slots |-> b.slots,
                     awaiting |-> b.awaiting, age |-> a, out |-> b.out]
  <2>1. CASE b.next = None
    BY <1>3, <1>4, <2>1 DEF Begun, Buf
  <2>2. CASE b.next # None
    BY <1>3, <1>4, <2>2 DEF Begun, Buf
  <2>. QED  BY <2>1, <2>2
<1>8. Raised(b, n) = [next |-> c, highest |-> h, slots |-> b.slots,
                      awaiting |-> b.awaiting, age |-> a, out |-> b.out]
  BY <1>5, <1>7 DEF Raised
<1>9. Begun(b, n) \in Buf /\ Raised(b, n) \in Buf
  BY <1>1, <1>2, <1>6, <1>7, <1>8 DEF Buf
<1>10. Raised(b, n).awaiting = b.awaiting
  BY <1>8
<1>11. /\ Begun(b, n).next = c /\ Begun(b, n).out = b.out /\ Raised(b, n).next = c
       /\ Raised(b, n).highest = h
       /\ Raised(b, n).slots = b.slots /\ Raised(b, n).out = b.out
  BY <1>7, <1>8
<1>. QED  BY <1>3, <1>5, <1>9, <1>10, <1>11

\* What pushing a frame does, in terms of the two.
LEMMA PushIs ==
  ASSUME NEW b \in Buf, NEW n \in Seqs, NEW f \in Places, NEW sort
  PROVE  \/ /\ sort = "key" /\ b.next # None /\ SeqLess(n, b.next)
            /\ Push(b, n, f, sort) = b
         \/ /\ sort = "key" /\ ~(b.next # None /\ SeqLess(n, b.next))
            /\ Push(b, n, f, sort) = Place(Renewed(b, n), n, f)
         \/ /\ sort # "key" /\ (b.awaiting \/ SeqLess(n, Begun(b, n).next))
            /\ Push(b, n, f, sort) = b
         \/ /\ sort # "key" /\ ~(b.awaiting \/ SeqLess(n, Begun(b, n).next))
            /\ Push(b, n, f, sort) = Place(Raised(b, n), n, f)
BY DEF Push, PushKey, PushOther, Renewed, Begun, Raised

LEMMA PushType ==
  ASSUME NEW b \in Buf, NEW n \in Seqs, NEW f \in Places, NEW sort
  PROVE  Push(b, n, f, sort) \in Buf /\ Push(b, n, f, sort).out = b.out
<1>1. CASE Push(b, n, f, sort) = b
  BY <1>1
<1>2. CASE Push(b, n, f, sort) = Place(Renewed(b, n), n, f)
  <2>1. PICK c \in Buf : c = Renewed(b, n) /\ c.out = b.out
    BY RenewedType
  <2>2. Place(c, n, f) \in Buf /\ Place(c, n, f).out = c.out
    BY PlaceType
  <2>. QED  BY <1>2, <2>1, <2>2
<1>3. CASE Push(b, n, f, sort) = Place(Raised(b, n), n, f)
  <2>1. PICK c \in Buf : c = Raised(b, n) /\ c.out = b.out
    BY RaisedType
  <2>2. Place(c, n, f) \in Buf /\ Place(c, n, f).out = c.out
    BY PlaceType
  <2>. QED  BY <1>3, <2>1, <2>2
<1>. QED  BY <1>1, <1>2, <1>3, PushIs

LEMMA StateType ==
  ASSUME TypeOK
  PROVE  /\ State \in Buf /\ State.out = <<>>
         /\ State.next = next /\ State.highest = highest /\ State.slots = slots
         /\ State.awaiting = awaiting
<1>1. State.awaiting = awaiting
  BY DEF State
<1>2. State \in Buf
  BY DEF State, Buf, TypeOK, Slot
<1>. QED  BY <1>1, <1>2 DEF State

\* The variables after a poll are those of a buffer.
LEMMA BecomeType ==
  ASSUME TypeOK, NEW b \in Buf, Become(b)
  PROVE  /\ next' \in Seqs \cup {None} /\ highest' \in Seqs \cup {None}
         /\ slots' \in [0 .. Capacity - 1 -> Slot]
         /\ awaiting' \in BOOLEAN /\ age' \in 0 .. MaxWait + 1 /\ out' \in Seq(Places)
<1>1. PICK wait \in MinWait .. MaxWait :
        LET p == Poll(b, wait) IN
        /\ next' = p.next /\ highest' = p.highest /\ slots' = p.slots
        /\ awaiting' = p.awaiting /\ age' = p.age
        /\ out' = out \o p.out
  BY DEF Become
<1>2. PICK p \in Buf : p = Poll(b, wait)
  BY PollType
<1>3. awaiting' \in BOOLEAN
  <2>1. awaiting' = p.awaiting
    BY <1>1, <1>2
  <2>. QED  BY <2>1 DEF Buf
<1>4. p.out \in Seq(Places) /\ out \in Seq(Places) /\ out' = out \o p.out
  BY <1>1, <1>2 DEF Buf, TypeOK
<1>5. out' \in Seq(Places)
  BY <1>4
<1>6. next' = p.next /\ highest' = p.highest /\ slots' = p.slots /\ age' = p.age
  BY <1>1, <1>2
<1>. QED  BY <1>3, <1>5, <1>6 DEF Buf

LEMMA TypeInit == Init => TypeOK
<1>. SUFFICES ASSUME Init PROVE TypeOK
  OBVIOUS
<1>1. Empty \in [seq : Seqs, frame : 0 .. MaxArrivals]
  BY Sizes, ConstantsAssumption DEF Empty, Seqs
<1>2. slots \in [0 .. Capacity - 1 -> [seq : Seqs, frame : 0 .. MaxArrivals]]
  BY <1>1 DEF Init
<1>3. kind \in Seq({"key", "delta"}) /\ Len(kind) = 0 /\ out \in Seq(Places)
      /\ arrived \in Seq(Frames) /\ Len(arrived) = 0
  BY DEF Init
<1>4. video \in BOOLEAN /\ renumbered \in BOOLEAN /\ awaiting \in BOOLEAN
  BY DEF Init
<1>5. next = None /\ highest = None /\ transit = {} /\ newest = 0 /\ copies = 0 /\ age = 0
  BY DEF Init
<1>. QED  BY <1>2, <1>3, <1>4, <1>5, ConstantsAssumption DEF TypeOK

LEMMA TypeStep == TypeOK /\ [Next]_vars => TypeOK'
<1>. SUFFICES ASSUME TypeOK, [Next]_vars PROVE TypeOK'
  OBVIOUS
<1>. MaxFrames \in Nat /\ MaxCopies \in Nat /\ MaxWait \in Nat /\ MaxArrivals \in Nat
  BY ConstantsAssumption
<1>1. ASSUME NEW k \in {"key", "delta"}, Send(k) PROVE TypeOK'
  <2>1. kind' \in Seq({"key", "delta"}) /\ Len(kind') = Len(kind) + 1 /\ Len(kind) \in Nat
    BY <1>1 DEF Send, TypeOK
  <2>2. Len(kind') <= MaxFrames /\ Len(kind') \in Frames
    BY <1>1, <2>1 DEF Send, TypeOK, Frames
  <2>3. transit' \subseteq Frames
    BY <1>1, <2>2 DEF Send, TypeOK
  <2>. QED  BY <1>1, <2>1, <2>2, <2>3 DEF Send, TypeOK, buffer, track
<1>2. ASSUME NEW f \in Frames, NEW again \in BOOLEAN, Arrive(f, again) PROVE TypeOK'
  <2>0. PICK p \in Places : p = IF renumbered THEN Len(arrived) + 1 ELSE f
    <3>1. Len(arrived) \in Nat /\ Len(arrived) < MaxArrivals
      BY <1>2 DEF Arrive, TypeOK
    <3>. QED  BY <3>1, ConstantsAssumption DEF Places, Frames
  <2>1. PICK b \in Buf : b = Push(State, Num(p), p, kind[f])
    BY NumIn, StateType, PushType DEF Places
  <2>2. Become(b)
    BY <1>2, <2>0, <2>1 DEF Arrive
  <2>3. /\ next' \in Seqs \cup {None} /\ highest' \in Seqs \cup {None}
        /\ slots' \in [0 .. Capacity - 1 -> Slot]
        /\ awaiting' \in BOOLEAN /\ age' \in 0 .. MaxWait + 1 /\ out' \in Seq(Places)
    BY <2>2, BecomeType
  <2>4. copies' \in 0 .. MaxCopies
    <3>1. CASE again
      BY <1>2, <3>1 DEF Arrive, TypeOK
    <3>2. CASE ~again
      BY <1>2, <3>2 DEF Arrive, TypeOK
    <3>. QED  BY <3>1, <3>2
  <2>5. arrived' \in Seq(Frames) /\ Len(arrived') <= MaxArrivals
    <3>1. /\ arrived \in Seq(Frames) /\ Len(arrived) \in Nat /\ Len(arrived) < MaxArrivals
          /\ arrived' = arrived \/ arrived' = Append(arrived, f)
      BY <1>2 DEF Arrive, TypeOK
    <3>. QED  BY <3>1
  <2>6. newest' \in 0 .. MaxFrames
    BY <1>2 DEF Arrive, TypeOK, Frames
  <2>7. transit' \subseteq Frames
    BY <1>2 DEF Arrive, TypeOK
  <2>. QED  BY <1>2, <2>3, <2>4, <2>5, <2>6, <2>7 DEF Arrive, TypeOK, Slot, track
<1>3. CASE OtherTrack
  <2>1. Become(State) /\ State \in Buf
    BY <1>3, StateType DEF OtherTrack
  <2>2. /\ next' \in Seqs \cup {None} /\ highest' \in Seqs \cup {None}
        /\ slots' \in [0 .. Capacity - 1 -> Slot]
        /\ awaiting' \in BOOLEAN /\ age' \in 0 .. MaxWait + 1 /\ out' \in Seq(Places)
    BY <2>1, BecomeType
  <2>. QED  BY <1>3, <2>2 DEF OtherTrack, TypeOK, Slot, network, track
<1>4. CASE Tick
  <2>1. age' \in 0 .. MaxWait + 1
    BY <1>4 DEF Tick, TypeOK
  <2>. QED  BY <1>4, <2>1 DEF Tick, TypeOK, network, track
<1>5. CASE UNCHANGED vars
  BY <1>5 DEF vars, network, track, buffer, TypeOK
<1>. QED  BY <1>1, <1>2, <1>3, <1>4, <1>5 DEF Next

\* Every variable keeps its type, for every capacity, modulus and window and under
\* both kinds of numbers: in particular the loops of poll end within one turn
\* of the buffer, and what they give out are frames.
THEOREM TypeCorrect == Spec => []TypeOK
BY TypeInit, TypeStep, PTL DEF Spec

-----------------------------------------------------------------------------
(* Order.  The cursor stands before a frame c, and the highest number is    *)
(* that of a frame h; c is at most one beyond h, and every slot holds a     *)
(* frame up to h under its number.                                          *)

\* There are at most half as many frames and arrivals as there are numbers.
HalfTurn == MaxArrivals <= Modulus \div 2

Kept(b, h) ==
  \A i \in 0 .. Capacity - 1 :
    b.slots[i].frame # 0 => b.slots[i].frame \in 1 .. h /\ b.slots[i].seq = Num(b.slots[i].frame)

Stands(b, c, h) == b.next = Num(c) /\ b.highest = Num(h) /\ c <= h + 1 /\ Kept(b, h)

LEMMA Room ==
  ASSUME HalfTurn
  PROVE  /\ MaxArrivals \in Nat /\ Capacity \in Nat \ {0}
         /\ MaxArrivals + Capacity < Modulus
         /\ Modulus \in Nat
BY Sizes, ConstantsAssumption DEF HalfTurn

\* Numbers of frames are in the order of the frames, the one after the last included.
LEMMA FrameLess ==
  ASSUME HalfTurn, NEW f \in 1 .. MaxArrivals, NEW g \in 1 .. MaxArrivals + 1
  PROVE  SeqLess(Num(f), Num(g)) <=> f < g
<1>1. PICK m \in Nat : m = Modulus \div 2
  BY Sizes
<1>2. -m <= f - g /\ f - g < m
  BY <1>1, ConstantsAssumption DEF HalfTurn
<1>. QED  BY <1>1, <1>2, NumLess

\* What has the number of frame d is frame d.
LEMMA HasIs ==
  ASSUME HalfTurn, NEW b \in Buf, NEW h \in 1 .. MaxArrivals, Kept(b, h),
         NEW d \in Nat, 1 <= d, d <= MaxArrivals + Capacity, Has(b, Num(d))
  PROVE  d <= h /\ b.slots[Num(d) % Capacity].frame = d
<1>1. PICK i \in 0 .. Capacity - 1 : i = Num(d) % Capacity
  BY NumIn, SlotIn
<1>2. b.slots[i].frame # 0 /\ b.slots[i].seq = Num(d)
  BY <1>1 DEF Has
<1>3. PICK g : g = b.slots[i].frame
  OBVIOUS
<1>4. g \in 1 .. h /\ Num(g) = Num(d)
  BY <1>2, <1>3 DEF Kept
<1>5. g = d
  BY <1>4, Room, NumSame
<1>. QED  BY <1>1, <1>3, <1>4, <1>5, Room

\* A run that starts at frame d is the frames from d on.
LEMMA EmitOrder ==
  ASSUME HalfTurn, NEW b \in Buf,
         NEW h \in 1 .. MaxArrivals, NEW d \in 1 .. h + 1, Stands(b, d, h)
  PROVE  \E k \in Nat :
           /\ d + k <= h + 1
           /\ Stands(Emit(b), d + k, h)
           /\ Emit(b).awaiting = b.awaiting
           /\ Emit(b).out = [i \in 1 .. k |-> d + i - 1]
           /\ Has(b, b.next) => k > 0
           /\ \A i \in 0 .. Capacity - 1 :
                Emit(b).slots[i] = b.slots[i] \/ b.slots[i].frame \in d .. d + k - 1
                  \/ b.slots[i].frame = 0
<1>. MaxArrivals \in Nat /\ Capacity \in Nat \ {0} /\ Modulus \in Nat \ {0}
  BY Room, Sizes
<1>1. b.next = Num(d) /\ b.highest = Num(h) /\ Kept(b, h) /\ b.next \in Seqs
  BY NumIn DEF Stands
<1>2. PICK k \in 0 .. Capacity : k = Run(b)
  BY <1>1, RunIs
<1>3. \A j \in 0 .. k - 1 : /\ Ahead(b.next, j) = Num(d + j)
                            /\ d + j <= h
                            /\ b.slots[Ahead(b.next, j) % Capacity].frame = d + j
  <2>. SUFFICES ASSUME NEW j \in 0 .. k - 1
                PROVE  /\ Ahead(b.next, j) = Num(d + j)
                       /\ d + j <= h
                       /\ b.slots[Ahead(b.next, j) % Capacity].frame = d + j
    OBVIOUS
  <2>1. Has(b, Ahead(b.next, j))
    BY <1>1, <1>2, RunIs
  <2>2. Ahead(b.next, j) = Num(d + j)
    BY <1>1, NumAhead
  <2>3. PICK g \in Nat : g = d + j
    OBVIOUS
  <2>4. 1 <= g /\ g <= MaxArrivals + Capacity /\ Has(b, Num(g))
    BY <2>1, <2>2, <2>3
  <2>5. g <= h /\ b.slots[Num(g) % Capacity].frame = g
    BY <1>1, <2>4, HasIs
  <2>. QED  BY <2>2, <2>3, <2>5
<1>4. d + k <= h + 1
  <2>1. CASE k = 0
    BY <2>1
  <2>2. CASE k # 0
    <3>1. k - 1 \in 0 .. k - 1
      BY <2>2
    <3>. QED  BY <1>3, <3>1
  <2>. QED  BY <2>1, <2>2
<1>5. PICK e \in Buf : e = Emit(b)
  BY <1>1, EmitType
<1>6. /\ e.next = Ahead(b.next, k) /\ e.highest = b.highest
      /\ e.out = [i \in 1 .. k |-> b.slots[Ahead(b.next, i - 1) % Capacity].frame]
  BY <1>1, <1>2, <1>5, EmitType
<1>7. e.awaiting = b.awaiting
  BY <1>1, <1>5, EmitType
<1>8. \A i \in 0 .. Capacity - 1 :
        e.slots[i] = IF b.slots[i].seq \in {Ahead(b.next, j) : j \in 0 .. k - 1}
                     THEN Empty ELSE b.slots[i]
  BY <1>1, <1>2, <1>5, EmitType
<1>9. e.next = Num(d + k)
  BY <1>1, <1>6, NumAhead
<1>10. Kept(e, h)
  <2>. SUFFICES ASSUME NEW i \in 0 .. Capacity - 1, e.slots[i].frame # 0
                PROVE  e.slots[i].frame \in 1 .. h /\ e.slots[i].seq = Num(e.slots[i].frame)
    BY DEF Kept
  <2>1. e.slots[i] = b.slots[i]
    BY <1>8 DEF Empty
  <2>. QED  BY <1>1, <2>1 DEF Kept
<1>11. e.out = [i \in 1 .. k |-> d + i - 1]
  <2>1. \A i \in 1 .. k : b.slots[Ahead(b.next, i - 1) % Capacity].frame = d + i - 1
    <3>. SUFFICES ASSUME NEW i \in 1 .. k
                  PROVE  b.slots[Ahead(b.next, i - 1) % Capacity].frame = d + i - 1
      OBVIOUS
    <3>1. PICK j \in 0 .. k - 1 : j = i - 1
      OBVIOUS
    <3>. QED  BY <1>3, <3>1
  <2>. QED  BY <1>6, <2>1
<1>12. Has(b, b.next) => k > 0
  <2>. SUFFICES ASSUME Has(b, b.next), k = 0 PROVE FALSE
    OBVIOUS
  <2>1. ~Has(b, Ahead(b.next, 0))
    BY <1>1, <1>2, RunIs
  <2>. QED  BY <1>1, <2>1, Turn
<1>13. \A i \in 0 .. Capacity - 1 :
         e.slots[i] = b.slots[i] \/ b.slots[i].frame \in d .. d + k - 1 \/ b.slots[i].frame = 0
  <2>. SUFFICES ASSUME NEW i \in 0 .. Capacity - 1,
                       e.slots[i] # b.slots[i], b.slots[i].frame # 0
                PROVE  b.slots[i].frame \in d .. d + k - 1
    OBVIOUS
  <2>1. PICK j \in 0 .. k - 1 : b.slots[i].seq = Ahead(b.next, j)
    BY <1>8
  <2>2. PICK g : g = b.slots[i].frame
    OBVIOUS
  <2>3. g \in 1 .. h /\ b.slots[i].seq = Num(g)
    BY <1>1, <2>2 DEF Kept
  <2>4. Num(g) = Num(d + j)
    BY <1>3, <2>1, <2>3
  <2>5. g = d + j
    BY <1>3, <2>3, <2>4, Room, NumSame
  <2>. QED  BY <2>2, <2>5
<1>14. Stands(e, d + k, h)
  BY <1>1, <1>4, <1>6, <1>9, <1>10 DEF Stands
<1>15. k \in Nat
  OBVIOUS
<1>16. /\ d + k <= h + 1
       /\ Stands(Emit(b), d + k, h)
       /\ Emit(b).awaiting = b.awaiting
       /\ Emit(b).out = [i \in 1 .. k |-> d + i - 1]
       /\ Has(b, b.next) => k > 0
       /\ \A i \in 0 .. Capacity - 1 :
            Emit(b).slots[i] = b.slots[i] \/ b.slots[i].frame \in d .. d + k - 1
              \/ b.slots[i].frame = 0
  BY <1>4, <1>5, <1>7, <1>11, <1>12, <1>13, <1>14
<1>. QED  BY <1>15, <1>16

\* Polling turns b, whose cursor is before c, into p: it gives out k frames from
\* d on and keeps the others.  A video track that goes on has skipped nothing.
Polled(b, p, c, h, d, k) ==
  /\ c <= d /\ d + k <= h + 1
  /\ Stands(p, d + k, h)
  /\ p.out = [i \in 1 .. k |-> d + i - 1]
  /\ p.awaiting => video /\ k = 0
  /\ b.awaiting => p.awaiting
  /\ video /\ ~p.awaiting => d = c
  /\ ~b.awaiting /\ Has(b, b.next) => k > 0 /\ d = c
  /\ \A i \in 0 .. Capacity - 1 :
       p.slots[i] = b.slots[i] \/ b.slots[i].frame \in d .. d + k - 1
         \/ b.slots[i].frame = 0

LEMMA PollOrder ==
  ASSUME HalfTurn, TypeOK, NEW b \in Buf, b.out = <<>>, b.awaiting => video,
         NEW h \in 1 .. MaxArrivals, NEW c \in 1 .. h + 1, Stands(b, c, h), NEW wait
  PROVE  \E d \in 1 .. h + 1, k \in Nat : Polled(b, Poll(b, wait), c, h, d, k)
<1>. MaxArrivals \in Nat /\ Capacity \in Nat \ {0} /\ Modulus \in Nat \ {0}
  BY Room, Sizes
<1>0. b.next \in Seqs /\ b.next # None /\ b.next = Num(c) /\ b.highest = Num(h) /\ Kept(b, h)
  <2>1. Num(c) \in Seqs /\ c \in Int
    BY NumIn
  <2>2. None \notin Seqs
    BY DEF Seqs, None
  <2>. QED  BY <2>1, <2>2 DEF Stands
<1>1. CASE Poll(b, wait) = b /\ ~(~b.awaiting /\ Has(b, b.next))
  <2>1. b.out = [i \in 1 .. 0 |-> c + i - 1]
    OBVIOUS
  <2>2. Stands(b, c + 0, h)
    OBVIOUS
  <2>3. Polled(b, b, c, h, c, 0)
    BY <1>1, <2>1, <2>2 DEF Polled
  <2>. QED  BY <1>1, <2>3
<1>2. CASE ~b.awaiting /\ Has(b, b.next)
  <2>1. Poll(b, wait) = Emit(b)
    BY <1>0, <1>2 DEF Poll
  <2>2. PICK k \in Nat :
           /\ c + k <= h + 1
           /\ Stands(Emit(b), c + k, h)
           /\ Emit(b).awaiting = b.awaiting
           /\ Emit(b).out = [i \in 1 .. k |-> c + i - 1]
           /\ Has(b, b.next) => k > 0
           /\ \A i \in 0 .. Capacity - 1 :
                Emit(b).slots[i] = b.slots[i] \/ b.slots[i].frame \in c .. c + k - 1
                  \/ b.slots[i].frame = 0
    BY EmitOrder
  <2>3. Polled(b, Emit(b), c, h, c, k)
    BY <1>2, <2>2 DEF Polled
  <2>. QED  BY <2>1, <2>3
<1>3. CASE ~b.awaiting /\ ~Has(b, b.next) /\ ~Beyond(b, b.next) /\ Poll(b, wait) = Skip(b)
  <2>1. c <= h
    <3>. SUFFICES ASSUME c = h + 1 PROVE FALSE
      OBVIOUS
    <3>1. SeqLess(Num(h), Num(c))
      BY NumLess, Sizes
    <3>2. Num(h) # None
      BY NumIn DEF Seqs, None
    <3>. QED  BY <1>0, <1>3, <3>1, <3>2 DEF Beyond
  <2>2. CASE video
    <3>1. PICK n \in Seqs : n = Ahead(b.next, 1)
      BY <1>0, AheadIn, 1 \in Int
    <3>10. PICK w \in BOOLEAN : w = TRUE
      OBVIOUS
    <3>11. PICK d \in 1 .. h + 1 : d = c + 1
      BY <2>1
    <3>2. PICK p : p = [b EXCEPT !.next = n, !.awaiting = w]
      OBVIOUS
    <3>3. p.next = n /\ p.highest = b.highest /\ p.slots = b.slots /\ p.out = b.out
      BY <3>2 DEF Buf
    <3>4. p.awaiting
      BY <3>10, <3>2 DEF Buf
    <3>5. Poll(b, wait) = p
      BY <1>3, <2>2, <3>1, <3>10, <3>2 DEF Skip
    <3>6. n = Num(d)
      BY <1>0, <3>1, <3>11, NumAhead
    <3>7. Stands(p, d + 0, h)
      BY <1>0, <2>1, <3>3, <3>6 DEF Stands, Kept
    <3>8. p.out = [i \in 1 .. 0 |-> d + i - 1]
      BY <3>3
    <3>9. Polled(b, p, c, h, d, 0)
      BY <1>3, <2>2, <3>11, <3>3, <3>4, <3>7, <3>8 DEF Polled
    <3>. QED  BY <3>5, <3>9
  <2>3. CASE ~video
    <3>1. PICK j \in 0 .. Capacity : j = Holes(b)
      BY HolesIs
    <3>2. PICK a : a = [b EXCEPT !.next = Ahead(@, j)]
      OBVIOUS
    <3>3. Ahead(b.next, j) = Num(c + j) /\ Num(c + j) \in Seqs
      <4>1. Ahead(Num(c), j) = Num(c + j) /\ c + j \in Int
        BY NumAhead
      <4>2. Num(c + j) \in Seqs
        BY <4>1, NumIn
      <4>. QED  BY <1>0, <4>1, <4>2
    <3>4. a \in Buf
      BY <3>2, <3>3 DEF Buf
    <3>5. a.next = Num(c + j) /\ a.highest = b.highest /\ a.slots = b.slots
      BY <3>2, <3>3 DEF Buf
    <3>6. a.awaiting = b.awaiting
      BY <3>2 DEF Buf
    <3>7. c + j <= h + 1
      <4>. SUFFICES ASSUME ~(c + j <= h + 1) PROVE FALSE
        OBVIOUS
      <4>1. PICK i \in 0 .. j - 1 : i = h + 1 - c
        BY <2>1
      <4>2. Ahead(b.next, i) = Num(h + 1)
        <5>1. Ahead(Num(c), i) = Num(c + i)
          BY NumAhead
        <5>2. c + i = h + 1
          BY <4>1
        <5>. QED  BY <1>0, <5>1, <5>2
      <4>3. SeqLess(Num(h), Num(h + 1))
        BY NumLess, Sizes
      <4>4. Beyond(b, Ahead(b.next, i))
        BY <1>0, <4>2, <4>3, NumIn DEF Beyond, Seqs, None
      <4>. QED  BY <3>1, <4>4, HolesIs DEF Stop
    <3>8. PICK d \in 1 .. h + 1 : d = c + j
      BY <3>7
    <3>9. Stands(a, d, h)
      BY <1>0, <3>5, <3>8 DEF Stands, Kept
    <3>10. PICK k \in Nat :
             /\ d + k <= h + 1
             /\ Stands(Emit(a), d + k, h)
             /\ Emit(a).awaiting = a.awaiting
             /\ Emit(a).out = [i \in 1 .. k |-> d + i - 1]
             /\ Has(a, a.next) => k > 0
             /\ \A i \in 0 .. Capacity - 1 :
                  Emit(a).slots[i] = a.slots[i] \/ a.slots[i].frame \in d .. d + k - 1
                    \/ a.slots[i].frame = 0
      BY <3>4, <3>9, EmitOrder
    <3>11. Poll(b, wait) = Emit(a)
      BY <1>3, <2>3, <3>1, <3>2 DEF Skip
    <3>12. Polled(b, Emit(a), c, h, d, k)
      BY <1>3, <2>3, <3>5, <3>6, <3>8, <3>10 DEF Polled
    <3>. QED  BY <3>11, <3>12
  <2>. QED  BY <2>2, <2>3
<1>. QED  BY <1>0, <1>1, <1>2, <1>3 DEF Poll


\* Placing a frame under its number.
LEMMA PlaceKept ==
  ASSUME NEW b \in Buf, NEW h \in 1 .. MaxArrivals, Kept(b, h), NEW f \in 1 .. h
  PROVE  Kept(Place(b, Num(f), f), h)
<1>1. PICK n \in Seqs : n = Num(f)
  BY NumIn
<1>2. f \in Places /\ f # 0
  BY ConstantsAssumption DEF Places
<1>3. PICK p : p = Place(b, n, f)
  OBVIOUS
<1>4. \/ p.slots = b.slots
      \/ p.slots = [b.slots EXCEPT ![n % Capacity] = [seq |-> n, frame |-> f]]
  BY <1>2, <1>3, PlaceType
<1>5. CASE p.slots = b.slots
  BY <1>1, <1>3, <1>5 DEF Kept
<1>6. CASE p.slots = [b.slots EXCEPT ![n % Capacity] = [seq |-> n, frame |-> f]]
  <2>. SUFFICES ASSUME NEW i \in 0 .. Capacity - 1, p.slots[i].frame # 0
                PROVE  p.slots[i].frame \in 1 .. h /\ p.slots[i].seq = Num(p.slots[i].frame)
    BY <1>1, <1>3 DEF Kept
  <2>1. DOMAIN b.slots = 0 .. Capacity - 1
    BY DEF Buf
  <2>2. CASE i = n % Capacity
    <3>1. p.slots[i] = [seq |-> n, frame |-> f]
      BY <1>6, <2>1, <2>2
    <3>. QED  BY <1>1, <3>1
  <2>3. CASE i # n % Capacity
    BY <1>6, <2>1, <2>3 DEF Kept
  <2>. QED  BY <2>2, <2>3
<1>. QED  BY <1>4, <1>5, <1>6

\* A frame that is newer than what its slot holds is placed.
LEMMA PlaceNewer ==
  ASSUME HalfTurn, NEW b \in Buf, NEW f \in 1 .. MaxArrivals,
         \A i \in 0 .. Capacity - 1 :
           b.slots[i].frame # 0 => b.slots[i].frame \in 1 .. f - 1 /\ b.slots[i].seq = Num(b.slots[i].frame)
  PROVE  Place(b, Num(f), f).slots[Num(f) % Capacity] = [seq |-> Num(f), frame |-> f]
<1>1. PICK n \in Seqs : n = Num(f)
  BY NumIn
<1>2. PICK j \in 0 .. Capacity - 1 : j = n % Capacity
  BY SlotIn
<1>3. b.slots[j].frame # 0 => SeqLess(b.slots[j].seq, n)
  <2>. SUFFICES ASSUME b.slots[j].frame # 0 PROVE SeqLess(b.slots[j].seq, n)
    OBVIOUS
  <2>1. PICK g : g = b.slots[j].frame
    OBVIOUS
  <2>2. g \in 1 .. f - 1 /\ b.slots[j].seq = Num(g)
    BY <2>1
  <2>3. SeqLess(Num(g), Num(f))
    BY <2>2, FrameLess, ConstantsAssumption
  <2>. QED  BY <1>1, <2>2, <2>3
<1>4. Place(b, n, f) = [b EXCEPT !.slots[j] = [seq |-> n, frame |-> f]]
  BY <1>2, <1>3 DEF Place
<1>5. DOMAIN b.slots = 0 .. Capacity - 1
  BY DEF Buf
<1>6. [b EXCEPT !.slots[j] = [seq |-> n, frame |-> f]].slots[j] = [seq |-> n, frame |-> f]
  BY <1>2, <1>5 DEF Buf
<1>. QED  BY <1>1, <1>2, <1>4, <1>6

\* A frame that begins the buffer, or begins it anew, is next.
LEMMA PushFirst ==
  ASSUME HalfTurn, NEW b \in Buf, NEW f \in 1 .. MaxArrivals,
         b.next = Num(f), b.highest = Num(f), \A i \in 0 .. Capacity - 1 : b.slots[i].frame = 0
  PROVE  /\ Stands(Place(b, Num(f), f), f, f)
         /\ Has(Place(b, Num(f), f), Place(b, Num(f), f).next)
         /\ Place(b, Num(f), f).slots[Num(f) % Capacity].frame = f
<1>1. PICK n \in Seqs : n = Num(f)
  BY NumIn
<1>2. f \in Places /\ f \in 1 .. f /\ f # 0
  BY ConstantsAssumption DEF Places
<1>3. Place(b, n, f).next = n /\ Place(b, n, f).highest = n
  BY <1>1, <1>2, PlaceType
<1>4. Kept(b, f)
  BY DEF Kept
<1>5. Kept(Place(b, n, f), f)
  BY <1>1, <1>2, <1>4, PlaceKept
<1>6. Place(b, n, f).slots[n % Capacity] = [seq |-> n, frame |-> f]
  BY <1>1, PlaceNewer
<1>. QED  BY <1>1, <1>2, <1>3, <1>5, <1>6 DEF Stands, Has

\* The first packet of all.
LEMMA PushBegins ==
  ASSUME HalfTurn, NEW b \in Buf, NEW f \in 1 .. MaxArrivals, NEW sort,
         b.next = None, b.highest = None, ~b.awaiting,
         \A i \in 0 .. Capacity - 1 : b.slots[i].frame = 0
  PROVE  LET p == Push(b, Num(f), f, sort) IN
         /\ Stands(p, f, f) /\ Has(p, p.next) /\ ~p.awaiting
         /\ p.slots[Num(f) % Capacity].frame = f
<1>1. PICK n \in Seqs : n = Num(f)
  BY NumIn
<1>2. f \in Places
  BY DEF Places
<1>3. ~SeqLess(n, n)
  BY <1>1, NumLess, Sizes, ConstantsAssumption
<1>4. CASE Push(b, n, f, sort) = Place(Renewed(b, n), n, f)
  <2>1. PICK a \in Buf : a = Renewed(b, n)
    BY RenewedType
  <2>2. /\ a.next = n /\ a.highest = n /\ a.slots = [i \in 0 .. Capacity - 1 |-> Empty]
    BY <2>1, RenewedType
  <2>3. ~a.awaiting
    BY <2>1, RenewedType
  <2>4. \A i \in 0 .. Capacity - 1 : a.slots[i].frame = 0
    BY <2>2 DEF Empty
  <2>5. PICK p : p = Place(a, n, f)
    OBVIOUS
  <2>6. Stands(p, f, f) /\ Has(p, p.next) /\ p.slots[n % Capacity].frame = f
    <3>1. a.next = Num(f) /\ a.highest = Num(f)
      BY <1>1, <2>2
    <3>2. /\ Stands(Place(a, Num(f), f), f, f)
          /\ Has(Place(a, Num(f), f), Place(a, Num(f), f).next)
          /\ Place(a, Num(f), f).slots[Num(f) % Capacity].frame = f
      BY <2>4, <3>1, PushFirst
    <3>. QED  BY <1>1, <2>5, <3>2
  <2>7. ~p.awaiting
    <3>1. Place(a, n, f).awaiting = a.awaiting
      BY <1>2, PlaceType
    <3>. QED  BY <2>3, <2>5, <3>1
  <2>. QED  BY <1>1, <1>4, <2>1, <2>5, <2>6, <2>7
<1>5. CASE Push(b, n, f, sort) = Place(Raised(b, n), n, f)
  <2>1. PICK a \in Buf : a = Raised(b, n)
    BY RaisedType
  <2>2. a.next = n /\ a.highest = n /\ a.slots = b.slots
    BY <2>1, RaisedType
  <2>3. ~a.awaiting
    BY <2>1, RaisedType
  <2>4. PICK p : p = Place(a, n, f)
    OBVIOUS
  <2>5. Stands(p, f, f) /\ Has(p, p.next) /\ p.slots[n % Capacity].frame = f
    <3>1. \A i \in 0 .. Capacity - 1 : a.slots[i].frame = 0
      BY <2>2
    <3>2. /\ Stands(Place(a, Num(f), f), f, f)
          /\ Has(Place(a, Num(f), f), Place(a, Num(f), f).next)
          /\ Place(a, Num(f), f).slots[Num(f) % Capacity].frame = f
      BY <1>1, <2>2, <3>1, PushFirst
    <3>. QED  BY <1>1, <2>4, <3>2
  <2>6. ~p.awaiting
    <3>1. Place(a, n, f).awaiting = a.awaiting
      BY <1>2, PlaceType
    <3>. QED  BY <2>3, <2>4, <3>1
  <2>. QED  BY <1>1, <1>5, <2>1, <2>4, <2>5, <2>6
<1>6. Begun(b, n).next = n
  BY RaisedType
<1>. QED  BY <1>2, <1>3, <1>4, <1>5, <1>6, PushIs

\* A packet for a buffer at work: the cursor stays where it is, unless a keyframe
\* that is not behind it begins the buffer anew, and then that is next.
LEMMA PushOrder ==
  ASSUME HalfTurn, NEW b \in Buf, NEW f \in 1 .. MaxArrivals, NEW sort,
         NEW h \in 1 .. MaxArrivals, NEW c \in 1 .. h + 1, Stands(b, c, h)
  PROVE  LET p == Push(b, Num(f), f, sort) IN
         \E g \in {h, f}, d \in 1 .. MaxArrivals + 1 :
           /\ Stands(p, d, g)
           /\ \/ d = c /\ p.awaiting = b.awaiting
              \/ sort = "key" /\ c <= d /\ d = f /\ ~p.awaiting /\ Has(p, p.next)
           /\ f > h => \/ sort # "key" /\ p.awaiting
                       \/ p.slots[Num(f) % Capacity].frame = f
<1>. MaxArrivals \in Nat /\ Capacity \in Nat \ {0} /\ Modulus \in Nat \ {0}
  BY Room, Sizes
<1>1. PICK n \in Seqs : n = Num(f)
  BY NumIn
<1>2. f \in Places /\ f # 0
  BY DEF Places
<1>3. b.next = Num(c) /\ b.highest = Num(h) /\ b.next # None /\ b.highest # None /\ Kept(b, h)
  BY NumIn DEF Stands, Seqs, None
<1>4. c \in 1 .. MaxArrivals + 1 /\ c <= h + 1
  OBVIOUS
<1>5. SeqLess(n, b.next) <=> f < c
  BY <1>1, <1>3, <1>4, FrameLess
<1>6. Begun(b, n).next = b.next
  BY <1>3, RaisedType
<1>7. CASE Push(b, n, f, sort) = b /\ (f > h => sort # "key" /\ b.awaiting)
  BY <1>1, <1>4, <1>7
<1>8. CASE Push(b, n, f, sort) = Place(Renewed(b, n), n, f) /\ sort = "key" /\ ~SeqLess(n, b.next)
  <2>1. PICK a \in Buf : a = Renewed(b, n)
    BY RenewedType
  <2>2. a.next = n /\ a.highest = n /\ a.slots = [i \in 0 .. Capacity - 1 |-> Empty]
    BY <2>1, RenewedType
  <2>3. ~a.awaiting
    BY <2>1, RenewedType
  <2>4. \A i \in 0 .. Capacity - 1 : a.slots[i].frame = 0
    BY <2>2 DEF Empty
  <2>5. PICK p : p = Place(a, n, f)
    OBVIOUS
  <2>6. Stands(p, f, f) /\ Has(p, p.next) /\ p.slots[n % Capacity].frame = f
    <3>1. a.next = Num(f) /\ a.highest = Num(f)
      BY <1>1, <2>2
    <3>2. /\ Stands(Place(a, Num(f), f), f, f)
          /\ Has(Place(a, Num(f), f), Place(a, Num(f), f).next)
          /\ Place(a, Num(f), f).slots[Num(f) % Capacity].frame = f
      BY <2>4, <3>1, PushFirst
    <3>. QED  BY <1>1, <2>5, <3>2
  <2>7. ~p.awaiting
    <3>1. Place(a, n, f).awaiting = a.awaiting
      BY <1>2, PlaceType
    <3>. QED  BY <2>3, <2>5, <3>1
  <2>8. c <= f /\ f \in 1 .. MaxArrivals + 1
    BY <1>5, <1>8
  <2>. QED  BY <1>1, <1>8, <2>1, <2>5, <2>6, <2>7, <2>8
<1>9. CASE /\ Push(b, n, f, sort) = Place(Raised(b, n), n, f)
           /\ sort # "key" /\ ~SeqLess(n, b.next)
  <2>1. PICK a \in Buf : a = Raised(b, n)
    BY RaisedType
  <2>2. a.next = b.next /\ a.slots = b.slots
    BY <1>3, <2>1, RaisedType
  <2>3. a.awaiting = b.awaiting
    BY <2>1, RaisedType
  <2>4. PICK g \in {h, f} : /\ g = IF h < f THEN f ELSE h
                            /\ g \in 1 .. MaxArrivals /\ h <= g /\ f \in 1 .. g
    OBVIOUS
  <2>5. a.highest = Num(g)
    <3>1. SeqLess(b.highest, n) <=> h < f
      BY <1>1, <1>3, FrameLess, f \in 1 .. MaxArrivals + 1
    <3>2. a.highest = IF b.highest = None \/ SeqLess(b.highest, n) THEN n ELSE b.highest
      BY <2>1, RaisedType
    <3>. QED  BY <1>1, <1>3, <2>4, <3>1, <3>2
  <2>6. Kept(a, g)
    <3>. SUFFICES ASSUME NEW i \in 0 .. Capacity - 1, a.slots[i].frame # 0
                  PROVE  a.slots[i].frame \in 1 .. g /\ a.slots[i].seq = Num(a.slots[i].frame)
      BY DEF Kept
    <3>1. PICK x : x = a.slots[i].frame
      OBVIOUS
    <3>2. x \in 1 .. h /\ a.slots[i].seq = Num(x)
      BY <1>3, <2>2, <3>1 DEF Kept
    <3>. QED  BY <2>4, <3>1, <3>2
  <2>7. PICK p : p = Place(a, n, f)
    OBVIOUS
  <2>8. p.next = Num(c) /\ p.highest = Num(g)
    <3>1. Place(a, n, f).next = a.next /\ Place(a, n, f).highest = a.highest
      BY <1>2, PlaceType
    <3>. QED  BY <1>3, <2>2, <2>5, <2>7, <3>1
  <2>9. p.awaiting = b.awaiting
    <3>1. Place(a, n, f).awaiting = a.awaiting
      BY <1>2, PlaceType
    <3>. QED  BY <2>3, <2>7, <3>1
  <2>10. Kept(p, g)
    <3>1. Kept(Place(a, Num(f), f), g)
      BY <2>4, <2>6, PlaceKept
    <3>. QED  BY <1>1, <2>7, <3>1
  <2>11. Stands(p, c, g)
    BY <1>4, <2>4, <2>8, <2>10 DEF Stands
  <2>12. ASSUME f > h PROVE p.slots[Num(f) % Capacity].frame = f
    <3>1. \A i \in 0 .. Capacity - 1 :
            a.slots[i].frame # 0 => a.slots[i].frame \in 1 .. f - 1 /\ a.slots[i].seq = Num(a.slots[i].frame)
      <4>. SUFFICES ASSUME NEW i \in 0 .. Capacity - 1, a.slots[i].frame # 0
                    PROVE  a.slots[i].frame \in 1 .. f - 1 /\ a.slots[i].seq = Num(a.slots[i].frame)
        OBVIOUS
      <4>1. PICK x : x = a.slots[i].frame
        OBVIOUS
      <4>2. x \in 1 .. h /\ a.slots[i].seq = Num(x)
        BY <1>3, <2>2, <4>1 DEF Kept
      <4>. QED  BY <2>12, <4>1, <4>2
    <3>2. Place(a, Num(f), f).slots[Num(f) % Capacity] = [seq |-> Num(f), frame |-> f]
      BY <3>1, PlaceNewer
    <3>. QED  BY <1>1, <2>7, <3>2
  <2>. QED  BY <1>1, <1>4, <1>9, <2>1, <2>4, <2>7, <2>9, <2>11, <2>12
<1>. QED
  <2>1. f > h => ~(f < c)
    BY <1>4
  <2>. QED  BY <1>2, <1>3, <1>5, <1>6, <1>7, <1>8, <1>9, <2>1, PushIs

-----------------------------------------------------------------------------
(* What the player has been given.                                         *)

LEMMA RowIn ==
  ASSUME NEW k \in Nat, NEW x, DOMAIN x = 1 .. k, x = [i \in 1 .. k |-> x[i]],
         \A i \in 1 .. k : x[i] \in Places
  PROVE  x \in Seq(Places)
OBVIOUS

\* One sequence after another.
LEMMA Joined ==
  ASSUME NEW s \in Seq(Places), NEW x \in Seq(Places)
  PROVE  /\ s \o x \in Seq(Places)
         /\ Len(s \o x) = Len(s) + Len(x)
         /\ \A i \in 1 .. Len(s) : (s \o x)[i] = s[i]
         /\ \A i \in 1 .. Len(x) : (s \o x)[Len(s) + i] = x[i]
<1>1. Len(s) \in Nat /\ Len(x) \in Nat /\ s \o x \in Seq(Places) /\ Len(s \o x) = Len(s) + Len(x)
  OBVIOUS
<1>2. \A i \in 1 .. Len(s) : (s \o x)[i] = s[i]
  OBVIOUS
<1>3. ASSUME NEW i \in 1 .. Len(x) PROVE (s \o x)[Len(s) + i] = x[i]
  <2>1. Len(s) + i \in 1 .. Len(s) + Len(x) /\ Len(s) + i > Len(s)
    BY <1>1
  <2>. QED  BY <1>1, <2>1
<1>. QED  BY <1>1, <1>2, <1>3

\* Stands, of the variables.
Cursor(c, h) ==
  /\ next = Num(c) /\ highest = Num(h) /\ c <= h + 1
  /\ \A i \in 0 .. Capacity - 1 :
       slots[i].frame # 0 => slots[i].frame \in 1 .. h /\ slots[i].seq = Num(slots[i].frame)

LEMMA CursorStands ==
  ASSUME TypeOK, NEW c, NEW h, Cursor(c, h)
  PROVE  Stands(State, c, h)
BY StateType DEF Cursor, Stands, Kept

Given == {out[i] : i \in DOMAIN out}

\* All that was given out is before c; a video track that is not waiting for a
\* keyframe was given the one before c.
Delivered(c) ==
  /\ \A i \in DOMAIN out : out[i] < c
  /\ video /\ ~awaiting /\ out # <<>> => out[Len(out)] = c - 1

\* Polling the buffer b, which stands where the variables stand or has just
\* begun anew with a keyframe.
LEMMA BecomeOrder ==
  ASSUME HalfTurn, TypeOK, InOrder, GroupsWhole, UNCHANGED track,
         NEW b \in Buf, b.out = <<>>, b.awaiting => video,
         NEW h \in 1 .. MaxArrivals, NEW c \in 1 .. h + 1, Stands(b, c, h), Become(b),
         \A i \in DOMAIN out : out[i] < c,
         \/ video /\ ~b.awaiting /\ out # <<>> => out[Len(out)] = c - 1
         \/ KindAt(c)' = "key" /\ ~b.awaiting /\ Has(b, b.next),
         \A q \in 1 .. c - 1 : KindAt(q)' = KindAt(q)
  PROVE  /\ \E d \in 1 .. h + 1 : Cursor(d, h)' /\ Delivered(d)'
         /\ InOrder' /\ GroupsWhole'
         /\ awaiting' => video
         /\ b.awaiting => awaiting'
         /\ \A i \in 0 .. Capacity - 1 :
              b.slots[i].frame # 0 => slots'[i] = b.slots[i] \/ b.slots[i].frame \in Given'
<1>. MaxArrivals \in Nat /\ Capacity \in Nat \ {0} /\ Modulus \in Nat \ {0}
  BY Room, Sizes
<1>1. PICK wait \in MinWait .. MaxWait :
        LET p == Poll(b, wait) IN
        /\ next' = p.next /\ highest' = p.highest /\ slots' = p.slots
        /\ awaiting' = p.awaiting /\ age' = p.age
        /\ out' = out \o p.out
  BY DEF Become
<1>2. PICK p : p = Poll(b, wait)
  OBVIOUS
<1>3. PICK d \in 1 .. h + 1, k \in Nat : Polled(b, p, c, h, d, k)
  BY <1>2, PollOrder
<1>4. /\ c <= d /\ d + k <= h + 1
      /\ Stands(p, d + k, h)
      /\ p.out = [i \in 1 .. k |-> d + i - 1]
      /\ \A i \in 0 .. Capacity - 1 :
           p.slots[i] = b.slots[i] \/ b.slots[i].frame \in d .. d + k - 1 \/ b.slots[i].frame = 0
  BY <1>3 DEF Polled
<1>5. /\ awaiting' => video /\ k = 0
      /\ b.awaiting => awaiting'
      /\ video /\ ~awaiting' => d = c
      /\ ~b.awaiting /\ Has(b, b.next) => k > 0 /\ d = c
  <2>1. awaiting' <=> p.awaiting
    BY <1>1, <1>2
  <2>. QED  BY <1>3, <2>1 DEF Polled
<1>6. next' = p.next /\ highest' = p.highest /\ slots' = p.slots /\ out' = out \o p.out
  BY <1>1, <1>2
<1>7. Cursor(d + k, h)'
  <2>1. \A q : Num(q)' = Num(q)
    BY DEF Num, Base, track
  <2>. QED  BY <1>4, <1>6, <2>1 DEF Stands, Kept, Cursor
<1>8. PICK s \in Seq(Places), n \in Nat : s = out /\ n = Len(out)
  BY DEF TypeOK
<1>9. PICK t \in Seq(Places) :
        /\ t = out'
        /\ Len(t) = n + k
        /\ \A i \in 1 .. n : t[i] = s[i]
        /\ \A i \in 1 .. k : t[n + i] = d + i - 1
  <2>1. \A i \in 1 .. k : d + i - 1 \in Places
    BY <1>4 DEF Places
  <2>2. PICK x : x = [i \in 1 .. k |-> d + i - 1]
    OBVIOUS
  <2>3. PICK t : t = s \o x
    OBVIOUS
  <2>4. /\ t \in Seq(Places) /\ Len(t) = Len(s) + k
        /\ \A i \in 1 .. Len(s) : t[i] = s[i]
        /\ \A i \in 1 .. k : t[Len(s) + i] = d + i - 1
    <3>1. x \in Seq(Places)
      BY <2>1, <2>2, RowIn
    <3>2. Len(x) = k /\ \A i \in 1 .. k : x[i] = d + i - 1
      BY <2>2
    <3>3. /\ s \o x \in Seq(Places) /\ Len(s \o x) = Len(s) + Len(x)
          /\ \A i \in 1 .. Len(s) : (s \o x)[i] = s[i]
          /\ \A i \in 1 .. Len(x) : (s \o x)[Len(s) + i] = x[i]
      BY <3>1, Joined
    <3>. QED  BY <2>3, <3>2, <3>3
  <2>5. t = out'
    BY <1>4, <1>6, <1>8, <2>2, <2>3
  <2>. QED  BY <1>8, <2>3, <2>4, <2>5
<1>10. /\ DOMAIN out = 1 .. n /\ DOMAIN out' = 1 .. n + k
       /\ Len(out) = n /\ Len(out') = n + k
       /\ \A i \in 1 .. n : out'[i] = out[i] /\ out[i] \in Places
       /\ \A i \in 1 .. k : out'[n + i] = d + i - 1
  <2>1. DOMAIN s = 1 .. n /\ \A i \in 1 .. n : s[i] \in Places
    BY <1>8
  <2>2. DOMAIN t = 1 .. n + k
    BY <1>9
  <2>3. DOMAIN out = 1 .. n /\ DOMAIN out' = 1 .. n + k /\ Len(out) = n /\ Len(out') = n + k
    BY <1>8, <1>9, <2>1, <2>2
  <2>4. \A i \in 1 .. n : t[i] = s[i] /\ s[i] \in Places
    BY <1>9, <2>1
  <2>5. \A i \in 1 .. k : t[n + i] = d + i - 1
    BY <1>9
  <2>6. s = out /\ t = out'
    BY <1>8, <1>9
  <2>. QED  BY ONLY <2>3, <2>4, <2>5, <2>6
<1>11. ASSUME NEW i \in 1 .. n + k
       PROVE  \/ i \in 1 .. n /\ out'[i] = out[i] /\ out'[i] < c /\ out'[i] \in Nat
              \/ \E j \in 1 .. k : i = n + j /\ out'[i] = d + j - 1
  <2>1. CASE i <= n
    <3>1. i \in 1 .. n
      BY <2>1
    <3>2. out'[i] = out[i] /\ out[i] \in Places /\ i \in DOMAIN out
      BY <1>10, <3>1
    <3>3. out[i] < c
      BY <3>2
    <3>4. out[i] \in Nat
      BY <3>2 DEF Places
    <3>. QED  BY <3>1, <3>2, <3>3, <3>4
  <2>2. CASE i > n
    <3>1. PICK j \in 1 .. k : j = i - n
      BY <2>2
    <3>2. i = n + j
      BY <3>1
    <3>. QED  BY <1>10, <3>2
  <2>. QED  BY <2>1, <2>2
<1>12. Delivered(d + k)'
  <2>1. ASSUME NEW i \in 1 .. n + k PROVE out'[i] < d + k
    <3>1. CASE out'[i] < c /\ out'[i] \in Nat
      BY <1>4, <3>1
    <3>2. CASE \E j \in 1 .. k : i = n + j /\ out'[i] = d + j - 1
      BY <3>2
    <3>. QED  BY <1>11, <3>1, <3>2
  <2>2. ASSUME video, ~awaiting', out' # <<>> PROVE out'[n + k] = d + k - 1
    <3>1. CASE k > 0
      <4>1. k \in 1 .. k
        BY <3>1
      <4>. QED  BY <1>10, <4>1
    <3>2. CASE k = 0
      <4>1. n > 0 /\ out # <<>> /\ n \in 1 .. n
        BY <1>8, <1>9, <2>2, <3>2
      <4>2. ~b.awaiting /\ d = c /\ ~Has(b, b.next)
        BY <1>5, <2>2, <3>2
      <4>3. out[n] = c - 1
        BY <1>8, <2>2, <4>1, <4>2
      <4>. QED  BY <1>10, <3>2, <4>1, <4>2, <4>3
    <3>. QED  BY <3>1, <3>2
  <2>. QED  BY <1>10, <2>1, <2>2 DEF Delivered, track
<1>13. InOrder'
  <2>. SUFFICES ASSUME NEW i \in 1 .. n + k, NEW j \in 1 .. n + k, i < j
                PROVE  out'[i] < out'[j]
    BY <1>10 DEF InOrder
  <2>1. CASE j \in 1 .. n
    <3>1. i \in 1 .. n
      BY <2>1
    <3>. QED  BY <1>10, <2>1, <3>1 DEF InOrder
  <2>2. CASE j \notin 1 .. n
    <3>1. PICK m \in 1 .. k : j = n + m /\ out'[j] = d + m - 1
      BY <1>11, <2>2
    <3>2. CASE i \in 1 .. n
      <4>1. out'[i] < c /\ out'[i] \in Nat
        BY <1>11, <3>2
      <4>. QED  BY <1>4, <3>1, <4>1
    <3>3. CASE i \notin 1 .. n
      <4>1. PICK l \in 1 .. k : i = n + l /\ out'[i] = d + l - 1
        BY <1>11, <3>3
      <4>2. l < m
        BY <3>1, <4>1
      <4>3. d + l - 1 < d + m - 1
        BY <4>2
      <4>. QED  BY <3>1, <4>1, <4>3
    <3>. QED  BY <3>2, <3>3
  <2>. QED  BY <2>1, <2>2
<1>14. GroupsWhole'
  <2>. SUFFICES ASSUME video, NEW i \in 2 .. n + k, NEW q, q = out'[i], KindAt(q)' = "delta"
                PROVE  out'[i - 1] = out'[i] - 1
    BY <1>10 DEF GroupsWhole, KindAt, FrameAt, track
  <2>1. i \in 1 .. n + k
    OBVIOUS
  <2>2. CASE i \in 1 .. n
    <3>1. out'[i] = out[i] /\ out'[i - 1] = out[i - 1] /\ i \in 2 .. n
      BY <1>10, <2>2, i - 1 \in 1 .. n
    <3>2. KindAt(out[i]) = "delta"
      <4>1. q \in 1 .. c - 1
        <5>1. q \in Places /\ q < c /\ i \in DOMAIN out
          BY <1>10, <2>2, <3>1
        <5>. QED  BY <5>1 DEF Places
      <4>. QED  BY <3>1, <4>1
    <3>. QED  BY <1>10, <3>1, <3>2 DEF GroupsWhole
  <2>3. CASE i \notin 1 .. n
    <3>1. PICK m \in 1 .. k : i = n + m /\ out'[i] = d + m - 1
      BY <1>11, <2>1, <2>3
    <3>2. CASE m > 1
      <4>1. PICK l \in 1 .. k : l = m - 1
        BY <3>2
      <4>2. out'[n + l] = d + l - 1
        BY <1>10
      <4>3. i - 1 = n + l
        BY <3>1, <4>1, SMTT(30)
      <4>. QED  BY <3>1, <4>1, <4>2, <4>3
    <3>3. CASE m = 1
      <4>1. i - 1 = n /\ out'[i] = d /\ n > 0 /\ n \in 1 .. n /\ out # <<>> /\ k > 0
        BY <1>8, <3>1, <3>3
      <4>2. ~awaiting' /\ ~b.awaiting /\ d = c
        BY <1>5, <4>1
      <4>3. KindAt(c)' # "key"
        BY <4>1, <4>2
      <4>4. out[n] = c - 1
        BY <1>8, <4>1, <4>2, <4>3
      <4>. QED  BY <1>10, <4>1, <4>2, <4>4
    <3>. QED  BY <3>2, <3>3
  <2>. QED  BY <2>2, <2>3
<1>15. ASSUME NEW i \in 0 .. Capacity - 1, b.slots[i].frame # 0
       PROVE  slots'[i] = b.slots[i] \/ b.slots[i].frame \in Given'
  <2>1. CASE b.slots[i].frame \in d .. d + k - 1
    <3>1. PICK m \in 1 .. k : b.slots[i].frame = d + m - 1
      <4>1. PICK x \in d .. d + k - 1 : x = b.slots[i].frame
        BY <2>1
      <4>2. x - d + 1 \in 1 .. k /\ x = d + (x - d + 1) - 1
        OBVIOUS
      <4>. QED  BY <4>1, <4>2
    <3>2. n + m \in 1 .. n + k
      OBVIOUS
    <3>3. out'[n + m] = d + m - 1
      BY <1>10
    <3>. QED  BY <1>10, <3>1, <3>2, <3>3 DEF Given
  <2>. QED  BY <1>4, <1>6, <1>15, <2>1
<1>16. d + k \in 1 .. h + 1
  BY <1>4
<1>. QED  BY <1>5, <1>7, <1>12, <1>13, <1>14, <1>15, <1>16

\* Nothing has arrived yet, or the buffer is at work.
Started == \E h \in 1 .. Newest : \E c \in 1 .. h + 1 : Cursor(c, h) /\ Delivered(c)

NotStarted ==
  /\ next = None /\ highest = None /\ out = <<>> /\ ~awaiting
  /\ \A i \in 0 .. Capacity - 1 : slots[i].frame = 0

\* Every place up to the highest is that of a frame of the source.
Sourced ==
  /\ transit \subseteq 1 .. Len(kind)
  /\ \A q \in 1 .. Newest : FrameAt(q) \in 1 .. Len(kind)

LEMMA NewestIn == ASSUME TypeOK PROVE Newest \in 0 .. MaxArrivals
<1>1. newest \in 0 .. MaxFrames /\ Len(arrived) \in Nat /\ Len(arrived) <= MaxArrivals
  BY DEF TypeOK
<1>. QED  BY <1>1, ConstantsAssumption DEF Newest

OrderInv ==
  /\ TypeOK
  /\ Sourced
  /\ awaiting => video
  /\ NotStarted \/ Started
  /\ InOrder /\ GroupsWhole

LEMMA OrderInit == Init => OrderInv
<1>. SUFFICES ASSUME Init PROVE OrderInv
  OBVIOUS
<1>1. /\ next = None /\ highest = None /\ transit = {} /\ newest = 0 /\ out = <<>>
      /\ kind = <<>> /\ arrived = <<>>
  BY DEF Init
<1>2. ~awaiting
  BY DEF Init
<1>3. \A i \in 0 .. Capacity - 1 : slots[i].frame = 0
  BY DEF Init, Empty
<1>4. NotStarted
  BY <1>1, <1>2, <1>3 DEF NotStarted
<1>5. InOrder /\ GroupsWhole
  BY <1>1 DEF InOrder, GroupsWhole
<1>6. Sourced
  BY <1>1 DEF Sourced, Newest
<1>. QED  BY <1>2, <1>4, <1>5, <1>6, TypeInit DEF OrderInv

\* Sending appends to what has been sent, and what was given out stays as it was.
LEMMA SendOrder ==
  ASSUME HalfTurn, OrderInv, NEW k \in {"key", "delta"}, Send(k)
  PROVE  OrderInv'
<1>1. /\ TypeOK /\ TypeOK'
      /\ Sourced /\ InOrder /\ GroupsWhole
      /\ Newest \in 0 .. MaxArrivals
  BY TypeStep, NewestIn DEF OrderInv, Next
<1>2. /\ kind \in Seq({"key", "delta"}) /\ kind' = Append(kind, k)
      /\ transit' = transit \cup {Len(kind')} /\ newest' = newest /\ arrived' = arrived
      /\ next' = next /\ highest' = highest /\ slots' = slots
      /\ out' = out /\ out \in Seq(Places)
  BY <1>1 DEF Send, buffer, TypeOK
<1>3. awaiting' = awaiting /\ video' = video /\ renumbered' = renumbered
  BY DEF Send, buffer, track
<1>4. /\ Len(kind) \in Nat /\ Len(kind') = Len(kind) + 1
      /\ \A i \in 1 .. Len(kind) : kind'[i] = kind[i]
  BY <1>2
<1>5. Newest' = Newest /\ \A q : FrameAt(q)' = FrameAt(q) /\ Num(q)' = Num(q)
  BY <1>2, <1>3 DEF Newest, FrameAt, Num, Base
<1>6. Sourced'
  <2>1. PICK n \in Nat : n = Len(kind) /\ Len(kind') = n + 1 /\ transit \subseteq 1 .. n
    BY <1>1, <1>4 DEF Sourced
  <2>2. transit' = transit \cup {n + 1}
    BY <1>2, <2>1
  <2>3. transit' \subseteq 1 .. n + 1
    <3>. SUFFICES ASSUME NEW x \in transit' PROVE x \in 1 .. n + 1
      OBVIOUS
    <3>1. x \in 1 .. n \/ x = n + 1
      BY <2>1, <2>2
    <3>. QED  BY <3>1
  <2>4. \A q \in 1 .. Newest : FrameAt(q)' \in 1 .. n + 1
    BY <1>1, <1>5, <2>1 DEF Sourced
  <2>. QED  BY <1>5, <2>1, <2>3, <2>4 DEF Sourced
<1>7. NotStarted' \/ Started'
  <2>1. CASE NotStarted
    BY <1>2, <1>3, <2>1 DEF NotStarted
  <2>2. CASE Started
    <3>1. PICK h \in 1 .. Newest : \E c \in 1 .. h + 1 : Cursor(c, h) /\ Delivered(c)
      BY <2>2 DEF Started
    <3>2. PICK c \in 1 .. h + 1 : Cursor(c, h) /\ Delivered(c)
      BY <3>1
    <3>3. Cursor(c, h)'
      BY <1>2, <1>5, <3>2 DEF Cursor
    <3>4. Delivered(c)'
      BY <1>2, <1>3, <3>2 DEF Delivered
    <3>. QED  BY <1>5, <3>3, <3>4 DEF Started
  <2>. QED  BY <2>1, <2>2 DEF OrderInv
<1>8. \A i \in DOMAIN out : kind'[FrameAt(out[i])] = KindAt(out[i])
  <2>1. CASE NotStarted
    BY <2>1 DEF NotStarted
  <2>2. CASE Started
    <3>1. PICK h \in 1 .. Newest : \E c \in 1 .. h + 1 : Cursor(c, h) /\ Delivered(c)
      BY <2>2 DEF Started
    <3>2. PICK c \in 1 .. h + 1 : Cursor(c, h) /\ Delivered(c)
      BY <3>1
    <3>. SUFFICES ASSUME NEW i \in DOMAIN out PROVE kind'[FrameAt(out[i])] = KindAt(out[i])
      OBVIOUS
    <3>3. PICK x \in Places : x = out[i] /\ x < c
      BY <1>2, <3>2 DEF Delivered
    <3>4. x \in 1 .. Newest
      BY <1>1, <3>3, ConstantsAssumption DEF Places
    <3>5. FrameAt(x) \in 1 .. Len(kind)
      BY <1>1, <3>4 DEF Sourced
    <3>. QED  BY <1>4, <3>3, <3>5 DEF KindAt
  <2>. QED  BY <2>1, <2>2 DEF OrderInv
<1>9. InOrder'
  BY <1>1, <1>2 DEF InOrder
<1>10. GroupsWhole'
  <2>. SUFFICES ASSUME video, NEW i \in 2 .. Len(out), kind'[FrameAt(out[i])] = "delta"
                PROVE  out[i - 1] = out[i] - 1
    BY <1>2, <1>3 DEF GroupsWhole, KindAt, FrameAt
  <2>1. i \in DOMAIN out
    BY <1>2
  <2>2. KindAt(out[i]) = "delta"
    BY <1>8, <2>1
  <2>. QED  BY <1>1, <2>2 DEF GroupsWhole
<1>11. awaiting' => video'
  BY <1>3 DEF OrderInv
<1>. QED  BY <1>1, <1>7, <1>9, <1>10, <1>11, <1>6 DEF OrderInv

\* A packet of another track.
LEMMA OtherOrder ==
  ASSUME HalfTurn, OrderInv, OtherTrack
  PROVE  OrderInv'
<1>1. /\ TypeOK /\ TypeOK'
      /\ Sourced /\ InOrder /\ GroupsWhole
      /\ Newest \in 0 .. MaxArrivals
  BY TypeStep, NewestIn DEF OrderInv, Next
<1>2. /\ kind' = kind /\ transit' = transit /\ video' = video /\ UNCHANGED track
      /\ Become(State)
  BY DEF OtherTrack, network, track
<1>3. Newest' = Newest /\ \A q : FrameAt(q)' = FrameAt(q) /\ KindAt(q)' = KindAt(q)
  BY DEF OtherTrack, network, track, Newest, FrameAt, KindAt
<1>4. Sourced'
  BY <1>1, <1>2, <1>3 DEF Sourced
<1>5. PICK b \in Buf : b = State
  BY <1>1, StateType
<1>6. b.out = <<>> /\ b.next = next
  BY <1>1, <1>5, StateType
<1>7. b.awaiting <=> awaiting
  BY <1>1, <1>5, StateType
<1>8. awaiting => video
  BY DEF OrderInv
<1>9. CASE NotStarted
  <2>1. b.next = None
    BY <1>6, <1>9 DEF NotStarted
  <2>2. \A wait : Poll(b, wait) = b
    BY <2>1 DEF Poll
  <2>3. /\ next' = b.next /\ highest' = b.highest /\ slots' = b.slots /\ out' = out \o b.out
        /\ (awaiting' <=> b.awaiting)
    <3>1. PICK wait \in MinWait .. MaxWait :
            LET p == Poll(b, wait) IN
            /\ next' = p.next /\ highest' = p.highest /\ slots' = p.slots
            /\ awaiting' = p.awaiting /\ age' = p.age
            /\ out' = out \o p.out
      BY <1>2, <1>5 DEF Become
    <3>. QED  BY <2>2, <3>1
  <2>4. /\ next' = next /\ highest' = highest /\ slots' = slots /\ out' = <<>> /\ ~awaiting'
    <3>1. b.highest = highest /\ b.slots = slots
      BY <1>1, <1>5, StateType
    <3>. QED  BY <1>6, <1>7, <1>9, <2>3, <3>1 DEF NotStarted
  <2>5. NotStarted'
    BY <1>9, <2>4 DEF NotStarted
  <2>6. InOrder' /\ GroupsWhole'
    BY <2>4 DEF InOrder, GroupsWhole
  <2>. QED  BY <1>1, <1>2, <1>4, <2>4, <2>5, <2>6 DEF OrderInv
<1>10. CASE Started
  <2>1. PICK h \in 1 .. Newest : \E c \in 1 .. h + 1 : Cursor(c, h) /\ Delivered(c)
    BY <1>10 DEF Started
  <2>2. PICK c \in 1 .. h + 1 : Cursor(c, h) /\ Delivered(c)
    BY <2>1
  <2>3. h \in 1 .. MaxArrivals
    BY <1>1, ConstantsAssumption
  <2>4. Stands(b, c, h) /\ Become(b)
    BY <1>1, <1>2, <1>5, <2>2, CursorStands
  <2>5. /\ \A i \in DOMAIN out : out[i] < c
        /\ video /\ ~b.awaiting /\ out # <<>> => out[Len(out)] = c - 1
    BY <1>7, <2>2 DEF Delivered
  <2>6. /\ \E d \in 1 .. h + 1 : Cursor(d, h)' /\ Delivered(d)'
        /\ InOrder' /\ GroupsWhole'
        /\ awaiting' => video
    BY <1>1, <1>2, <1>6, <1>7, <1>8, <1>3, <2>3, <2>4, <2>5, BecomeOrder
  <2>7. Started'
    BY <1>3, <2>6 DEF Started
  <2>. QED  BY <1>1, <1>2, <1>4, <2>6, <2>7 DEF OrderInv
<1>. QED  BY <1>9, <1>10 DEF OrderInv

\* A packet of this track.  A frame newer than all before it is given out or kept,
\* unless a video track waits for a keyframe and this is none.
LEMMA ArriveOrder ==
  ASSUME HalfTurn, OrderInv, NEW f \in Frames, NEW again \in BOOLEAN, Arrive(f, again)
  PROVE  /\ OrderInv'
         /\ Newest' > Newest =>
              \/ Newest' \in InSlots' \/ Newest' \in Given'
              \/ KindAt(Newest)' = "delta" /\ awaiting'
<1>. MaxArrivals \in Nat /\ Capacity \in Nat \ {0}
  BY Room
<1>1. /\ TypeOK /\ TypeOK'
      /\ Sourced /\ InOrder /\ GroupsWhole
      /\ Newest \in 0 .. MaxArrivals
  BY TypeStep, NewestIn DEF OrderInv, Next
<1>2. /\ kind \in Seq({"key", "delta"}) /\ Len(kind) \in Nat /\ f \in 1 .. Len(kind)
      /\ transit' \subseteq transit /\ kind' = kind
      /\ newest' = IF f > newest THEN f ELSE newest
  BY <1>1 DEF Arrive, TypeOK, Sourced
<1>3. UNCHANGED track
  BY DEF Arrive
<1>4. renumbered' <=> renumbered
  BY <1>3 DEF track
<1>5. /\ arrived \in Seq(Frames) /\ Len(arrived) \in Nat /\ Len(arrived) < MaxArrivals
      /\ arrived' = IF renumbered THEN Append(arrived, f) ELSE arrived
  BY <1>1 DEF Arrive, TypeOK
\* The place that the packet has for the buffer.
<1>6. PICK p \in 1 .. MaxArrivals : p = IF renumbered THEN Len(arrived) + 1 ELSE f
  BY <1>5, ConstantsAssumption DEF Frames
<1>7. /\ Newest' = IF p > Newest THEN p ELSE Newest
      /\ FrameAt(p)' = f
      /\ \A q \in 1 .. Newest : FrameAt(q)' = FrameAt(q)
      /\ \A q \in 1 .. p - 1 : FrameAt(q)' = FrameAt(q)
      /\ \A q \in 1 .. Newest' : q \in 1 .. Newest \/ FrameAt(q)' \in 1 .. f
  <2>1. CASE renumbered
    <3>1. arrived' = Append(arrived, f) /\ renumbered' /\ p = Len(arrived) + 1
      BY <1>5, <1>6, <1>4, <2>1
    <3>2. Len(arrived') = p /\ arrived'[p] = f /\ \A q \in 1 .. Len(arrived) : arrived'[q] = arrived[q]
      BY <1>5, <3>1
    <3>. QED  BY <1>2, <1>5, <2>1, <3>1, <3>2 DEF Newest, FrameAt
  <2>2. CASE ~renumbered
    BY <1>2, <1>6, <1>4, <2>2 DEF Newest, FrameAt
  <2>. QED  BY <2>1, <2>2
<1>8. /\ KindAt(p)' = kind[f]
      /\ \A q \in 1 .. Newest : KindAt(q)' = KindAt(q)
      /\ \A q \in 1 .. p - 1 : KindAt(q)' = KindAt(q)
  BY <1>2, <1>7 DEF KindAt
<1>9. Newest' = p => KindAt(Newest)' = kind[f]
  BY <1>8 DEF KindAt, FrameAt
<1>10. Sourced'
  <2>. SUFFICES ASSUME NEW q \in 1 .. Newest' PROVE FrameAt(q)' \in 1 .. Len(kind)
    BY <1>2, <1>1 DEF Sourced
  <2>1. CASE q \in 1 .. Newest
    BY <1>1, <1>7, <2>1 DEF Sourced
  <2>2. CASE q \notin 1 .. Newest
    BY <1>2, <1>7, <2>2
  <2>. QED  BY <2>1, <2>2
<1>11. /\ video' = video
       /\ Become(Push(State, Num(p), p, kind[f]))
  BY <1>6 DEF Arrive, track
<1>12. /\ p \in Places /\ Num(p) \in Seqs
       /\ p \in 1 .. Newest' /\ Newest' \in Nat
       /\ kind[f] \in {"key", "delta"}
  BY <1>2, <1>1, <1>6, <1>7, NumIn DEF Places
<1>13. PICK s \in Buf : /\ s = State /\ s.out = <<>> /\ s.next = next
                        /\ s.highest = highest /\ s.slots = slots
  BY <1>1, StateType
<1>14. s.awaiting <=> awaiting
  BY <1>1, <1>13, StateType
<1>15. PICK b \in Buf : b = Push(s, Num(p), p, kind[f]) /\ b.out = <<>>
  BY <1>12, <1>13, PushType
<1>16. awaiting => video
  BY DEF OrderInv
<1>17. Become(b)
  BY <1>11, <1>13, <1>15
\* The frame is kept or given out once its slot has it.
<1>18. ASSUME b.slots[Num(p) % Capacity].frame = p,
             \A i \in 0 .. Capacity - 1 :
               b.slots[i].frame # 0 => slots'[i] = b.slots[i] \/ b.slots[i].frame \in Given'
      PROVE  p \in InSlots' \/ p \in Given'
  <2>1. PICK i \in 0 .. Capacity - 1 : i = Num(p) % Capacity
    BY <1>12, SlotIn
  <2>2. slots'[i] = b.slots[i] \/ p \in Given'
    BY <1>12, <1>18, <2>1
  <2>3. DOMAIN slots' = 0 .. Capacity - 1
    BY <1>1 DEF TypeOK
  <2>4. p # 0
    BY <1>12
  <2>. QED  BY <1>18, <2>1, <2>2, <2>3, <2>4 DEF InSlots
<1>19. CASE NotStarted
  <2>1. s.next = None /\ s.highest = None /\ \A i \in 0 .. Capacity - 1 : s.slots[i].frame = 0
    BY <1>13, <1>19 DEF NotStarted
  <2>2. ~s.awaiting
    BY <1>14, <1>19 DEF NotStarted
  <2>3. /\ Stands(b, p, p) /\ Has(b, b.next) /\ ~b.awaiting
        /\ b.slots[Num(p) % Capacity].frame = p
    BY <1>12, <1>15, <2>1, <2>2, PushBegins
  <2>4. out = <<>> /\ p \in 1 .. p + 1
    BY <1>12, <1>19 DEF NotStarted
  <2>5. DOMAIN out = {}
    BY <2>4
  <2>6. /\ \E d \in 1 .. p + 1 : Cursor(d, p)' /\ Delivered(d)'
        /\ InOrder' /\ GroupsWhole'
        /\ awaiting' => video
        /\ \A i \in 0 .. Capacity - 1 :
             b.slots[i].frame # 0 => slots'[i] = b.slots[i] \/ b.slots[i].frame \in Given'
    BY <1>1, <1>3, <1>11, <1>12, <1>15, <1>17, <1>6, <1>8, <2>3, <2>4, <2>5, BecomeOrder
  <2>7. Started'
    BY <1>12, <2>6 DEF Started
  <2>8. OrderInv'
    BY <1>1, <1>11, <1>10, <2>6, <2>7 DEF OrderInv
  <2>9. p \in InSlots' \/ p \in Given'
    BY <1>18, <2>3, <2>6
  <2>. QED  BY <1>7, <2>8, <2>9
<1>20. CASE Started
  <2>1. PICK h \in 1 .. Newest : \E c \in 1 .. h + 1 : Cursor(c, h) /\ Delivered(c)
    BY <1>20 DEF Started
  <2>2. PICK c \in 1 .. h + 1 : Cursor(c, h) /\ Delivered(c)
    BY <2>1
  <2>3. h \in 1 .. MaxArrivals
    BY <1>1
  <2>4. Stands(s, c, h)
    BY <1>1, <1>13, <2>2, CursorStands
  <2>5. PICK g \in {h, p}, d \in 1 .. MaxArrivals + 1 :
           /\ Stands(b, d, g)
           /\ \/ d = c /\ b.awaiting = s.awaiting
              \/ kind[f] = "key" /\ c <= d /\ d = p /\ ~b.awaiting /\ Has(b, b.next)
           /\ p > h => \/ kind[f] # "key" /\ b.awaiting
                       \/ b.slots[Num(p) % Capacity].frame = p
    BY <1>12, <1>15, <2>3, <2>4, PushOrder, SMTT(90)
  <2>6. g \in 1 .. MaxArrivals /\ g \in 1 .. Newest' /\ d \in 1 .. g + 1
    <3>1. d <= g + 1
      BY <2>5 DEF Stands
    <3>. QED  BY <1>1, <1>12, <1>7, <2>3, <3>1
  <2>7. b.awaiting => video
    BY <1>14, <1>16, <2>5
  <2>8. \A i \in DOMAIN out : out[i] < d
    <3>1. c <= d
      BY <2>5
    <3>2. \A i \in DOMAIN out : out[i] \in Nat
      <4>1. PICK o \in Seq(Places) : o = out
        BY <1>1 DEF TypeOK
      <4>2. \A i \in DOMAIN o : o[i] \in Places
        OBVIOUS
      <4>3. \A i \in DOMAIN o : o[i] \in Nat
        BY <4>2 DEF Places
      <4>. QED  BY <4>1, <4>3
    <3>. QED  BY <2>2, <2>6, <3>1, <3>2 DEF Delivered
  <2>9. \/ video /\ ~b.awaiting /\ out # <<>> => out[Len(out)] = d - 1
        \/ KindAt(d)' = "key" /\ ~b.awaiting /\ Has(b, b.next)
    BY <1>14, <1>8, <2>2, <2>5 DEF Delivered
  <2>14. \A q \in 1 .. d - 1 : KindAt(q)' = KindAt(q)
    <3>1. d = p \/ d <= Newest + 1
      BY <1>1, <2>5
    <3>. QED  BY <1>1, <1>6, <1>8, <2>6, <3>1
  <2>10. /\ \E e \in 1 .. g + 1 : Cursor(e, g)' /\ Delivered(e)'
         /\ InOrder' /\ GroupsWhole'
         /\ awaiting' => video
         /\ b.awaiting => awaiting'
         /\ \A i \in 0 .. Capacity - 1 :
              b.slots[i].frame # 0 => slots'[i] = b.slots[i] \/ b.slots[i].frame \in Given'
    BY <1>1, <1>3, <1>15, <1>17, <2>5, <2>6, <2>7, <2>8, <2>9, <2>14, BecomeOrder
  <2>11. Started'
    BY <2>6, <2>10 DEF Started
  <2>12. OrderInv'
    BY <1>1, <1>11, <1>10, <2>10, <2>11 DEF OrderInv
  <2>13. ASSUME Newest' > Newest
         PROVE  \/ Newest' \in InSlots' \/ Newest' \in Given'
                \/ KindAt(Newest)' = "delta" /\ awaiting'
    <3>1. Newest' = p /\ p > h
      BY <1>1, <1>6, <1>7, <2>13
    <3>2. CASE kind[f] # "key" /\ b.awaiting
      BY <1>12, <1>9, <2>10, <3>1, <3>2
    <3>3. CASE b.slots[Num(p) % Capacity].frame = p
      BY <1>18, <2>10, <3>1, <3>3
    <3>. QED  BY <2>5, <3>1, <3>2, <3>3
  <2>. QED  BY <2>12, <2>13
<1>. QED  BY <1>19, <1>20 DEF OrderInv

LEMMA OrderStep ==
  ASSUME HalfTurn, OrderInv, [Next]_vars
  PROVE  /\ OrderInv'
         /\ Newest' > Newest =>
              \/ Newest' \in InSlots' \/ Newest' \in Given'
              \/ KindAt(Newest)' = "delta" /\ awaiting'
<1>0. Newest \in Nat
  BY NewestIn DEF OrderInv
<1>1. ASSUME NEW k \in {"key", "delta"}, Send(k) PROVE OrderInv' /\ Newest' = Newest
  BY <1>1, SendOrder DEF Send, Newest, track
<1>2. CASE OtherTrack
  <2>1. Newest' = Newest
    BY <1>2 DEF OtherTrack, network, track, Newest
  <2>. QED  BY <1>0, <1>2, <2>1, OtherOrder
<1>3. CASE Tick \/ UNCHANGED vars
  <2>1. /\ kind' = kind /\ transit' = transit
        /\ next' = next /\ highest' = highest /\ slots' = slots /\ out' = out
    BY <1>3 DEF Tick, vars, network, buffer
  <2>2. video' = video /\ renumbered' = renumbered /\ awaiting' = awaiting
    BY <1>3 DEF Tick, vars, track, buffer
  <2>3. /\ Newest' = Newest
        /\ \A q : FrameAt(q)' = FrameAt(q) /\ KindAt(q)' = KindAt(q) /\ Num(q)' = Num(q)
    BY <1>3 DEF Tick, vars, track, network, Newest, FrameAt, KindAt, Num, Base
  <2>4. Sourced'
    BY <2>1, <2>3 DEF OrderInv, Sourced
  <2>5. TypeOK'
    BY TypeStep DEF OrderInv
  <2>6. NotStarted' \/ Started'
    <3>1. NotStarted => NotStarted'
      BY <2>1, <2>2 DEF NotStarted
    <3>2. Started => Started'
      <4>1. ASSUME NEW c, NEW h, Cursor(c, h), Delivered(c) PROVE Cursor(c, h)' /\ Delivered(c)'
        BY <2>1, <2>2, <2>3, <4>1 DEF Cursor, Delivered
      <4>. QED  BY <2>3, <4>1 DEF Started
    <3>. QED  BY <3>1, <3>2 DEF OrderInv
  <2>7. InOrder' /\ GroupsWhole'
    BY <2>1, <2>2, <2>3 DEF OrderInv, InOrder, GroupsWhole, KindAt, FrameAt
  <2>. QED  BY <1>0, <2>1, <2>2, <2>5, <2>6, <2>7, <2>3, <2>4 DEF OrderInv
<1>. QED  BY <1>0, <1>1, <1>2, <1>3, ArriveOrder DEF Next

\* The player is given every place at most once and in the order of the numbers
\* under which the packets were pushed, those of the source or those of the
\* arrivals, whatever the network repeats, reorders and loses and wherever the
\* numbers wrap around: the cursor passes every frame that is given out, and a frame behind
\* the cursor is not taken (push and poll of buffer.rs).
THEOREM InOrderHolds == ASSUME HalfTurn PROVE Spec => []InOrder
<1>1. OrderInv => InOrder
  BY DEF OrderInv
<1>2. OrderInv /\ [Next]_vars => OrderInv'
  BY OrderStep
<1>. QED  BY <1>1, <1>2, OrderInit, PTL DEF Spec

\* A video player is never given a delta frame without what was numbered before
\* it, except as the very first, under either numbers: as long as the track does
\* not wait for a keyframe, the last frame given out is the one before the cursor (poll of buffer.rs).
THEOREM GroupsWholeHolds == ASSUME HalfTurn PROVE Spec => []GroupsWhole
<1>1. OrderInv => GroupsWhole
  BY DEF OrderInv
<1>2. OrderInv /\ [Next]_vars => OrderInv'
  BY OrderStep
<1>. QED  BY <1>1, <1>2, OrderInit, PTL DEF Spec

\* A packet numbered beyond all before it is never taken for a late one: the cursor
\* is at most one beyond the highest frame, and whatever is in its slot is older
\* (push and poll of buffer.rs).
THEOREM NewestKeptHolds == ASSUME HalfTurn PROVE Spec => NewestKept
<1>1. OrderInv /\ [Next]_vars => OrderInv'
  BY OrderStep
<1>2. OrderInv /\ [Next]_vars =>
        [Newest' > Newest =>
           \/ Newest' \in InSlots'
           \/ Newest' \in {out'[i] : i \in DOMAIN out'}
           \/ KindAt(Newest)' = "delta" /\ awaiting']_vars
  BY OrderStep DEF Given
<1>. QED  BY <1>1, <1>2, OrderInit, PTL DEF Spec, NewestKept

-----------------------------------------------------------------------------
(* Playback: the invariant.  Frames are numbered in the order they are     *)
(* pushed, and handled in it; the stamps in the list are of frames that    *)
(* this decoder was fed, none newer than the frame in the pipe at the same *)
(* place.  Pictures that leave the reader so are right, and stay as they   *)
(* are; what the scheduler holds is due within the delay.                  *)

\* A picture passes for itself or for an older frame of its decoder.
Right(p) == p.stamp = 0 \/ p.stamp \in p.since .. p.n
RightPicture == {p \in Picture : Right(p)}
HeldPicture == [picture : RightPicture, at : Int]
Decoder == [state : {"none", "alive", "dead"}, in : Seq(1 .. LastFrame),
            out : Seq(1 .. LastFrame), since : 0 .. LastFrame]
Writer == [pc : {"recv", "join", "feed", "stamp", "leave", "ended"},
           frame : Frame \cup {NoFrame}]

\* The frames in the decoder, the oldest first.
Pipe == decoder.out \o decoder.in
Holds == writer.pc \in {"join", "feed", "stamp"}

Types ==
  /\ pushed \in 0 .. LastFrame /\ queue \in Seq(Frame)
  /\ writer \in Writer /\ decoder \in Decoder /\ stamps \in Seq(1 .. LastFrame)

\* Frames are numbered as they are pushed, and handled in that order.
FramesInOrder ==
  /\ \A i, j \in 1 .. Len(queue) : i < j => queue[i].n < queue[j].n
  /\ \A i \in 1 .. Len(queue) : queue[i].n <= pushed
  /\ Holds => /\ writer.frame \in Frame /\ writer.frame.n <= pushed
              /\ \A i \in 1 .. Len(queue) : writer.frame.n < queue[i].n

\* What is still to be fed is not older than the first frame of the decoder.
Begins ==
  /\ decoder.since <= pushed
  /\ \A i \in 1 .. Len(queue) : decoder.since <= queue[i].n
  /\ Holds => decoder.since <= writer.frame.n
  /\ Pipe # <<>> => decoder.since >= 1
  /\ decoder.state # "none" => decoder.since >= 1

\* A stamp is of a frame of this decoder that was fed before what is to come.
StampsOld ==
  \A i \in 1 .. Len(stamps) :
    /\ decoder.since <= stamps[i] /\ stamps[i] <= pushed
    /\ \A j \in 1 .. Len(queue) : stamps[i] <= queue[j].n
    /\ Holds => stamps[i] <= writer.frame.n

\* The stamps are those of the frames in the pipe or of older ones; the one that
\* was fed last may be without.
PipeStamped ==
  /\ Len(Pipe) <= Len(stamps) + (IF writer.pc = "stamp" THEN 1 ELSE 0)
  /\ \A i \in 1 .. Len(Pipe) :
       /\ decoder.since <= Pipe[i]
       /\ i <= Len(stamps) => stamps[i] <= Pipe[i]
       /\ i > Len(stamps) => Pipe[i] = writer.frame.n

FeedInv == Types /\ FramesInOrder /\ Begins /\ StampsOld /\ PipeStamped

ShowInv ==
  /\ sched \in Seq(RightPicture) /\ shown \in Seq(RightPicture)
  /\ held \in Seq(HeldPicture) /\ anchor \in [stamp : 0 .. LastFrame, at : Int]
  /\ now \in Int /\ WithinDelay

PlayInv == FeedInv /\ ShowInv

-----------------------------------------------------------------------------
(* Playback: what happens to the sequences.                                *)

LEMMA ElementOf ==
  ASSUME NEW S, NEW s \in Seq(S)
  PROVE  Len(s) \in Nat /\ \A i \in 1 .. Len(s) : s[i] \in S
OBVIOUS

LEMMA TailOf ==
  ASSUME NEW S, NEW s \in Seq(S), s # <<>>
  PROVE  /\ Tail(s) \in Seq(S) /\ Head(s) \in S /\ Head(s) = s[1]
         /\ Len(s) >= 1 /\ Len(Tail(s)) = Len(s) - 1
         /\ \A i \in 1 .. Len(Tail(s)) : Tail(s)[i] = s[i + 1]
OBVIOUS

LEMMA AppendOf ==
  ASSUME NEW S, NEW s \in Seq(S), NEW e \in S
  PROVE  /\ Append(s, e) \in Seq(S) /\ Len(Append(s, e)) = Len(s) + 1
         /\ \A i \in 1 .. Len(s) : Append(s, e)[i] = s[i]
         /\ Append(s, e)[Len(s) + 1] = e
OBVIOUS

LEMMA ConcatOf ==
  ASSUME NEW S, NEW s \in Seq(S), NEW t \in Seq(S)
  PROVE  /\ s \o t \in Seq(S) /\ Len(s \o t) = Len(s) + Len(t)
         /\ \A i \in 1 .. Len(s) : (s \o t)[i] = s[i]
         /\ \A i \in 1 .. Len(t) : (s \o t)[Len(s) + i] = t[i]
OBVIOUS

LEMMA SameSeq ==
  ASSUME NEW S, NEW s \in Seq(S), NEW t \in Seq(S), Len(s) = Len(t),
         \A i \in 1 .. Len(s) : s[i] = t[i]
  PROVE  s = t
OBVIOUS

\* A frame moves from one pipe to the other.
LEMMA ShiftOf ==
  ASSUME NEW S, NEW s \in Seq(S), NEW t \in Seq(S), t # <<>>
  PROVE  Append(s, Head(t)) \o Tail(t) = s \o t
<1>1. /\ Tail(t) \in Seq(S) /\ Head(t) \in S /\ Head(t) = t[1]
      /\ Len(t) >= 1 /\ Len(Tail(t)) = Len(t) - 1 /\ Len(t) \in Nat /\ Len(s) \in Nat
      /\ \A i \in 1 .. Len(Tail(t)) : Tail(t)[i] = t[i + 1]
  BY TailOf
<1>2. /\ Append(s, Head(t)) \in Seq(S) /\ Len(Append(s, Head(t))) = Len(s) + 1
      /\ \A i \in 1 .. Len(s) : Append(s, Head(t))[i] = s[i]
      /\ Append(s, Head(t))[Len(s) + 1] = t[1]
  BY <1>1, AppendOf
<1>. DEFINE a == Append(s, Head(t))  b == Tail(t)
<1>3. /\ a \o b \in Seq(S) /\ Len(a \o b) = Len(s) + Len(t)
      /\ \A i \in 1 .. Len(a) : (a \o b)[i] = a[i]
      /\ \A i \in 1 .. Len(b) : (a \o b)[Len(a) + i] = b[i]
  BY <1>1, <1>2, ConcatOf
<1>4. /\ s \o t \in Seq(S) /\ Len(s \o t) = Len(s) + Len(t)
      /\ \A i \in 1 .. Len(s) : (s \o t)[i] = s[i]
      /\ \A i \in 1 .. Len(t) : (s \o t)[Len(s) + i] = t[i]
  BY ConcatOf
<1>5. ASSUME NEW i \in 1 .. Len(s) + Len(t) PROVE (a \o b)[i] = (s \o t)[i]
  <2>. HIDE DEF a, b
  <2>1. CASE i <= Len(s)
    BY <1>1, <1>2, <1>3, <1>4, <2>1 DEF a
  <2>2. CASE i = Len(s) + 1
    <3>1. 1 \in 1 .. Len(t) /\ Len(s) + 1 \in 1 .. Len(a)
      BY <1>1, <1>2 DEF a
    <3>2. (a \o b)[Len(s) + 1] = t[1] /\ (s \o t)[Len(s) + 1] = t[1]
      BY <1>2, <1>3, <1>4, <3>1 DEF a
    <3>. QED  BY <2>2, <3>2
  <2>3. CASE i > Len(s) + 1
    <3>1. PICK k \in 1 .. Len(b) : i = Len(a) + k
      <4>1. i - (Len(s) + 1) \in 1 .. Len(b) /\ i = Len(a) + (i - (Len(s) + 1))
        BY <1>1, <1>2, <2>3 DEF a, b
      <4>. QED  BY <4>1
    <3>2. k + 1 \in 1 .. Len(t) /\ i = Len(s) + (k + 1)
      BY <1>1, <1>2, <3>1 DEF a, b
    <3>3. (a \o b)[i] = b[k] /\ (s \o t)[i] = t[k + 1]
      BY <1>3, <1>4, <3>1, <3>2
    <3>4. b[k] = t[k + 1]
      BY <1>1, <3>1 DEF b
    <3>. QED  BY <3>3, <3>4
  <2>4. i <= Len(s) \/ i = Len(s) + 1 \/ i > Len(s) + 1
    BY <1>1
  <2>. QED  BY <2>1, <2>2, <2>3, <2>4
<1>. HIDE DEF a, b
<1>6. a \o b = s \o t
  BY <1>3, <1>4, <1>5, SameSeq
<1>. QED  BY <1>6 DEF a, b

\* The oldest frame is taken.
LEMMA TakenOf ==
  ASSUME NEW S, NEW s \in Seq(S), NEW t \in Seq(S), s # <<>>
  PROVE  Tail(s) \o t = Tail(s \o t) /\ s \o t # <<>> /\ Head(s \o t) = Head(s)
<1>1. /\ Tail(s) \in Seq(S) /\ Head(s) = s[1] /\ Len(s) \in Nat /\ Len(t) \in Nat
      /\ Len(s) >= 1 /\ Len(Tail(s)) = Len(s) - 1
      /\ \A i \in 1 .. Len(Tail(s)) : Tail(s)[i] = s[i + 1]
  BY TailOf
<1>2. /\ s \o t \in Seq(S) /\ Len(s \o t) = Len(s) + Len(t)
      /\ \A i \in 1 .. Len(s) : (s \o t)[i] = s[i]
      /\ \A i \in 1 .. Len(t) : (s \o t)[Len(s) + i] = t[i]
  BY ConcatOf
<1>3. s \o t # <<>>
  BY <1>1, <1>2
<1>4. /\ Tail(s \o t) \in Seq(S) /\ Head(s \o t) = (s \o t)[1]
      /\ Len(Tail(s \o t)) = Len(s \o t) - 1
      /\ \A i \in 1 .. Len(Tail(s \o t)) : Tail(s \o t)[i] = (s \o t)[i + 1]
  BY <1>2, <1>3, TailOf
<1>5. /\ Tail(s) \o t \in Seq(S) /\ Len(Tail(s) \o t) = Len(Tail(s)) + Len(t)
      /\ \A i \in 1 .. Len(Tail(s)) : (Tail(s) \o t)[i] = Tail(s)[i]
      /\ \A i \in 1 .. Len(t) : (Tail(s) \o t)[Len(Tail(s)) + i] = t[i]
  BY <1>1, ConcatOf
<1>6. ASSUME NEW i \in 1 .. Len(Tail(s) \o t) PROVE (Tail(s) \o t)[i] = Tail(s \o t)[i]
  <2>1. i \in 1 .. Len(Tail(s \o t)) /\ Tail(s \o t)[i] = (s \o t)[i + 1]
    BY <1>1, <1>2, <1>4, <1>5
  <2>2. CASE i <= Len(Tail(s))
    <3>1. i \in 1 .. Len(Tail(s)) /\ i + 1 \in 1 .. Len(s)
      BY <1>1, <1>5, <2>2
    <3>. QED  BY <1>1, <1>2, <1>5, <2>1, <3>1
  <2>3. CASE i > Len(Tail(s))
    <3>1. PICK k \in 1 .. Len(t) : i = Len(Tail(s)) + k
      <4>1. i - Len(Tail(s)) \in 1 .. Len(t) /\ i = Len(Tail(s)) + (i - Len(Tail(s)))
        BY <1>1, <1>5, <2>3
      <4>. QED  BY <4>1
    <3>2. i + 1 = Len(s) + k
      BY <1>1, <3>1
    <3>3. (Tail(s) \o t)[i] = t[k] /\ (s \o t)[i + 1] = t[k]
      BY <1>2, <1>5, <3>1, <3>2
    <3>. QED  BY <2>1, <3>3
  <2>. QED  BY <2>2, <2>3, <1>1
<1>7. Head(s \o t) = Head(s)
  <2>1. 1 \in 1 .. Len(s)
    BY <1>1
  <2>. QED  BY <1>1, <1>2, <1>4, <2>1
<1>8. Tail(s) \o t = Tail(s \o t)
  <2>1. Len(Tail(s) \o t) = Len(Tail(s \o t))
    BY <1>1, <1>2, <1>4, <1>5
  <2>. QED  BY <1>4, <1>5, <1>6, <2>1, SameSeq
<1>. QED  BY <1>3, <1>7, <1>8

\* A frame is fed.
LEMMA FedOf ==
  ASSUME NEW S, NEW s \in Seq(S), NEW t \in Seq(S), NEW e \in S
  PROVE  s \o Append(t, e) = Append(s \o t, e)
<1>1. /\ s \o t \in Seq(S) /\ Len(s \o t) = Len(s) + Len(t)
      /\ Len(s) \in Nat /\ Len(t) \in Nat
      /\ \A i \in 1 .. Len(s) : (s \o t)[i] = s[i]
      /\ \A i \in 1 .. Len(t) : (s \o t)[Len(s) + i] = t[i]
  BY ConcatOf
<1>2. /\ Append(t, e) \in Seq(S) /\ Len(Append(t, e)) = Len(t) + 1
      /\ \A i \in 1 .. Len(t) : Append(t, e)[i] = t[i]
      /\ Append(t, e)[Len(t) + 1] = e
  BY AppendOf
<1>3. /\ Append(s \o t, e) \in Seq(S) /\ Len(Append(s \o t, e)) = Len(s \o t) + 1
      /\ \A i \in 1 .. Len(s \o t) : Append(s \o t, e)[i] = (s \o t)[i]
      /\ Append(s \o t, e)[Len(s \o t) + 1] = e
  BY <1>1, AppendOf
<1>4. /\ s \o Append(t, e) \in Seq(S) /\ Len(s \o Append(t, e)) = Len(s) + Len(Append(t, e))
      /\ \A i \in 1 .. Len(s) : (s \o Append(t, e))[i] = s[i]
      /\ \A i \in 1 .. Len(Append(t, e)) : (s \o Append(t, e))[Len(s) + i] = Append(t, e)[i]
  BY <1>2, ConcatOf
<1>5. ASSUME NEW i \in 1 .. Len(s \o Append(t, e))
      PROVE  (s \o Append(t, e))[i] = Append(s \o t, e)[i]
  <2>1. CASE i <= Len(s)
    <3>1. i \in 1 .. Len(s) /\ i \in 1 .. Len(s \o t)
      BY <1>1, <2>1
    <3>. QED  BY <1>1, <1>3, <1>4, <3>1
  <2>2. CASE i > Len(s)
    <3>1. PICK k \in 1 .. Len(t) + 1 : i = Len(s) + k
      <4>1. i - Len(s) \in 1 .. Len(t) + 1 /\ i = Len(s) + (i - Len(s))
        BY <1>1, <1>2, <1>4, <2>2
      <4>. QED  BY <4>1
    <3>2. (s \o Append(t, e))[i] = Append(t, e)[k]
      BY <1>2, <1>4, <3>1
    <3>3. CASE k <= Len(t)
      <4>1. k \in 1 .. Len(t) /\ i \in 1 .. Len(s \o t)
        BY <1>1, <3>1, <3>3
      <4>. QED  BY <1>1, <1>2, <1>3, <3>1, <3>2, <4>1
    <3>4. CASE k = Len(t) + 1
      BY <1>1, <1>2, <1>3, <3>1, <3>2, <3>4
    <3>. QED  BY <1>1, <3>3, <3>4
  <2>. QED  BY <1>1, <2>1, <2>2
<1>. QED  BY <1>1, <1>2, <1>3, <1>4, <1>5, SameSeq

LEMMA PipeIs ==
  ASSUME decoder \in Decoder
  PROVE  /\ Pipe \in Seq(1 .. LastFrame) /\ Len(Pipe) \in Nat
         /\ decoder.in \in Seq(1 .. LastFrame) /\ decoder.out \in Seq(1 .. LastFrame)
         /\ decoder.since \in 0 .. LastFrame
         /\ \A i \in 1 .. Len(Pipe) : Pipe[i] \in 1 .. LastFrame
<1>1. /\ decoder.in \in Seq(1 .. LastFrame) /\ decoder.out \in Seq(1 .. LastFrame)
      /\ decoder.since \in 0 .. LastFrame
  BY DEF Decoder
<1>2. Pipe \in Seq(1 .. LastFrame)
  BY <1>1, ConcatOf DEF Pipe
<1>3. Len(Pipe) \in Nat /\ \A i \in 1 .. Len(Pipe) : Pipe[i] \in 1 .. LastFrame
  BY <1>2, ElementOf
<1>. QED  BY <1>1, <1>2, <1>3

\* A killed decoder keeps the pictures it has made.
LEMMA KilledIs ==
  ASSUME decoder \in Decoder, decoder' = Killed
  PROVE  /\ decoder' \in Decoder /\ decoder'.since = decoder.since
         /\ Pipe' = decoder.out /\ Len(decoder.out) <= Len(Pipe)
         /\ \A i \in 1 .. Len(decoder.out) : decoder.out[i] = Pipe[i]
<1>1. /\ decoder'.in = <<>> /\ decoder'.out = decoder.out
      /\ decoder'.since = decoder.since /\ decoder' \in Decoder
  <2>1. decoder' = [state |-> IF SomeStdin THEN "dead" ELSE "none", in |-> <<>>,
                    out |-> decoder.out, since |-> decoder.since]
    BY DEF Killed, NoDecoder
  <2>2. /\ decoder.out \in Seq(1 .. LastFrame) /\ decoder.since \in 0 .. LastFrame
        /\ <<>> \in Seq(1 .. LastFrame)
    BY DEF Decoder
  <2>. QED  BY <2>1, <2>2 DEF Decoder
<1>2. decoder.out \in Seq(1 .. LastFrame) /\ decoder.in \in Seq(1 .. LastFrame)
  BY DEF Decoder
<1>3. decoder.out \o <<>> = decoder.out
  BY <1>2
<1>4. /\ Len(Pipe) = Len(decoder.out) + Len(decoder.in)
      /\ \A i \in 1 .. Len(decoder.out) : Pipe[i] = decoder.out[i]
  <2>1. \A S : \A a, b \in Seq(S) :
          /\ Len(a \o b) = Len(a) + Len(b)
          /\ \A i \in 1 .. Len(a) : (a \o b)[i] = a[i]
    BY ConcatOf
  <2>. QED  BY <1>2, <2>1 DEF Pipe
<1>5. Len(decoder.out) \in Nat /\ Len(decoder.in) \in Nat
  BY <1>2
<1>6. Pipe' = decoder.out
  <2>1. Pipe' = decoder'.out \o decoder'.in
    BY DEF Pipe
  <2>2. decoder'.out \o decoder'.in = decoder.out \o <<>>
    BY <1>1
  <2>. QED  BY <1>3, <2>1, <2>2, Zenon
<1>7. Len(decoder.out) <= Len(Pipe)
  <2>1. Len(Pipe) = Len(decoder.out) + Len(decoder.in)
    BY <1>4
  <2>2. \A x, y \in Nat : x <= x + y
    OBVIOUS
  <2>. QED  BY <1>5, <2>1, <2>2, Zenon
<1>. QED  BY <1>1, <1>4, <1>6, <1>7

-----------------------------------------------------------------------------
(* Playback: feeding, by the user, the writer, the decoder and the reader. *)

\* What is compared are numbers.
LEMMA Numbers ==
  ASSUME Types
  PROVE  /\ LastFrame \in Nat /\ pushed \in Nat /\ decoder.since \in Nat
         /\ Len(queue) \in Nat /\ Len(stamps) \in Nat /\ Len(Pipe) \in Nat
         /\ writer.frame.n \in 0 .. LastFrame
         /\ \A i \in 1 .. Len(queue) : queue[i] \in Frame /\ queue[i].n \in Nat
         /\ \A i \in 1 .. Len(stamps) : stamps[i] \in Nat
         /\ \A i \in 1 .. Len(Pipe) : Pipe[i] \in Nat
<1>1. LastFrame \in Nat
  BY PlaybackAssumption
<1>2. \A f \in Frame : f.n \in 1 .. LastFrame
  BY DEF Frame
<1>3. NoFrame.n = 0
  BY DEF NoFrame
<1>4. writer.frame \in Frame \cup {NoFrame}
  BY DEF Types, Writer
<1>5. \A i \in 1 .. Len(queue) : queue[i] \in Frame
  BY DEF Types
<1>6. /\ pushed \in 0 .. LastFrame /\ Len(queue) \in Nat /\ Len(stamps) \in Nat
      /\ \A i \in 1 .. Len(stamps) : stamps[i] \in 1 .. LastFrame
  BY ElementOf DEF Types
<1>7. /\ decoder.since \in 0 .. LastFrame /\ Len(Pipe) \in Nat
      /\ \A i \in 1 .. Len(Pipe) : Pipe[i] \in 1 .. LastFrame
  BY PipeIs DEF Types
<1>8. writer.frame.n \in 0 .. LastFrame
  BY <1>1, <1>2, <1>3, <1>4
<1>. QED  BY <1>1, <1>2, <1>5, <1>6, <1>7, <1>8

LEMMA FeedUnchanged ==
  ASSUME FeedInv, UNCHANGED <<pushed, queue, writer, decoder, stamps>>
  PROVE  FeedInv'
<1>1. Pipe' = Pipe /\ Holds' = Holds
  BY DEF Pipe, Holds
<1>. QED  BY <1>1 DEF FeedInv, Types, FramesInOrder, Begins, StampsOld, PipeStamped

\* A frame more has been pushed.
LEMMA FeedPushed ==
  ASSUME FeedInv, pushed' = pushed + 1, pushed < LastFrame,
         UNCHANGED <<queue, writer, decoder, stamps>>
  PROVE  FeedInv'
<1>1. Pipe' = Pipe /\ Holds' = Holds
  BY DEF Pipe, Holds
<1>2. Types
  BY DEF FeedInv
<1>3. Types'
  BY <1>2, Numbers DEF Types
<1>4. FramesInOrder'
  BY <1>1, <1>2, Numbers DEF FeedInv, FramesInOrder
<1>5. Begins'
  BY <1>1, <1>2, Numbers DEF FeedInv, Begins
<1>6. StampsOld'
  BY <1>1, <1>2, Numbers DEF FeedInv, StampsOld
<1>7. PipeStamped'
  BY <1>1 DEF FeedInv, PipeStamped
<1>. QED  BY <1>3, <1>4, <1>5, <1>6, <1>7 DEF FeedInv

LEMMA FeedQueued ==
  ASSUME FeedInv, NEW k \in Kind, pushed < LastFrame, pushed' = pushed + 1,
         queue' = Append(queue, [n |-> pushed + 1, kind |-> k]),
         UNCHANGED <<writer, decoder, stamps>>
  PROVE  FeedInv'
<1>1. Pipe' = Pipe /\ Holds' = Holds
  BY DEF Pipe, Holds
<1>2. Types /\ pushed \in 0 .. LastFrame
  BY DEF FeedInv, Types
<1>. DEFINE f == [n |-> pushed + 1, kind |-> k]
<1>3. f \in Frame /\ f.n = pushed + 1
  BY <1>2, Numbers DEF Frame
<1>4. queue \in Seq(Frame) /\ Len(queue) \in Nat
  BY <1>2 DEF Types
<1>5. /\ queue' \in Seq(Frame) /\ Len(queue') = Len(queue) + 1
      /\ \A i \in 1 .. Len(queue) : queue'[i] = queue[i]
      /\ queue'[Len(queue) + 1] = f
  BY <1>3, <1>4, AppendOf
<1>. HIDE DEF f
<1>6. \A i \in 1 .. Len(queue') : \/ i \in 1 .. Len(queue) /\ queue'[i] = queue[i]
                                  \/ i = Len(queue) + 1 /\ queue'[i].n = pushed + 1
  BY <1>3, <1>4, <1>5
<1>7. Types'
  BY <1>2, <1>5, Numbers DEF Types
<1>8. FramesInOrder'
  <2>1. \A i \in 1 .. Len(queue) : queue[i].n <= pushed /\ queue[i].n \in Nat
    BY <1>2, Numbers DEF FeedInv, FramesInOrder
  <2>2. ASSUME NEW i \in 1 .. Len(queue'), NEW j \in 1 .. Len(queue'), i < j
        PROVE  queue'[i].n < queue'[j].n
    <3>1. i \in 1 .. Len(queue) /\ queue'[i] = queue[i]
      BY <1>4, <1>5, <1>6, <2>2
    <3>2. CASE j \in 1 .. Len(queue) /\ queue'[j] = queue[j]
      BY <2>2, <3>1, <3>2 DEF FeedInv, FramesInOrder
    <3>3. CASE queue'[j].n = pushed + 1
      <4>1. queue[i].n <= pushed /\ queue[i].n \in Nat /\ pushed \in Nat
        BY <1>2, <2>1, <3>1
      <4>. QED  BY <3>1, <3>3, <4>1
    <3>. QED  BY <1>6, <3>2, <3>3
  <2>3. \A i \in 1 .. Len(queue') : queue'[i].n <= pushed'
    BY <1>2, <1>6, <2>1
  <2>4. ASSUME Holds
        PROVE  /\ writer.frame \in Frame /\ writer.frame.n <= pushed'
               /\ \A i \in 1 .. Len(queue') : writer.frame.n < queue'[i].n
    <3>1. /\ writer.frame \in Frame /\ writer.frame.n <= pushed /\ writer.frame.n \in Nat
          /\ \A i \in 1 .. Len(queue) : writer.frame.n < queue[i].n
      BY <1>2, <2>4, Numbers DEF FeedInv, FramesInOrder
    <3>. QED  BY <1>2, <1>6, <3>1
  <2>. QED  BY <1>1, <2>2, <2>3, <2>4 DEF FramesInOrder
<1>9. Begins'
  <2>1. decoder.since <= pushed /\ decoder.since \in Nat
    BY <1>2, Numbers DEF FeedInv, Begins
  <2>. QED  BY <1>1, <1>2, <1>6, <2>1 DEF FeedInv, Begins
<1>10. StampsOld'
  <2>1. \A i \in 1 .. Len(stamps) : stamps[i] \in Nat
    BY <1>2, Numbers
  <2>. QED  BY <1>1, <1>2, <1>6, <2>1 DEF FeedInv, StampsOld
<1>11. PipeStamped'
  BY <1>1 DEF FeedInv, PipeStamped
<1>. QED  BY <1>7, <1>8, <1>9, <1>10, <1>11 DEF FeedInv

LEMMA FeedPush == ASSUME FeedInv, PushFrame PROVE FeedInv'
<1>1. pushed < LastFrame /\ pushed' = pushed + 1 /\ UNCHANGED <<writer, decoder, stamps>>
  BY DEF PushFrame
<1>2. \/ queue' = queue
      \/ \E k \in Kind : queue' = Append(queue, [n |-> pushed + 1, kind |-> k])
  BY DEF PushFrame
<1>. QED  BY <1>1, <1>2, FeedPushed, FeedQueued

\* A decoder that is left alone, dies or is killed.
LEMMA DecoderLess ==
  ASSUME FeedInv, decoder' = decoder \/ decoder' = Killed
  PROVE  /\ decoder' \in Decoder /\ decoder'.since = decoder.since
         /\ Len(Pipe') \in Nat /\ Len(Pipe') <= Len(Pipe)
         /\ \A i \in 1 .. Len(Pipe') : i \in 1 .. Len(Pipe) /\ Pipe'[i] = Pipe[i]
         /\ Pipe' # <<>> => decoder'.since >= 1
         /\ decoder'.state # "none" => decoder'.since >= 1
<1>1. decoder \in Decoder /\ Len(Pipe) \in Nat /\ Pipe \in Seq(1 .. LastFrame)
  BY PipeIs DEF FeedInv, Types
<1>2. CASE decoder' = decoder
  <2>1. Pipe' = Pipe
    BY <1>2 DEF Pipe
  <2>. QED  BY <1>1, <1>2, <2>1 DEF FeedInv, Begins
<1>3. CASE decoder' = Killed
  <2>1. /\ decoder' \in Decoder /\ decoder'.since = decoder.since
        /\ Pipe' = decoder.out /\ Len(decoder.out) <= Len(Pipe)
        /\ \A i \in 1 .. Len(decoder.out) : decoder.out[i] = Pipe[i]
    BY <1>1, <1>3, KilledIs
  <2>2. decoder.out \in Seq(1 .. LastFrame) /\ Len(decoder.out) \in Nat
    BY <1>1, ElementOf DEF Decoder
  <2>3. Pipe' # <<>> => Pipe # <<>>
    <3>1. decoder.out # <<>> => Len(decoder.out) >= 1
      BY <2>2
    <3>2. Pipe = <<>> => Len(Pipe) = 0
      OBVIOUS
    <3>. QED  BY <1>1, <2>1, <2>2, <3>1, <3>2
  <2>4. decoder'.state # "none" => decoder.state # "none"
    BY <1>3 DEF Killed, NoDecoder, SomeStdin
  <2>5. \A i \in 1 .. Len(Pipe') : i \in 1 .. Len(Pipe) /\ Pipe'[i] = Pipe[i]
    BY <1>1, <2>1, <2>2
  <2>. QED  BY <1>1, <2>1, <2>2, <2>3, <2>4, <2>5 DEF FeedInv, Begins
<1>. QED  BY <1>2, <1>3

\* Nothing happens to the writer, and the decoder holds as much or less.
LEMMA DecoderStep ==
  ASSUME FeedInv, decoder' = decoder \/ decoder' = Killed,
         UNCHANGED <<pushed, queue, writer, stamps>>
  PROVE  FeedInv'
<1>1. Holds' = Holds
  BY DEF Holds
<1>2. /\ decoder' \in Decoder /\ decoder'.since = decoder.since
      /\ Len(Pipe') \in Nat /\ Len(Pipe') <= Len(Pipe)
      /\ \A i \in 1 .. Len(Pipe') : i \in 1 .. Len(Pipe) /\ Pipe'[i] = Pipe[i]
      /\ Pipe' # <<>> => decoder'.since >= 1
      /\ decoder'.state # "none" => decoder'.since >= 1
  BY DecoderLess
<1>3. Types'
  BY <1>2 DEF FeedInv, Types
<1>4. FramesInOrder'
  BY <1>1 DEF FeedInv, FramesInOrder
<1>5. Begins'
  BY <1>1, <1>2 DEF FeedInv, Begins
<1>6. StampsOld'
  BY <1>1, <1>2 DEF FeedInv, StampsOld
<1>7. PipeStamped'
  <2>1. Len(Pipe) \in Nat /\ Len(stamps) \in Nat
    BY Numbers DEF FeedInv
  <2>. QED  BY <1>2, <2>1 DEF FeedInv, PipeStamped
<1>. QED  BY <1>3, <1>4, <1>5, <1>6, <1>7 DEF FeedInv

\* The writer lets go of its frame, or takes one and drops it.
LEMMA FrameLeft ==
  ASSUME FeedInv, decoder' = decoder \/ decoder' = Killed, writer.pc # "stamp",
         writer' \in Writer, writer'.pc \in {"recv", "leave", "ended"},
         \/ queue' = queue
         \/ queue # <<>> /\ queue' = Tail(queue),
         UNCHANGED <<pushed, stamps>>
  PROVE  FeedInv'
<1>1. ~Holds'
  BY DEF Holds
<1>2. /\ decoder' \in Decoder /\ decoder'.since = decoder.since
      /\ Len(Pipe') \in Nat /\ Len(Pipe') <= Len(Pipe)
      /\ \A i \in 1 .. Len(Pipe') : i \in 1 .. Len(Pipe) /\ Pipe'[i] = Pipe[i]
      /\ Pipe' # <<>> => decoder'.since >= 1
      /\ decoder'.state # "none" => decoder'.since >= 1
  BY DecoderLess
<1>3. Types
  BY DEF FeedInv
<1>4. PICK d \in {0, 1} :
        /\ queue' \in Seq(Frame) /\ Len(queue') = Len(queue) - d /\ Len(queue') \in Nat
        /\ \A i \in 1 .. Len(queue') : i + d \in 1 .. Len(queue) /\ queue'[i] = queue[i + d]
  <2>1. queue \in Seq(Frame) /\ Len(queue) \in Nat
    BY <1>3, Numbers DEF Types
  <2>2. CASE queue' = queue
    BY <2>1, <2>2
  <2>3. CASE queue # <<>> /\ queue' = Tail(queue)
    <3>1. /\ queue' \in Seq(Frame) /\ Len(queue) >= 1 /\ Len(queue') = Len(queue) - 1
          /\ \A i \in 1 .. Len(queue') : queue'[i] = queue[i + 1]
      BY <2>1, <2>3, TailOf
    <3>2. \A i \in 1 .. Len(queue') : i + 1 \in 1 .. Len(queue)
      BY <2>1, <3>1
    <3>. QED  BY <2>1, <3>1, <3>2
  <2>. QED  BY <2>2, <2>3
<1>5. Types'
  BY <1>2, <1>3, <1>4 DEF Types
<1>6. FramesInOrder'
  <2>1. ASSUME NEW i \in 1 .. Len(queue'), NEW j \in 1 .. Len(queue'), i < j
        PROVE  queue'[i].n < queue'[j].n
    <3>1. i + d < j + d
      BY <1>4, <2>1
    <3>. QED  BY <1>4, <3>1 DEF FeedInv, FramesInOrder
  <2>2. \A i \in 1 .. Len(queue') : queue'[i].n <= pushed'
    BY <1>4 DEF FeedInv, FramesInOrder
  <2>. QED  BY <1>1, <2>1, <2>2 DEF FramesInOrder
<1>7. Begins'
  BY <1>1, <1>2, <1>4 DEF FeedInv, Begins
<1>8. StampsOld'
  BY <1>1, <1>2, <1>4 DEF FeedInv, StampsOld
<1>9. PipeStamped'
  <2>1. Len(Pipe) \in Nat /\ Len(stamps) \in Nat
    BY <1>3, Numbers
  <2>2. Len(Pipe) <= Len(stamps)
    BY <2>1 DEF FeedInv, PipeStamped
  <2>3. Len(Pipe') <= Len(stamps)
    BY <1>2, <2>1, <2>2
  <2>4. ASSUME NEW i \in 1 .. Len(Pipe')
        PROVE  decoder.since <= Pipe'[i] /\ i <= Len(stamps) /\ stamps[i] <= Pipe'[i]
    BY <1>2, <2>1, <2>3 DEF FeedInv, PipeStamped
  <2>. QED  BY <1>2, <2>1, <2>3, <2>4 DEF PipeStamped
<1>. QED  BY <1>5, <1>6, <1>7, <1>8, <1>9 DEF FeedInv

LEMMA IdleIs ==
  /\ Idle \in Writer /\ Idle.pc = "recv"
  /\ [pc |-> "leave", frame |-> NoFrame] \in Writer
BY DEF Idle, Writer

LEMMA AtIs ==
  ASSUME writer \in Writer, NEW pc \in {"recv", "join", "feed", "stamp", "leave", "ended"}
  PROVE  At(pc) \in Writer /\ At(pc).pc = pc /\ At(pc).frame = writer.frame
BY DEF At, Writer

\* The writer takes a frame to feed it.
LEMMA FrameTaken ==
  ASSUME FeedInv, decoder' = decoder \/ decoder' = Killed, writer.pc = "recv",
         queue # <<>>, queue' = Tail(queue), NEW pc \in {"join", "feed"},
         writer' = [pc |-> pc, frame |-> Head(queue)],
         UNCHANGED <<pushed, stamps>>
  PROVE  FeedInv'
<1>1. /\ decoder' \in Decoder /\ decoder'.since = decoder.since
      /\ Len(Pipe') \in Nat /\ Len(Pipe') <= Len(Pipe)
      /\ \A i \in 1 .. Len(Pipe') : i \in 1 .. Len(Pipe) /\ Pipe'[i] = Pipe[i]
      /\ Pipe' # <<>> => decoder'.since >= 1
      /\ decoder'.state # "none" => decoder'.since >= 1
  BY DecoderLess
<1>2. Types
  BY DEF FeedInv
<1>3. /\ queue' \in Seq(Frame) /\ Len(queue) >= 1 /\ Len(queue') = Len(queue) - 1
      /\ Len(queue) \in Nat /\ Head(queue) \in Frame /\ Head(queue) = queue[1]
      /\ \A i \in 1 .. Len(queue') : queue'[i] = queue[i + 1]
  BY <1>2, TailOf, ElementOf DEF Types
<1>4. 1 \in 1 .. Len(queue) /\ \A i \in 1 .. Len(queue') : i + 1 \in 1 .. Len(queue) /\ 1 < i + 1
  BY <1>3
<1>5. writer'.pc = pc /\ writer'.frame = queue[1] /\ writer' \in Writer
  BY <1>3 DEF Writer
<1>6. Types'
  BY <1>1, <1>2, <1>3, <1>5 DEF Types
<1>7. FramesInOrder'
  <2>1. \A i, j \in 1 .. Len(queue) : i < j => queue[i].n < queue[j].n
    BY DEF FeedInv, FramesInOrder
  <2>2. ASSUME NEW i \in 1 .. Len(queue'), NEW j \in 1 .. Len(queue'), i < j
        PROVE  queue'[i].n < queue'[j].n
    BY <1>3, <1>4, <2>1, <2>2
  <2>3. \A i \in 1 .. Len(queue') : queue'[i].n <= pushed' /\ queue[1].n < queue'[i].n
    BY <1>3, <1>4, <2>1 DEF FeedInv, FramesInOrder
  <2>4. queue[1] \in Frame /\ queue[1].n <= pushed'
    BY <1>3, <1>4 DEF FeedInv, FramesInOrder
  <2>. QED  BY <1>5, <2>2, <2>3, <2>4 DEF FramesInOrder
<1>8. Begins'
  BY <1>1, <1>3, <1>4, <1>5 DEF FeedInv, Begins
<1>9. StampsOld'
  BY <1>1, <1>3, <1>4, <1>5 DEF FeedInv, StampsOld
<1>10. PipeStamped'
  <2>1. Len(Pipe) \in Nat /\ Len(stamps) \in Nat
    BY <1>2, Numbers
  <2>2. Len(Pipe) <= Len(stamps)
    BY <2>1 DEF FeedInv, PipeStamped
  <2>3. Len(Pipe') <= Len(stamps)
    BY <1>1, <2>1, <2>2
  <2>4. ASSUME NEW i \in 1 .. Len(Pipe')
        PROVE  decoder.since <= Pipe'[i] /\ i <= Len(stamps) /\ stamps[i] <= Pipe'[i]
    BY <1>1, <2>1, <2>3 DEF FeedInv, PipeStamped
  <2>. QED  BY <1>1, <1>5, <2>1, <2>3, <2>4 DEF PipeStamped
<1>. QED  BY <1>6, <1>7, <1>8, <1>9, <1>10 DEF FeedInv

\* A decoder begins with the frame the writer has, or is gone with the frame.
LEMMA DecoderNew ==
  ASSUME FeedInv, decoder'.in = <<>>, decoder'.out = <<>>, decoder' \in Decoder,
         \/ /\ decoder'.since = 0 /\ decoder'.state = "none"
            /\ ~Holds' /\ (stamps' = stamps \/ stamps' = <<>>)
         \/ /\ Holds /\ decoder'.since = writer.frame.n /\ stamps' = <<>>
            /\ writer'.pc = "feed" /\ writer'.frame = writer.frame,
         writer' \in Writer, UNCHANGED <<pushed, queue>>
  PROVE  FeedInv'
<1>1. Pipe' = <<>> /\ Len(Pipe') = 0
  BY DEF Pipe
<1>2. Types
  BY DEF FeedInv
<1>3. stamps' \in Seq(1 .. LastFrame) /\ Types'
  <2>1. <<>> \in Seq(1 .. LastFrame) /\ stamps \in Seq(1 .. LastFrame)
    BY <1>2 DEF Types
  <2>2. stamps' = stamps \/ stamps' = <<>>
    OBVIOUS
  <2>3. stamps' \in Seq(1 .. LastFrame)
    BY <2>1, <2>2
  <2>. QED  BY <1>2, <2>3 DEF Types
<1>4. FramesInOrder'
  <2>1. Holds' => Holds /\ writer'.frame = writer.frame
    BY DEF Holds
  <2>. QED  BY <2>1 DEF FeedInv, FramesInOrder
<1>5. Begins'
  <2>1. /\ pushed \in Nat /\ LastFrame \in Nat
        /\ \A i \in 1 .. Len(queue) : queue[i].n \in Nat
    BY <1>2, Numbers
  <2>2. CASE decoder'.since = 0 /\ decoder'.state = "none" /\ ~Holds'
    BY <1>1, <2>1, <2>2 DEF Begins
  <2>3. CASE Holds /\ decoder'.since = writer.frame.n /\ writer'.frame = writer.frame
    <3>1. /\ writer.frame.n \in Nat /\ writer.frame.n >= 1 /\ writer.frame.n <= pushed
          /\ \A i \in 1 .. Len(queue) : writer.frame.n < queue[i].n
      BY <2>3 DEF FeedInv, FramesInOrder, Frame
    <3>. QED  BY <1>1, <2>1, <2>3, <3>1 DEF Begins
  <2>. QED  BY <2>2, <2>3
<1>6. StampsOld'
  <2>1. CASE stamps' = <<>>
    BY <2>1 DEF StampsOld
  <2>2. CASE stamps' = stamps /\ decoder'.since = 0 /\ ~Holds'
    <3>1. \A i \in 1 .. Len(stamps) : stamps[i] \in Nat
      BY <1>2, Numbers
    <3>. QED  BY <2>2, <3>1 DEF FeedInv, StampsOld
  <2>. QED  BY <2>1, <2>2
<1>7. PipeStamped'
  <2>1. Len(stamps') \in Nat
    BY <1>3, ElementOf
  <2>. QED  BY <1>1, <2>1 DEF PipeStamped
<1>. QED  BY <1>3, <1>4, <1>5, <1>6, <1>7 DEF FeedInv

\* A frame goes into the pipe, or, a configuration, past it; its stamp follows.
LEMMA FrameFed ==
  ASSUME FeedInv, writer.pc = "feed", writer'.pc = "stamp", writer'.frame = writer.frame,
         writer' \in Writer, decoder.state = "alive",
         decoder' = decoder \/ decoder' = [decoder EXCEPT !.in = Append(@, writer.frame.n)],
         UNCHANGED <<pushed, queue, stamps>>
  PROVE  FeedInv'
<1>1. Types /\ Holds /\ Holds' /\ decoder \in Decoder
  BY DEF FeedInv, Holds, Types
<1>2. writer.frame.n \in 1 .. LastFrame /\ decoder.since <= writer.frame.n
  BY <1>1 DEF FeedInv, FramesInOrder, Begins, Frame
<1>3. /\ Len(Pipe) \in Nat /\ Len(stamps) \in Nat /\ Len(Pipe) <= Len(stamps)
      /\ Pipe \in Seq(1 .. LastFrame)
  <2>1. Len(Pipe) \in Nat /\ Len(stamps) \in Nat
    BY <1>1, Numbers
  <2>. QED  BY <1>1, <2>1, PipeIs DEF FeedInv, PipeStamped
<1>4. CASE decoder' = decoder
  <2>1. Pipe' = Pipe
    BY <1>4 DEF Pipe
  <2>2. Types'
    BY <1>1, <1>4 DEF Types
  <2>3. FramesInOrder' /\ Begins' /\ StampsOld'
    BY <1>1, <1>4, <2>1 DEF FeedInv, FramesInOrder, Begins, StampsOld
  <2>4. PipeStamped'
    <3>1. Len(Pipe) <= Len(stamps) + 1
      BY <1>3
    <3>. QED  BY <1>4, <2>1, <3>1 DEF FeedInv, PipeStamped
  <2>. QED  BY <2>2, <2>3, <2>4 DEF FeedInv
<1>5. CASE decoder' = [decoder EXCEPT !.in = Append(@, writer.frame.n)]
  <2>1. /\ decoder'.out = decoder.out /\ decoder'.in = Append(decoder.in, writer.frame.n)
        /\ decoder'.since = decoder.since /\ decoder'.state = decoder.state
    BY <1>1, <1>5 DEF Decoder
  <2>2. decoder.in \in Seq(1 .. LastFrame) /\ decoder.out \in Seq(1 .. LastFrame)
    BY <1>1, PipeIs
  <2>3. decoder' \in Decoder
    <3>1. Append(decoder.in, writer.frame.n) \in Seq(1 .. LastFrame)
      BY <1>2, <2>2, AppendOf
    <3>. QED  BY <1>1, <1>5, <3>1 DEF Decoder
  <2>4. Pipe' = Append(Pipe, writer.frame.n)
    <3>1. decoder.out \o Append(decoder.in, writer.frame.n)
            = Append(decoder.out \o decoder.in, writer.frame.n)
      <4>. DEFINE S == 1 .. LastFrame  a == decoder.out  b == decoder.in  e == writer.frame.n
      <4>1. a \in Seq(S) /\ b \in Seq(S) /\ e \in S
        BY <1>2, <2>2
      <4>. HIDE DEF S, a, b, e
      <4>2. a \o Append(b, e) = Append(a \o b, e)
        BY <4>1, FedOf
      <4>. QED  BY <4>2 DEF a, b, e
    <3>2. Pipe' = decoder'.out \o decoder'.in
      BY DEF Pipe
    <3>. QED  BY <2>1, <3>1, <3>2 DEF Pipe
  <2>5. /\ Len(Pipe') = Len(Pipe) + 1 /\ Pipe'[Len(Pipe) + 1] = writer.frame.n
        /\ \A i \in 1 .. Len(Pipe) : Pipe'[i] = Pipe[i]
    BY <1>2, <1>3, <2>4, AppendOf
  <2>6. Types'
    BY <1>1, <2>3 DEF Types
  <2>7. FramesInOrder' /\ StampsOld'
    BY <1>1, <2>1 DEF FeedInv, FramesInOrder, StampsOld
  <2>8. Begins'
    BY <1>1, <2>1 DEF FeedInv, Begins
  <2>9. PipeStamped'
    <3>1. ASSUME NEW i \in 1 .. Len(Pipe')
          PROVE  /\ decoder.since <= Pipe'[i]
                 /\ i <= Len(stamps) => stamps[i] <= Pipe'[i]
                 /\ i > Len(stamps) => Pipe'[i] = writer.frame.n
      <4>1. CASE i \in 1 .. Len(Pipe)
        BY <1>3, <2>5, <4>1 DEF FeedInv, PipeStamped
      <4>2. CASE i = Len(Pipe) + 1
        <5>1. Pipe'[i] = writer.frame.n
          BY <2>5, <4>2
        <5>2. i <= Len(stamps) => stamps[i] <= writer.frame.n
          BY <1>1, <1>3, <4>2 DEF FeedInv, StampsOld
        <5>. QED  BY <1>2, <5>1, <5>2
      <4>. QED  BY <1>3, <2>5, <4>1, <4>2
    <3>. QED  BY <1>3, <2>1, <2>5, <3>1 DEF PipeStamped
  <2>. QED  BY <2>6, <2>7, <2>8, <2>9 DEF FeedInv
<1>. QED  BY <1>4, <1>5

\* The frame that was fed gets its stamp.
LEMMA FrameStamped ==
  ASSUME FeedInv, writer.pc = "stamp", writer' = Idle,
         stamps' = Append(stamps, writer.frame.n),
         UNCHANGED <<pushed, queue, decoder>>
  PROVE  FeedInv'
<1>1. /\ Types /\ Holds /\ ~Holds' /\ Pipe' = Pipe
      /\ stamps \in Seq(1 .. LastFrame) /\ writer' \in Writer /\ writer'.pc = "recv"
  BY IdleIs DEF FeedInv, Holds, Types, Pipe
<1>2. /\ writer.frame.n \in 1 .. LastFrame /\ writer.frame.n \in Nat
      /\ decoder.since <= writer.frame.n /\ writer.frame.n <= pushed
      /\ \A i \in 1 .. Len(queue) : writer.frame.n < queue[i].n
  BY <1>1 DEF FeedInv, FramesInOrder, Begins, Frame
<1>3. /\ stamps' \in Seq(1 .. LastFrame) /\ Len(stamps') = Len(stamps) + 1
      /\ \A i \in 1 .. Len(stamps) : stamps'[i] = stamps[i]
      /\ stamps'[Len(stamps) + 1] = writer.frame.n
  BY <1>1, <1>2, AppendOf
<1>4. /\ Len(Pipe) \in Nat /\ Len(stamps) \in Nat
      /\ \A i \in 1 .. Len(queue) : queue[i].n \in Nat
  BY <1>1, Numbers
<1>5. \A i \in 1 .. Len(stamps') :
        \/ i \in 1 .. Len(stamps) /\ stamps'[i] = stamps[i]
        \/ i = Len(stamps) + 1 /\ stamps'[i] = writer.frame.n
  BY <1>3, <1>4
<1>6. Types'
  BY <1>1, <1>3 DEF Types
<1>7. FramesInOrder' /\ Begins'
  BY <1>1 DEF FeedInv, FramesInOrder, Begins
<1>8. StampsOld'
  <2>1. \A i \in 1 .. Len(queue) : writer.frame.n <= queue[i].n
    BY <1>2, <1>4
  <2>. QED  BY <1>1, <1>2, <1>5, <2>1 DEF FeedInv, StampsOld
<1>9. PipeStamped'
  <2>1. Len(Pipe) <= Len(stamps')
    BY <1>3, <1>4 DEF FeedInv, PipeStamped
  <2>2. ASSUME NEW i \in 1 .. Len(Pipe)
        PROVE  decoder.since <= Pipe[i] /\ i <= Len(stamps') /\ stamps'[i] <= Pipe[i]
    <3>1. Pipe[i] \in Nat /\ decoder.since <= Pipe[i] /\ i <= Len(stamps')
      BY <1>1, <1>3, <1>4, <2>1, Numbers DEF FeedInv, PipeStamped
    <3>2. CASE i <= Len(stamps)
      <4>1. i \in 1 .. Len(stamps)
        BY <3>2
      <4>. QED  BY <1>3, <3>1, <3>2, <4>1 DEF FeedInv, PipeStamped
    <3>3. CASE i > Len(stamps)
      <4>1. i = Len(stamps) + 1 /\ Pipe[i] = writer.frame.n
        BY <1>3, <1>4, <3>1, <3>3 DEF FeedInv, PipeStamped
      <4>. QED  BY <1>2, <1>3, <3>1, <4>1
    <3>. QED  BY <1>4, <3>2, <3>3
  <2>. QED  BY <1>1, <1>3, <1>4, <2>1, <2>2 DEF PipeStamped
<1>. QED  BY <1>6, <1>7, <1>8, <1>9 DEF FeedInv

\* The decoder turns a frame into a picture.
LEMMA FrameDecoded ==
  ASSUME FeedInv, decoder.in # <<>>,
         decoder' = [decoder EXCEPT !.in = Tail(@), !.out = Append(@, Head(decoder.in))],
         UNCHANGED <<pushed, queue, writer, stamps>>
  PROVE  FeedInv'
<1>1. Types /\ decoder \in Decoder /\ Holds' = Holds
  BY DEF FeedInv, Types, Holds
<1>2. decoder.in \in Seq(1 .. LastFrame) /\ decoder.out \in Seq(1 .. LastFrame)
  BY <1>1, PipeIs
<1>3. Tail(decoder.in) \in Seq(1 .. LastFrame) /\ Head(decoder.in) \in 1 .. LastFrame
  BY <1>2, TailOf
<1>4. Append(decoder.out, Head(decoder.in)) \in Seq(1 .. LastFrame)
  BY <1>2, <1>3, AppendOf
<1>5. /\ decoder'.in = Tail(decoder.in) /\ decoder'.since = decoder.since
      /\ decoder'.out = Append(decoder.out, Head(decoder.in))
      /\ decoder'.state = decoder.state
  BY <1>1 DEF Decoder
<1>6. decoder' \in Decoder
  BY <1>1, <1>3, <1>4 DEF Decoder
<1>7. Pipe' = Pipe
  <2>1. Append(decoder.out, Head(decoder.in)) \o Tail(decoder.in) = decoder.out \o decoder.in
    BY <1>2, ShiftOf
  <2>2. Pipe' = decoder'.out \o decoder'.in
    BY DEF Pipe
  <2>. QED  BY <1>5, <2>1, <2>2 DEF Pipe
<1>8. Types'
  BY <1>1, <1>6 DEF Types
<1>9. FramesInOrder' /\ Begins' /\ StampsOld'
  BY <1>1, <1>5, <1>7 DEF FeedInv, FramesInOrder, Begins, StampsOld
<1>10. PipeStamped'
  BY <1>5, <1>7 DEF FeedInv, PipeStamped
<1>. QED  BY <1>8, <1>9, <1>10 DEF FeedInv

\* The reader takes the oldest picture and the oldest stamp.
LEMMA PictureRead ==
  ASSUME FeedInv, decoder.out # <<>>, decoder' = [decoder EXCEPT !.out = Tail(@)],
         stamps' = IF stamps = <<>> THEN stamps ELSE Tail(stamps),
         UNCHANGED <<pushed, queue, writer>>
  PROVE  /\ FeedInv'
         /\ [n |-> Head(decoder.out), since |-> decoder.since,
             stamp |-> IF stamps = <<>> THEN 0 ELSE Head(stamps)] \in RightPicture
<1>1. Types /\ decoder \in Decoder /\ Holds' = Holds
  BY DEF FeedInv, Types, Holds
<1>2. decoder.in \in Seq(1 .. LastFrame) /\ decoder.out \in Seq(1 .. LastFrame)
  BY <1>1, PipeIs
<1>3. Tail(decoder.out) \in Seq(1 .. LastFrame) /\ Head(decoder.out) \in 1 .. LastFrame
  BY <1>2, TailOf
<1>4. /\ decoder'.in = decoder.in /\ decoder'.since = decoder.since
      /\ decoder'.out = Tail(decoder.out) /\ decoder'.state = decoder.state
      /\ decoder' \in Decoder
  BY <1>1, <1>3 DEF Decoder
<1>5. Pipe' = Tail(Pipe) /\ Pipe # <<>> /\ Head(Pipe) = Head(decoder.out)
  <2>1. /\ Tail(decoder.out) \o decoder.in = Tail(decoder.out \o decoder.in)
        /\ decoder.out \o decoder.in # <<>>
        /\ Head(decoder.out \o decoder.in) = Head(decoder.out)
    BY <1>2, TakenOf
  <2>2. Pipe' = decoder'.out \o decoder'.in
    BY DEF Pipe
  <2>. QED  BY <1>4, <2>1, <2>2 DEF Pipe
<1>6. /\ Pipe \in Seq(1 .. LastFrame) /\ Len(Pipe) \in Nat /\ Len(stamps) \in Nat
      /\ stamps \in Seq(1 .. LastFrame) /\ decoder.since \in Nat /\ LastFrame \in Nat
  BY <1>1, PipeIs, Numbers DEF Types
<1>7. /\ Pipe' \in Seq(1 .. LastFrame) /\ Head(Pipe) = Pipe[1] /\ Len(Pipe) >= 1
      /\ Len(Pipe') = Len(Pipe) - 1 /\ Len(Pipe') \in Nat
      /\ \A i \in 1 .. Len(Pipe') : i + 1 \in 1 .. Len(Pipe) /\ Pipe'[i] = Pipe[i + 1]
  <2>1. /\ Pipe' \in Seq(1 .. LastFrame) /\ Head(Pipe) = Pipe[1] /\ Len(Pipe) >= 1
        /\ Len(Pipe') = Len(Pipe) - 1
        /\ \A i \in 1 .. Len(Pipe') : Pipe'[i] = Pipe[i + 1]
    BY <1>5, <1>6, TailOf
  <2>2. Len(Pipe') \in Nat
    BY <2>1, ElementOf
  <2>3. \A x, y \in Nat : x = y - 1 => \A i \in 1 .. x : i + 1 \in 1 .. y
    OBVIOUS
  <2>4. \A i \in 1 .. Len(Pipe') : i + 1 \in 1 .. Len(Pipe)
    BY <1>6, <2>1, <2>2, <2>3, Zenon
  <2>. QED  BY <2>1, <2>2, <2>4
<1>8. 1 \in 1 .. Len(Pipe) /\ decoder.since <= Pipe[1] /\ decoder.since >= 1
  BY <1>5, <1>6, <1>7, SMTT(30) DEF FeedInv, PipeStamped, Begins
<1>9. CASE stamps = <<>>
  <2>1. Len(stamps) = 0 /\ stamps' = stamps
    BY <1>9
  <2>2. Len(Pipe') = 0
    BY <1>6, <1>7, <2>1 DEF FeedInv, PipeStamped
  <2>3. Types'
    BY <1>1, <1>4, <2>1 DEF Types
  <2>4. FramesInOrder' /\ Begins' /\ StampsOld'
    BY <1>1, <1>4, <1>8, <2>1 DEF FeedInv, FramesInOrder, Begins, StampsOld
  <2>5. PipeStamped'
    BY <1>6, <2>1, <2>2 DEF PipeStamped
  <2>6. decoder.since \in 1 .. LastFrame
    BY <1>1, <1>6, <1>8 DEF Decoder
  <2>7. [n |-> Head(decoder.out), since |-> decoder.since, stamp |-> 0] \in RightPicture
    BY <1>3, <1>6, <2>6 DEF RightPicture, Right, Picture
  <2>. QED  BY <1>9, <2>3, <2>4, <2>5, <2>7 DEF FeedInv
<1>10. CASE stamps # <<>>
  <2>1. /\ stamps' \in Seq(1 .. LastFrame) /\ Head(stamps) = stamps[1] /\ Len(stamps) >= 1
        /\ Head(stamps) \in 1 .. LastFrame
        /\ Len(stamps') = Len(stamps) - 1
        /\ \A i \in 1 .. Len(stamps') : stamps'[i] = stamps[i + 1]
    BY <1>6, <1>10, TailOf
  <2>2. /\ 1 \in 1 .. Len(stamps) /\ Len(stamps') \in Nat
        /\ \A i \in 1 .. Len(stamps') : i + 1 \in 1 .. Len(stamps)
    BY <1>6, <2>1, SMTT(30)
  <2>3. Types'
    BY <1>1, <1>4, <2>1 DEF Types
  <2>4. FramesInOrder' /\ Begins'
    BY <1>1, <1>4, <1>8 DEF FeedInv, FramesInOrder, Begins
  <2>5. StampsOld'
    BY <1>1, <1>4, <2>1, <2>2 DEF FeedInv, StampsOld
  <2>6. PipeStamped'
    <3>1. Len(Pipe') <= Len(stamps') + (IF writer'.pc = "stamp" THEN 1 ELSE 0)
      <4>1. Len(Pipe) <= Len(stamps) + (IF writer.pc = "stamp" THEN 1 ELSE 0)
        BY DEF FeedInv, PipeStamped
      <4>2. \A a, b, c, d \in Nat : \A e \in {0, 1} :
              a <= b + e /\ c = a - 1 /\ d = b - 1 => c <= d + e
        OBVIOUS
      <4>3. (IF writer.pc = "stamp" THEN 1 ELSE 0) \in {0, 1}
        OBVIOUS
      <4>4. Len(Pipe') <= Len(stamps') + (IF writer.pc = "stamp" THEN 1 ELSE 0)
        BY <1>6, <1>7, <2>1, <2>2, <4>1, <4>2, <4>3, Zenon
      <4>. QED  BY <4>4
    <3>2. ASSUME NEW i \in 1 .. Len(Pipe')
          PROVE  /\ decoder.since <= Pipe'[i]
                 /\ i <= Len(stamps') => stamps'[i] <= Pipe'[i]
                 /\ i > Len(stamps') => Pipe'[i] = writer.frame.n
      <4>1. i + 1 \in 1 .. Len(Pipe) /\ Pipe'[i] = Pipe[i + 1] /\ i \in Nat
        BY <1>7
      <4>2. CASE i <= Len(stamps')
        <5>1. i \in 1 .. Len(stamps') /\ i + 1 <= Len(stamps)
          BY <1>6, <2>1, <2>2, <4>1, <4>2
        <5>. QED  BY <2>1, <2>2, <4>1, <4>2, <5>1 DEF FeedInv, PipeStamped
      <4>3. CASE i > Len(stamps')
        <5>1. i + 1 > Len(stamps)
          BY <1>6, <2>1, <2>2, <4>1, <4>3
        <5>. QED  BY <2>2, <4>1, <4>3, <5>1 DEF FeedInv, PipeStamped
      <4>. QED  BY <2>2, <4>1, <4>2, <4>3
    <3>. QED  BY <1>4, <3>1, <3>2 DEF PipeStamped
  <2>7. stamps[1] <= Pipe[1] /\ decoder.since <= stamps[1]
    BY <1>6, <1>8, <2>1, <2>2 DEF FeedInv, PipeStamped, StampsOld
  <2>8. decoder.since \in 1 .. LastFrame
    BY <1>1, <1>6, <1>8 DEF Decoder
  <2>9. [n |-> Head(decoder.out), since |-> decoder.since, stamp |-> Head(stamps)]
          \in RightPicture
    <3>1. Head(decoder.out) = Pipe[1] /\ Head(stamps) \in decoder.since .. Head(decoder.out)
      BY <1>3, <1>5, <1>6, <1>7, <2>1, <2>7
    <3>. QED  BY <1>3, <1>6, <2>1, <2>8, <3>1 DEF RightPicture, Right, Picture
  <2>. QED  BY <1>10, <2>3, <2>4, <2>5, <2>6, <2>9 DEF FeedInv
<1>. QED  BY <1>9, <1>10

LEMMA NoDecoderIs ==
  ASSUME NEW n \in 0 .. LastFrame
  PROVE  /\ NoDecoder \in Decoder /\ NoDecoder.in = <<>> /\ NoDecoder.out = <<>>
         /\ NoDecoder.since = 0 /\ NoDecoder.state = "none"
         /\ LET new == [NoDecoder EXCEPT !.state = "alive", !.since = n]
            IN  new \in Decoder /\ new.in = <<>> /\ new.out = <<>> /\ new.since = n
<1>1. <<>> \in Seq(1 .. LastFrame) /\ 0 \in 0 .. LastFrame
  BY PlaybackAssumption
<1>2. NoDecoder \in Decoder
  BY <1>1 DEF NoDecoder, Decoder
<1>3. [NoDecoder EXCEPT !.state = "alive", !.since = n] \in Decoder
  BY <1>2 DEF Decoder
<1>. QED  BY <1>2, <1>3 DEF NoDecoder

LEMMA WriterKeepsFeed == ASSUME FeedInv, WriterStep PROVE FeedInv'
<1>1. Types /\ writer \in Writer /\ decoder \in Decoder
  BY DEF FeedInv, Types
<1>2. ASSUME WriterTakes PROVE FeedInv'
  <2>1. /\ writer.pc = "recv" /\ queue # <<>> /\ queue' = Tail(queue)
        /\ decoder' = decoder \/ decoder' = Killed
        /\ UNCHANGED <<pushed, stamps>>
        /\ \/ writer' = [pc |-> "leave", frame |-> NoFrame]
           \/ \E pc \in {"join", "feed"} : writer' = [pc |-> pc, frame |-> Head(queue)]
    BY <1>2 DEF WriterTakes, Source
  <2>2. CASE writer' = [pc |-> "leave", frame |-> NoFrame]
    BY <2>1, <2>2, IdleIs, FrameLeft
  <2>3. CASE \E pc \in {"join", "feed"} : writer' = [pc |-> pc, frame |-> Head(queue)]
    BY <2>1, <2>3, FrameTaken
  <2>. QED  BY <2>1, <2>2, <2>3
<1>3. ASSUME WriterFindsClosed PROVE FeedInv'
  <2>1. At("leave") \in Writer /\ At("leave").pc = "leave"
    BY <1>1, AtIs
  <2>. QED  BY <1>3, <2>1, FrameLeft DEF WriterFindsClosed, Source
<1>4. ASSUME WriterRestarts PROVE FeedInv'
  <2>1. /\ Holds /\ writer.frame.n \in 0 .. LastFrame /\ stamps' = <<>>
        /\ UNCHANGED <<pushed, queue>>
    BY <1>1, <1>4, Numbers DEF WriterRestarts, Holds, Source
  <2>2. CASE /\ decoder' = [NoDecoder EXCEPT !.state = "alive", !.since = writer.frame.n]
             /\ writer' = At("feed")
    <3>1. writer' \in Writer /\ writer'.pc = "feed" /\ writer'.frame = writer.frame
      BY <1>1, <2>2, AtIs
    <3>2. /\ decoder' \in Decoder /\ decoder'.in = <<>> /\ decoder'.out = <<>>
          /\ decoder'.since = writer.frame.n
      BY <2>1, <2>2, NoDecoderIs
    <3>. QED  BY <2>1, <3>1, <3>2, DecoderNew
  <2>3. CASE decoder' = NoDecoder /\ writer' = Idle
    <3>1. /\ decoder' \in Decoder /\ decoder'.in = <<>> /\ decoder'.out = <<>>
          /\ decoder'.since = 0 /\ decoder'.state = "none"
      BY <2>1, <2>3, NoDecoderIs
    <3>2. writer' \in Writer /\ ~Holds'
      BY <2>3, IdleIs DEF Holds
    <3>. QED  BY <2>1, <3>1, <3>2, DecoderNew
  <2>. QED  BY <1>4, <2>2, <2>3 DEF WriterRestarts
<1>5. ASSUME WriterSkips \/ WriterFails PROVE FeedInv'
  <2>1. /\ writer.pc = "feed" /\ writer' = Idle
        /\ UNCHANGED <<pushed, queue, decoder, stamps>>
    BY <1>5 DEF WriterSkips, WriterFails, Source
  <2>. QED  BY <2>1, IdleIs, FrameLeft
<1>6. ASSUME WriterFeeds PROVE FeedInv'
  <2>1. /\ writer.pc = "feed" /\ writer' = At("stamp") /\ decoder.state = "alive"
        /\ decoder' = decoder \/ decoder' = [decoder EXCEPT !.in = Append(@, writer.frame.n)]
        /\ UNCHANGED <<pushed, queue, stamps>>
    BY <1>6 DEF WriterFeeds, Source
  <2>2. writer' \in Writer /\ writer'.pc = "stamp" /\ writer'.frame = writer.frame
    BY <1>1, <2>1, AtIs
  <2>. QED  BY <2>1, <2>2, FrameFed
<1>7. ASSUME WriterStamps PROVE FeedInv'
  BY <1>7, FrameStamped DEF WriterStamps, Source
<1>8. ASSUME WriterLeaves PROVE FeedInv'
  <2>1. /\ writer' = At("ended") /\ decoder' = NoDecoder
        /\ UNCHANGED <<pushed, queue, stamps>>
    BY <1>8 DEF WriterLeaves, Source
  <2>2. writer' \in Writer /\ ~Holds'
    BY <1>1, <2>1, AtIs DEF Holds
  <2>3. /\ decoder' \in Decoder /\ decoder'.in = <<>> /\ decoder'.out = <<>>
        /\ decoder'.since = 0 /\ decoder'.state = "none"
    <3>1. 0 \in 0 .. LastFrame
      BY PlaybackAssumption
    <3>. QED  BY <2>1, <3>1, NoDecoderIs
  <2>. QED  BY <2>1, <2>2, <2>3, DecoderNew
<1>. QED  BY <1>2, <1>3, <1>4, <1>5, <1>6, <1>7, <1>8 DEF WriterStep

\* The steps that neither queue, feed nor read.
Elsewhere ==
  \/ PushDropped \/ StopOrDrop \/ CloseQueue \/ StopReturns \/ ReaderEnds
  \/ PacerStep \/ View \/ ViewerLeaves \/ TimePasses

LEMMA FeedStep == ASSUME FeedInv, PlaybackNext PROVE FeedInv'
<1>1. ASSUME Decode PROVE FeedInv'
  BY <1>1, FrameDecoded DEF Decode, Source
<1>2. ASSUME DecoderDies PROVE FeedInv'
  BY <1>2, DecoderStep DEF DecoderDies, Source
<1>3. ASSUME ReaderTakes PROVE FeedInv'
  BY <1>3, PictureRead DEF ReaderTakes, Source
<1>4. ASSUME Elsewhere PROVE FeedInv'
  <2>1. UNCHANGED <<pushed, queue, writer, decoder, stamps>>
    BY <1>4 DEF Elsewhere, PushDropped, StopOrDrop, CloseQueue, StopReturns, ReaderEnds, PacerStep,
                PacerEmits, PacerWaits, PacerReceives, PacerTimesOut, PacerFindsClosed,
                View, ViewerLeaves, TimePasses, Source, Threads
  <2>. QED  BY <2>1, FeedUnchanged
<1>. QED  BY <1>1, <1>2, <1>3, <1>4, FeedPush, WriterKeepsFeed
          DEF PlaybackNext, UserStep, ReaderStep, Elsewhere

-----------------------------------------------------------------------------
(* Playback: showing, by the pacer, its scheduler and the viewer.          *)

\* What is held goes with the clock: it may only be late for a newer time.
LEMMA HeldLater ==
  ASSUME ShowInv, now' \in Int, now' >= now, held' = held
  PROVE  held' \in Seq(HeldPicture) /\ WithinDelay'
<1>1. TargetDelay \in Int
  BY PlaybackAssumption
<1>2. held \in Seq(HeldPicture) /\ now \in Int
  BY DEF ShowInv
<1>3. \A i \in 1 .. Len(held) : held[i].at \in Int
  <2>1. \A i \in 1 .. Len(held) : held[i] \in HeldPicture
    BY <1>2, ElementOf
  <2>. QED  BY <2>1 DEF HeldPicture
<1>4. ASSUME NEW i \in 1 .. Len(held) PROVE held[i].at <= now' + TargetDelay
  <2>1. held[i].at <= now + TargetDelay
    BY DEF ShowInv, WithinDelay
  <2>. QED  BY <1>1, <1>2, <1>3, <2>1
<1>. QED  BY <1>2, <1>4 DEF WithinDelay

\* drop_over_watermark: what is left is in time, and of the same pictures.
LEMMA InTime ==
  ASSUME now \in Int, NEW h \in Seq(HeldPicture),
         \A i \in 1 .. Len(h) - 1 : h[i].at <= now + TargetDelay
  PROVE  /\ Watermarked(h) \in Seq(HeldPicture)
         /\ \A i \in 1 .. Len(Watermarked(h)) : Watermarked(h)[i].at <= now + TargetDelay
<1>. DEFINE T == {i \in 1 .. Len(h) : h[i].at <= now + TargetDelay}
            m == CHOOSE i \in T \cup {0} : \A j \in T : j <= i
<1>1. Len(h) \in Nat
  OBVIOUS
<1>2. \E i \in T \cup {0} : \A j \in T : j <= i
  <2>1. CASE Len(h) \in T
    BY <1>1, <2>1
  <2>2. CASE Len(h) = 0
    BY <2>2
  <2>3. CASE Len(h) = 1 /\ Len(h) \notin T
    BY <1>1, <2>3
  <2>4. CASE Len(h) > 1 /\ Len(h) \notin T
    <3>1. Len(h) - 1 \in 1 .. Len(h) - 1 /\ Len(h) - 1 \in 1 .. Len(h)
      BY <1>1, <2>4
    <3>2. Len(h) - 1 \in T
      BY <3>1
    <3>3. \A j \in T : j <= Len(h) - 1
      BY <1>1, <2>4
    <3>. QED  BY <3>2, <3>3
  <2>. QED  BY <1>1, <2>1, <2>2, <2>3, <2>4
<1>3. m \in T \cup {0} /\ \A j \in T : j <= m
  BY <1>2
<1>4. Watermarked(h) = SubSeq(h, 1, m)
  BY DEF Watermarked
<1>. HIDE DEF m
<1>5. m \in 0 .. Len(h)
  BY <1>1, <1>3
<1>6. /\ SubSeq(h, 1, m) \in Seq(HeldPicture) /\ Len(SubSeq(h, 1, m)) = m
      /\ \A i \in 1 .. m : SubSeq(h, 1, m)[i] = h[i]
  BY <1>1, <1>5
<1>7. ASSUME NEW i \in 1 .. m PROVE h[i].at <= now + TargetDelay
  <2>1. CASE i = m
    BY <1>3, <1>5, <2>1
  <2>2. CASE i < m
    <3>1. i \in 1 .. Len(h) - 1
      BY <1>1, <1>5, <2>2
    <3>. QED  BY <3>1
  <2>. QED  BY <1>5, <2>1, <2>2
<1>. QED  BY <1>4, <1>6, <1>7

\* What the pacer holds has the properties of held.
Holding(h) ==
  h \in Seq(HeldPicture) /\ \A i \in 1 .. Len(h) : h[i].at <= now + TargetDelay

LEMMA ShowUnchanged == ASSUME ShowInv, UNCHANGED <<Show, now>> PROVE ShowInv'
BY DEF Show, ShowInv, WithinDelay

\* The due picture goes to the viewer, or the pacer ends.
LEMMA EmitKeepsShow == ASSUME ShowInv, PacerEmits PROVE ShowInv'
<1>1. /\ sched \in Seq(RightPicture) /\ shown \in Seq(RightPicture)
      /\ held \in Seq(HeldPicture) /\ held # <<>> /\ held' = Tail(held)
      /\ now \in Int /\ now' = now /\ anchor' = anchor
  BY DEF PacerEmits, Due, World, ShowInv
<1>2. /\ Tail(held) \in Seq(HeldPicture) /\ Head(held) \in HeldPicture
      /\ Len(held) \in Nat /\ Len(held) >= 1 /\ Len(Tail(held)) = Len(held) - 1
      /\ \A i \in 1 .. Len(Tail(held)) : Tail(held)[i] = held[i + 1]
  BY <1>1, TailOf
<1>3. Head(held).picture \in RightPicture
  BY <1>2 DEF HeldPicture
<1>4. sched' \in Seq(RightPicture) /\ shown' \in Seq(RightPicture)
  <2>1. CASE shown' = Append(shown, Head(held).picture) /\ sched' = sched
    BY <1>1, <1>3, <2>1, AppendOf
  <2>2. CASE shown' = shown /\ sched' = <<>>
    BY <1>1, <2>2
  <2>. QED  BY <2>1, <2>2 DEF PacerEmits
<1>5. WithinDelay'
  <2>1. ASSUME NEW i \in 1 .. Len(held') PROVE held'[i].at <= now + TargetDelay
    <3>1. i + 1 \in 1 .. Len(held) /\ held'[i] = held[i + 1]
      BY <1>1, <1>2
    <3>. QED  BY <3>1 DEF ShowInv, WithinDelay
  <2>. QED  BY <1>1, <2>1 DEF WithinDelay
<1>. QED  BY <1>1, <1>2, <1>4, <1>5 DEF ShowInv

\* A picture is held until it is due: the last one may be too late to be.
LEMMA HeldNext ==
  ASSUME ShowInv, NEW p \in HeldPicture
  PROVE  Holding(Watermarked(held)) /\ Holding(Watermarked(Append(held, p)))
<1>1. held \in Seq(HeldPicture) /\ Len(held) \in Nat /\ now \in Int
  BY ElementOf DEF ShowInv
<1>2. \A i \in 1 .. Len(held) : held[i].at <= now + TargetDelay
  BY DEF ShowInv, WithinDelay
<1>3. Holding(Watermarked(held))
  <2>1. \A i \in 1 .. Len(held) - 1 : held[i].at <= now + TargetDelay
    BY <1>1, <1>2
  <2>. QED  BY <1>1, <2>1, InTime DEF Holding
<1>4. Holding(Watermarked(Append(held, p)))
  <2>1. /\ Append(held, p) \in Seq(HeldPicture) /\ Len(Append(held, p)) = Len(held) + 1
        /\ \A i \in 1 .. Len(held) : Append(held, p)[i] = held[i]
    BY <1>1, AppendOf
  <2>2. \A i \in 1 .. Len(Append(held, p)) - 1 :
          Append(held, p)[i].at <= now + TargetDelay
    BY <1>1, <1>2, <2>1
  <2>. QED  BY <1>1, <2>1, <2>2, InTime DEF Holding
<1>. QED  BY <1>3, <1>4

\* The scheduler takes a picture.
LEMMA ReceiveKeepsShow == ASSUME ShowInv, PacerReceives PROVE ShowInv'
<1>1. /\ sched \in Seq(RightPicture) /\ shown \in Seq(RightPicture) /\ sched # <<>>
      /\ held \in Seq(HeldPicture) /\ now \in Int /\ now' = now /\ shown' = shown
      /\ anchor \in [stamp : 0 .. LastFrame, at : Int]
  BY DEF PacerReceives, World, ShowInv
<1>. DEFINE p == Head(sched)
            fresh == [stamp |-> p.stamp, at |-> now]
            at == anchor.at + (p.stamp - anchor.stamp)
<1>2. p \in RightPicture /\ Tail(sched) \in Seq(RightPicture)
  BY <1>1, TailOf
<1>3. LastFrame \in Nat /\ TargetDelay \in Nat
  BY PlaybackAssumption
<1>4. p.stamp \in 0 .. LastFrame /\ p.stamp \in Int
  BY <1>2, <1>3 DEF RightPicture, Picture
<1>5. anchor.stamp \in Int /\ anchor.at \in Int
  BY <1>1, <1>3
<1>6. [picture |-> p, at |-> now] \in HeldPicture /\ [picture |-> p, at |-> at] \in HeldPicture
  BY <1>1, <1>2, <1>4, <1>5 DEF HeldPicture
<1>7. \/ anchor' = fresh /\ held' = <<[picture |-> p, at |-> now]>>
      \/ anchor' = anchor /\ held' = Watermarked(held)
      \/ anchor' = anchor /\ held' = Watermarked(Append(held, [picture |-> p, at |-> at]))
  BY DEF PacerReceives
<1>8. sched' \in Seq(RightPicture)
  <2>1. <<>> \in Seq(RightPicture)
    OBVIOUS
  <2>. QED  BY <1>2, <2>1 DEF PacerReceives
<1>9. fresh \in [stamp : 0 .. LastFrame, at : Int]
  BY <1>1, <1>4
<1>. HIDE DEF p, fresh, at
<1>10. Holding(held') /\ anchor' \in [stamp : 0 .. LastFrame, at : Int]
  <2>1. CASE anchor' = fresh /\ held' = <<[picture |-> p, at |-> now]>>
    <3>. DEFINE one == [picture |-> p, at |-> now]
    <3>1. one \in HeldPicture /\ one.at = now
      BY <1>6
    <3>. HIDE DEF one
    <3>2. <<one>> \in Seq(HeldPicture) /\ \A i \in 1 .. Len(<<one>>) : <<one>>[i].at = now
      BY <3>1
    <3>3. held' = <<one>>
      BY <2>1 DEF one
    <3>4. Holding(held')
      BY <1>1, <1>3, <3>2, <3>3 DEF Holding
    <3>. QED  BY <1>9, <2>1, <3>4
  <2>2. CASE anchor' = anchor /\ held' = Watermarked(held)
    BY <1>1, <1>6, <2>2, HeldNext
  <2>3. CASE /\ anchor' = anchor
             /\ held' = Watermarked(Append(held, [picture |-> p, at |-> at]))
    BY <1>1, <1>6, <2>3, HeldNext
  <2>. QED  BY <1>7, <2>1, <2>2, <2>3
<1>. QED  BY <1>1, <1>8, <1>10 DEF ShowInv, WithinDelay, Holding

\* The reader gives a picture to the pacer.
LEMMA ReadKeepsShow == ASSUME FeedInv, ShowInv, ReaderTakes PROVE ShowInv'
<1>. DEFINE p == [n |-> Head(decoder.out), since |-> decoder.since,
                  stamp |-> IF stamps = <<>> THEN 0 ELSE Head(stamps)]
<1>1. p \in RightPicture
  BY PictureRead DEF ReaderTakes, Source
<1>2. sched' = sched \/ sched' = Append(sched, p)
  BY DEF ReaderTakes
<1>3. UNCHANGED <<anchor, held, shown, now>>
  BY DEF ReaderTakes, World
<1>. HIDE DEF p
<1>4. sched' \in Seq(RightPicture)
  <2>1. sched \in Seq(RightPicture)
    BY DEF ShowInv
  <2>2. Append(sched, p) \in Seq(RightPicture)
    BY <1>1, <2>1, AppendOf
  <2>. QED  BY <1>2, <2>1, <2>2
<1>. QED  BY <1>3, <1>4 DEF ShowInv, WithinDelay

LEMMA ShowStep == ASSUME FeedInv, ShowInv, PlaybackNext PROVE ShowInv'
<1>1. ASSUME PacerWaits \/ PacerTimesOut \/ PacerFindsClosed PROVE ShowInv'
  <2>1. UNCHANGED <<sched, anchor, held, shown, now>>
    BY <1>1 DEF PacerWaits, PacerTimesOut, PacerFindsClosed, World
  <2>. QED  BY <2>1 DEF ShowInv, WithinDelay
<1>2. ASSUME View \/ ViewerLeaves PROVE ShowInv'
  <2>1. shown' \in Seq(RightPicture)
    <3>1. ASSUME NEW s \in Seq(RightPicture), s # <<>> PROVE Tail(s) \in Seq(RightPicture)
      BY <3>1, TailOf
    <3>2. shown' = <<>> \/ (shown # <<>> /\ shown' = Tail(shown))
      BY <1>2 DEF View, ViewerLeaves
    <3>3. shown \in Seq(RightPicture) /\ <<>> \in Seq(RightPicture)
      BY DEF ShowInv
    <3>. QED  BY <3>1, <3>2, <3>3, Zenon
  <2>2. UNCHANGED <<sched, anchor, held, now>>
    BY <1>2 DEF View, ViewerLeaves, World
  <2>. QED  BY <2>1, <2>2 DEF ShowInv, WithinDelay
<1>3. ASSUME TimePasses PROVE ShowInv'
  <2>1. UNCHANGED <<sched, anchor, held, shown>> /\ now' \in Int /\ now' >= now
    BY <1>3 DEF TimePasses, Show, ShowInv
  <2>. QED  BY <2>1, HeldLater DEF ShowInv
<1>4. ASSUME UNCHANGED <<Show, now>> PROVE ShowInv'
  BY <1>4, ShowUnchanged
<1>5. \/ UNCHANGED <<Show, now>>
      \/ ReaderTakes \/ PacerEmits \/ PacerReceives
      \/ PacerWaits \/ PacerTimesOut \/ PacerFindsClosed
      \/ View \/ ViewerLeaves \/ TimePasses
  BY DEF PlaybackNext, UserStep, WriterStep, ReaderStep, PacerStep, World, PushFrame, PushDropped, StopOrDrop,
         CloseQueue, StopReturns, WriterTakes, WriterFindsClosed, WriterRestarts, WriterSkips,
         WriterFails, WriterFeeds, WriterStamps, WriterLeaves, Decode, DecoderDies, ReaderEnds
<1>. QED  BY <1>1, <1>2, <1>3, <1>4, <1>5, ReadKeepsShow, EmitKeepsShow, ReceiveKeepsShow

-----------------------------------------------------------------------------
(* Playback: what the viewer is shown.                                     *)

LEMMA PlayInit == ASSUME PlaybackInit PROVE PlayInv
<1>1. LastFrame \in Nat /\ 0 \in 0 .. LastFrame
  BY PlaybackAssumption
<1>2. Types
  <2>1. writer \in Writer
    BY IdleIs DEF PlaybackInit
  <2>2. decoder \in Decoder
    BY <1>1, NoDecoderIs DEF PlaybackInit
  <2>. QED  BY <1>1, <2>1, <2>2 DEF PlaybackInit, Types
<1>3. ~Holds /\ Pipe = <<>> /\ decoder.since = 0 /\ decoder.state = "none"
  <2>1. NoDecoder.in = <<>> /\ NoDecoder.out = <<>>
    BY DEF NoDecoder
  <2>2. \A a, b : a = <<>> /\ b = <<>> => a \o b = <<>>
    OBVIOUS
  <2>3. Pipe = <<>>
    BY <2>1, <2>2 DEF PlaybackInit, Pipe
  <2>. QED  BY <2>3, IdleIs DEF PlaybackInit, Holds, NoDecoder
<1>4. FramesInOrder /\ Begins /\ StampsOld /\ PipeStamped
  BY <1>3 DEF PlaybackInit, FramesInOrder, Begins, StampsOld, PipeStamped
<1>5. ShowInv
  <2>1. NoAnchor \in [stamp : 0 .. LastFrame, at : Int]
    BY <1>1 DEF NoAnchor
  <2>. QED  BY <2>1 DEF PlaybackInit, ShowInv, WithinDelay
<1>. QED  BY <1>2, <1>4, <1>5 DEF PlayInv, FeedInv

LEMMA PlayStep == PlayInv /\ [PlaybackNext]_playbackVars => PlayInv'
<1>1. ASSUME PlayInv, PlaybackNext PROVE PlayInv'
  BY <1>1, FeedStep, ShowStep DEF PlayInv
<1>2. ASSUME PlayInv, UNCHANGED playbackVars PROVE PlayInv'
  <2>1. UNCHANGED <<Show, now>> /\ UNCHANGED <<pushed, queue, writer, decoder, stamps>>
    BY <1>2 DEF playbackVars, Show
  <2>. QED  BY <1>2, <2>1, FeedUnchanged, ShowUnchanged DEF PlayInv
<1>. QED  BY <1>1, <1>2

LEMMA PlayRight == ASSUME PlayInv PROVE PacedRight
<1>1. WithinDelay
  BY DEF PlayInv, ShowInv
<1>2. Pictures \subseteq RightPicture
  <2>1. ToSet(sched) \subseteq RightPicture
    BY ElementOf DEF PlayInv, ShowInv, ToSet
  <2>2. ToSet(shown) \subseteq RightPicture
    BY ElementOf DEF PlayInv, ShowInv, ToSet
  <2>3. {held[i].picture : i \in 1 .. Len(held)} \subseteq RightPicture
    <3>1. \A i \in 1 .. Len(held) : held[i] \in HeldPicture
      BY ElementOf DEF PlayInv, ShowInv
    <3>. QED  BY <3>1 DEF HeldPicture
  <2>. QED  BY <2>1, <2>2, <2>3 DEF Pictures
<1>3. StampOfThisDecoder
  BY <1>2 DEF StampOfThisDecoder, RightPicture, Right
<1>. QED  BY <1>1, <1>3 DEF PacedRight

\* Whatever dies and restarts when, and however often the clock starts anew: no
\* picture passes for a frame of another decoder or for one to come, and none is
\* held for longer than the pacing allows (playback/ffmpeg.rs, pacing.rs).
THEOREM PlaybackPaced == PlaybackSpec => []PacedRight
<1>1. PlaybackInit => PlayInv
  BY PlayInit
<1>2. PlayInv /\ [PlaybackNext]_playbackVars => PlayInv'
  BY PlayStep
<1>3. PlayInv => PacedRight
  BY PlayRight
<1>. QED  BY <1>1, <1>2, <1>3, PTL DEF PlaybackSpec

-----------------------------------------------------------------------------
(* Playback: the types.                                                    *)

\* What the user, the threads and the viewer are doing.
Flags ==
  /\ session \in {"open", "stopping", "joining", "stopped", "dropping", "dropped"}
  /\ dropping \in BOOLEAN /\ stopped \in BOOLEAN /\ closed \in BOOLEAN
  /\ resync \in BOOLEAN /\ viewer \in BOOLEAN
  /\ reader \in {"none", "running", "ended"} /\ pacer \in {"emit", "wait", "ended"}

\* No channel holds more than it has room for.
Bounded ==
  /\ Len(queue) <= PushCap /\ Len(sched) <= ShowCap /\ Len(shown) <= ShowCap
  /\ faults \in 0 .. MaxFaults /\ now \in 0 .. MaxTime

LEMMA FlagsStep == ASSUME Flags, PlaybackNext PROVE Flags'
<1>1. ASSUME PushFrame \/ PushDropped \/ StopOrDrop \/ CloseQueue \/ StopReturns PROVE Flags'
  BY <1>1 DEF Flags, PushFrame, PushDropped, StopOrDrop, CloseQueue, StopReturns, Threads,
              Source, Show, World
<1>2. ASSUME WriterStep PROVE Flags'
  BY <1>2 DEF Flags, WriterStep, WriterTakes, WriterFindsClosed, WriterRestarts, WriterSkips,
              WriterFeeds, WriterFails, WriterStamps, WriterLeaves, Source, Show
<1>3. ASSUME Decode \/ DecoderDies \/ TimePasses PROVE Flags'
  BY <1>3 DEF Flags, Decode, DecoderDies, TimePasses, Source, Threads, Show
<1>4. ASSUME ReaderTakes PROVE Flags'
  BY <1>4 DEF Flags, ReaderTakes, Source
<1>5. ASSUME ReaderEnds PROVE Flags'
  BY <1>5 DEF Flags, ReaderEnds, Source, Show
<1>6. ASSUME PacerStep PROVE Flags'
  BY <1>6 DEF Flags, PacerStep, PacerEmits, PacerWaits, PacerReceives, PacerTimesOut,
              PacerFindsClosed, PacerLooks, Source, Threads
<1>7. ASSUME View \/ ViewerLeaves PROVE Flags'
  BY <1>7 DEF Flags, View, ViewerLeaves, Source, Threads
<1>. QED  BY <1>1, <1>2, <1>3, <1>4, <1>5, <1>6, <1>7
          DEF PlaybackNext, UserStep, ReaderStep

\* A channel takes no more than it has room for, and gives one at a time.
LEMMA ChannelRoom ==
  ASSUME NEW S, NEW s \in Seq(S), NEW t, NEW cap \in Nat, Len(s) <= cap,
         \/ t = s \/ t = <<>> \/ (s # <<>> /\ t = Tail(s))
         \/ Len(s) < cap /\ \E e \in S : t = Append(s, e)
  PROVE  Len(t) <= cap
<1>1. Len(s) \in Nat
  OBVIOUS
<1>2. ASSUME s # <<>> PROVE Len(Tail(s)) <= cap
  BY <1>1, <1>2, TailOf
<1>3. ASSUME NEW e \in S, Len(s) < cap PROVE Len(Append(s, e)) <= cap
  BY <1>1, <1>3, AppendOf
<1>4. Len(<<>>) <= cap
  OBVIOUS
<1>. QED  BY <1>2, <1>3, <1>4, Zenon

LEMMA QueueRoom == ASSUME PlayInv, Bounded, PlaybackNext PROVE Len(queue') <= PushCap
<1>1. queue \in Seq(Frame) /\ pushed \in 0 .. LastFrame
  BY DEF PlayInv, FeedInv, Types
<1>2. PushCap \in Nat
  BY PlaybackAssumption
<1>3. ASSUME NEW k \in Kind, pushed < LastFrame
      PROVE  [n |-> pushed + 1, kind |-> k] \in Frame
  BY <1>1, <1>3, PlaybackAssumption DEF Frame
<1>4. \/ queue' = queue \/ (queue # <<>> /\ queue' = Tail(queue))
      \/ /\ Len(queue) < PushCap /\ pushed < LastFrame
         /\ \E k \in Kind : queue' = Append(queue, [n |-> pushed + 1, kind |-> k])
  BY DEF PlaybackNext, UserStep, WriterStep, ReaderStep, PacerStep, PushFrame, PushDropped,
         StopOrDrop, CloseQueue, StopReturns, WriterTakes, WriterFindsClosed,
         WriterRestarts, WriterSkips, WriterFeeds, WriterFails, WriterStamps, WriterLeaves,
         Decode, DecoderDies, ReaderTakes, ReaderEnds, PacerEmits, PacerWaits,
         PacerReceives, PacerTimesOut, PacerFindsClosed, View, ViewerLeaves, TimePasses,
         Threads
<1>5. \/ queue' = queue \/ (queue # <<>> /\ queue' = Tail(queue))
      \/ Len(queue) < PushCap /\ \E e \in Frame : queue' = Append(queue, e)
  BY <1>3, <1>4
<1>. QED  BY <1>1, <1>2, <1>5, ChannelRoom DEF Bounded

LEMMA ShowRoom ==
  ASSUME PlayInv, Bounded, PlaybackNext
  PROVE  Len(sched') <= ShowCap /\ Len(shown') <= ShowCap
<1>1. /\ sched \in Seq(RightPicture) /\ shown \in Seq(RightPicture)
      /\ held \in Seq(HeldPicture) /\ ShowCap \in Nat
  BY PlaybackAssumption DEF PlayInv, ShowInv
<1>2. held # <<>> => Head(held).picture \in RightPicture
  <2>1. held # <<>> => Head(held) \in HeldPicture
    BY <1>1, TailOf
  <2>. QED  BY <2>1 DEF HeldPicture
<1>3. \/ sched' = sched \/ sched' = <<>> \/ (sched # <<>> /\ sched' = Tail(sched))
      \/ Len(sched) < ShowCap /\ \E e \in RightPicture : sched' = Append(sched, e)
  <2>1. CASE ReaderTakes
    <3>. DEFINE e == [n |-> Head(decoder.out), since |-> decoder.since,
                      stamp |-> IF stamps = <<>> THEN 0 ELSE Head(stamps)]
    <3>1. e \in RightPicture
      BY <2>1, PictureRead DEF ReaderTakes, Source, PlayInv
    <3>2. sched' = sched \/ (Len(sched) < ShowCap /\ sched' = Append(sched, e))
      BY <2>1 DEF ReaderTakes
    <3>. HIDE DEF e
    <3>. QED  BY <3>1, <3>2
  <2>2. CASE ~ReaderTakes
    BY <2>2 DEF PlaybackNext, UserStep, WriterStep, ReaderStep, PacerStep, PushFrame,
         PushDropped, StopOrDrop, CloseQueue, StopReturns, WriterTakes, WriterFindsClosed,
         WriterRestarts, WriterSkips, WriterFeeds, WriterFails, WriterStamps, WriterLeaves,
         Decode, DecoderDies, ReaderEnds, PacerEmits, PacerWaits, PacerReceives,
         PacerTimesOut, PacerFindsClosed, View, ViewerLeaves, TimePasses, Show
  <2>. QED  BY <2>1, <2>2
<1>4. \/ shown' = shown \/ shown' = <<>> \/ (shown # <<>> /\ shown' = Tail(shown))
      \/ Len(shown) < ShowCap /\ \E e \in RightPicture : shown' = Append(shown, e)
  <2>1. CASE PacerEmits
    BY <1>2, <2>1 DEF PacerEmits, Due
  <2>2. CASE ~PacerEmits
    BY <2>2 DEF PlaybackNext, UserStep, WriterStep, ReaderStep, PacerStep, PushFrame,
         PushDropped, StopOrDrop, CloseQueue, StopReturns, WriterTakes, WriterFindsClosed,
         WriterRestarts, WriterSkips, WriterFeeds, WriterFails, WriterStamps, WriterLeaves,
         Decode, DecoderDies, ReaderTakes, ReaderEnds, PacerWaits, PacerReceives,
         PacerTimesOut, PacerFindsClosed, View, ViewerLeaves, TimePasses, Show
  <2>. QED  BY <2>1, <2>2
<1>5. Len(sched') <= ShowCap
  BY <1>1, <1>3, ChannelRoom DEF Bounded
<1>6. Len(shown') <= ShowCap
  BY <1>1, <1>4, ChannelRoom DEF Bounded
<1>. QED  BY <1>5, <1>6

LEMMA BoundedStep == ASSUME PlayInv, Bounded, PlaybackNext PROVE Bounded'
<1>1. MaxFaults \in Nat /\ MaxTime \in Nat
  BY PlaybackAssumption
<1>2. faults' = faults \/ (faults < MaxFaults /\ faults' = faults + 1)
  BY DEF PlaybackNext, UserStep, WriterStep, ReaderStep, PacerStep, PushFrame, PushDropped,
         StopOrDrop, CloseQueue, StopReturns, WriterTakes, WriterFindsClosed,
         WriterRestarts, WriterSkips, WriterFeeds, WriterFails, WriterStamps, WriterLeaves,
         Decode, DecoderDies, ReaderTakes, ReaderEnds, PacerEmits, PacerWaits,
         PacerReceives, PacerTimesOut, PacerFindsClosed, View, ViewerLeaves, TimePasses,
         World
<1>3. now' = now \/ (now < MaxTime /\ now' = now + 1)
  BY DEF PlaybackNext, UserStep, WriterStep, ReaderStep, PacerStep, PushFrame, PushDropped,
         StopOrDrop, CloseQueue, StopReturns, WriterTakes, WriterFindsClosed,
         WriterRestarts, WriterSkips, WriterFeeds, WriterFails, WriterStamps, WriterLeaves,
         Decode, DecoderDies, ReaderTakes, ReaderEnds, PacerEmits, PacerWaits,
         PacerReceives, PacerTimesOut, PacerFindsClosed, View, ViewerLeaves, TimePasses,
         World
<1>4. faults' \in 0 .. MaxFaults /\ now' \in 0 .. MaxTime
  BY <1>1, <1>2, <1>3 DEF Bounded
<1>. QED  BY <1>4, QueueRoom, ShowRoom DEF Bounded

LEMMA PlaybackTyped == ASSUME PlayInv, Flags, Bounded PROVE PlaybackTypeOK
<1>1. /\ pushed \in 0 .. LastFrame /\ queue \in Seq(Frame) /\ stamps \in Seq(1 .. LastFrame)
      /\ writer \in Writer /\ decoder \in Decoder
  BY DEF PlayInv, FeedInv, Types
<1>2. /\ sched \in Seq(RightPicture) /\ shown \in Seq(RightPicture)
      /\ held \in Seq(HeldPicture)
  BY DEF PlayInv, ShowInv
<1>3. RightPicture \subseteq Picture
  BY DEF RightPicture
<1>4. sched \in Seq(Picture) /\ shown \in Seq(Picture)
  <2>1. ASSUME NEW s \in Seq(RightPicture) PROVE s \in Seq(Picture)
    BY <1>3
  <2>. QED  BY <1>2, <2>1
<1>5. \A i \in 1 .. Len(held) : held[i].picture \in Picture /\ held[i].at \in Int
  <2>1. \A i \in 1 .. Len(held) : held[i] \in HeldPicture
    BY <1>2, ElementOf
  <2>. QED  BY <1>3, <2>1 DEF HeldPicture
<1>6. /\ writer.pc \in {"recv", "join", "feed", "stamp", "leave", "ended"}
      /\ writer.frame \in Frame \cup {NoFrame} /\ decoder.state \in {"none", "alive", "dead"}
  BY <1>1 DEF Writer, Decoder
<1>. QED  BY <1>1, <1>4, <1>5, <1>6 DEF PlaybackTypeOK, Flags, Bounded

\* Every variable of a playback session keeps its type, and no channel between
\* its threads grows beyond its capacity, for every capacity and source.
THEOREM PlaybackTypeCorrect == PlaybackSpec => []PlaybackTypeOK
<1>. DEFINE Inv == PlayInv /\ Flags /\ Bounded
<1>1. PlaybackInit => Inv
  <2>1. PlaybackInit => Flags
    BY DEF PlaybackInit, Flags
  <2>2. PlaybackInit => Bounded
    <3>1. {PushCap, ShowCap, MaxFaults, MaxTime} \subseteq Nat
      BY PlaybackAssumption
    <3>2. Len(<<>>) = 0
      OBVIOUS
    <3>. QED  BY <3>1, <3>2 DEF PlaybackInit, Bounded
  <2>. QED  BY <2>1, <2>2, PlayInit
<1>2. Inv /\ [PlaybackNext]_playbackVars => Inv'
  <2>1. ASSUME Inv, PlaybackNext PROVE Inv'
    BY <2>1, PlayStep, FlagsStep, BoundedStep
  <2>2. ASSUME Inv, UNCHANGED playbackVars PROVE Inv'
    <3>1. Flags' /\ Bounded'
      BY <2>2 DEF playbackVars, Flags, Bounded
    <3>. QED  BY <2>2, <3>1, PlayStep
  <2>. QED  BY <2>1, <2>2
<1>3. Inv => PlaybackTypeOK
  BY PlaybackTyped
<1>. QED  BY <1>1, <1>2, <1>3, PTL DEF PlaybackSpec

=============================================================================
