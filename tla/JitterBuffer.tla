---------------------------- MODULE JitterBuffer ----------------------------
(***************************************************************************)
(* The reordering buffer of a receiver, for one track of a stream that     *)
(* comes over a lossy transport (stross-pick: buffer.rs, and the           *)
(* StreamChannel and RealtimePacing of registry.rs and interpret.rs that   *)
(* drive it; the loop is receiver.rs's).                                   *)
(*                                                                         *)
(* A source numbers its frames consecutively; the network loses, repeats   *)
(* and, within a window, reorders them.  Whenever a packet of the stream   *)
(* arrives, of this track or another, the receiver pushes it and polls     *)
(* until nothing comes out.  The buffer is written for frames that bear    *)
(* the numbers of their source; StreamChannel, which drives it, gives      *)
(* every packet a new number as it arrives.  Both are modelled: a packet   *)
(* is known to the buffer by its place, in the source or among the         *)
(* arrivals, and the numbers of the places wrap around.                    *)
(***************************************************************************)
EXTENDS Integers, Sequences

CONSTANTS
  Modulus,    \* sequence numbers (2^32 in the code)
  Capacity,   \* slots of the buffer (512)
  First,      \* sequence number of the first frame the source sends
  MinWait, MaxWait,   \* bounds of the adaptive window, in ticks
  MaxFrames,  \* bound: frames of the source
  MaxCopies,  \* bound: repeated deliveries
  MaxArrivals,   \* bound: packets that are numbered as they arrive
  Window      \* how far behind the newest arrival a frame may arrive

ASSUME ConstantsAssumption ==
  /\ Modulus \in Nat /\ Capacity \in Nat \ {0} /\ First \in Nat
  /\ MinWait \in Nat /\ MaxWait \in Nat /\ MinWait <= MaxWait
  /\ MaxFrames \in Nat /\ MaxCopies \in Nat /\ MaxArrivals \in Nat /\ MaxFrames <= MaxArrivals
  /\ Window \in Nat /\ 2 * (Window + Capacity) < Modulus
  /\ Modulus % Capacity = 0

Seqs == 0 .. Modulus - 1
Frames == 1 .. MaxFrames
Places == 1 .. MaxArrivals
Empty == [seq |-> 0, frame |-> 0]
None == -1

VARIABLES
  video,      \* a video track (a loss needs a keyframe) or an audio track
  renumbered, \* packets are numbered as they arrive, as StreamChannel does
  kind,       \* frame -> "key" or "delta", for the frames sent so far
  transit,    \* frames that may still arrive
  newest,     \* the newest frame that has arrived
  copies,     \* repeated deliveries so far
  arrived,    \* the frames by number of arrival, when that is their number
  next,       \* next_seq
  highest,    \* highest_seq
  slots,
  awaiting,   \* awaiting_keyframe
  age,        \* ticks since last_progress, up to one more than MaxWait
  out         \* history: places given to the player

track   == <<video, renumbered>>
network == <<kind, transit, newest, copies, arrived>>
buffer  == <<next, highest, slots, awaiting, age, out>>
vars == <<track, network, buffer>>

TypeOK ==
  /\ video \in BOOLEAN /\ renumbered \in BOOLEAN
  /\ kind \in Seq({"key", "delta"}) /\ Len(kind) <= MaxFrames
  /\ transit \subseteq Frames /\ newest \in 0 .. MaxFrames
  /\ copies \in 0 .. MaxCopies
  /\ arrived \in Seq(Frames) /\ Len(arrived) <= MaxArrivals
  /\ next \in Seqs \cup {None} /\ highest \in Seqs \cup {None}
  /\ slots \in [0 .. Capacity - 1 -> [seq: Seqs, frame: 0 .. MaxArrivals]]
  /\ awaiting \in BOOLEAN
  /\ age \in 0 .. MaxWait + 1
  /\ out \in Seq(Places)

Init ==
  /\ video \in BOOLEAN /\ renumbered \in BOOLEAN
  /\ kind = <<>> /\ transit = {} /\ newest = 0 /\ copies = 0
  /\ arrived = <<>>
  /\ next = None /\ highest = None
  /\ slots = [i \in 0 .. Capacity - 1 |-> Empty]
  /\ awaiting = FALSE
  /\ age = 0
  /\ out = <<>>

-----------------------------------------------------------------------------
(* Sequence numbers.                                                       *)

\* The arrivals are numbered from 0, the frames of the source from First + 1.
Base == IF renumbered THEN Modulus - 1 ELSE First
Num(p) == (Base + p) % Modulus

\* The highest place that was pushed, and the frame of a place.
Newest == IF renumbered THEN Len(arrived) ELSE newest
FrameAt(p) == IF renumbered THEN arrived[p] ELSE p
KindAt(p) == kind[FrameAt(p)]

\* Mutant of SeqLess: no wrap-around.
SeqLessPlain(a, b) == a < b

\* a is behind b by at most half the numbers.
SeqLess(a, b) == (a - b) % Modulus >= Modulus \div 2

-----------------------------------------------------------------------------
(* The buffer, as a function of its state b.                               *)

State == [next |-> next, highest |-> highest, slots |-> slots,
          awaiting |-> awaiting, age |-> age, out |-> <<>>]

\* A slot that is taken keeps the newer frame.
Place(b, seq, f) ==
  LET s == b.slots[seq % Capacity] IN
  IF s.frame # 0 /\ ~SeqLess(s.seq, seq) THEN b
  ELSE [b EXCEPT !.slots[seq % Capacity] = [seq |-> seq, frame |-> f]]

\* A keyframe is a new beginning, whatever is waiting in the slots.
PushKey(b, seq, f) ==
  IF b.next # None /\ SeqLess(seq, b.next) THEN b
  ELSE Place([b EXCEPT !.slots = [i \in DOMAIN b.slots |-> Empty], !.next = seq,
                       !.highest = seq, !.awaiting = FALSE, !.age = 0], seq, f)

\* Mutant of PushOther: a frame behind the cursor is taken.
PushOtherLate(b, seq, f) ==
  LET c == IF b.next = None THEN [b EXCEPT !.next = seq, !.age = 0] ELSE b IN
  Place([c EXCEPT !.highest = IF @ = None \/ SeqLess(@, seq) THEN seq ELSE @], seq, f)

PushOther(b, seq, f) ==
  LET c == IF b.next = None THEN [b EXCEPT !.next = seq, !.age = 0] ELSE b IN
  IF b.awaiting \/ SeqLess(seq, c.next) THEN b
  ELSE Place([c EXCEPT !.highest = IF @ = None \/ SeqLess(@, seq) THEN seq ELSE @], seq, f)

Push(b, seq, f, k) == IF k = "key" THEN PushKey(b, seq, f) ELSE PushOther(b, seq, f)

\* Poll gives out what is next as long as it is there; the cursor's age is then
\* 0, so that no hole is overdue.  When a hole is, a video track gives it up and
\* waits for a keyframe; an audio track goes on to the next frame it has, but
\* not beyond the highest one, and over Capacity holes at most.
Ahead(seq, k) == (seq + k) % Modulus

Has(b, seq) == LET s == b.slots[seq % Capacity] IN s.frame # 0 /\ s.seq = seq

\* Length of what can be given out.
Run(b) == CHOOSE k \in 0 .. Capacity :
            /\ ~Has(b, Ahead(b.next, k))
            /\ \A i \in 0 .. k - 1 : Has(b, Ahead(b.next, i))

Emit(b) ==
  LET k == Run(b)
      given == {Ahead(b.next, i) : i \in 0 .. k - 1} IN
  [b EXCEPT !.out = [i \in 1 .. k |-> b.slots[Ahead(b.next, i - 1) % Capacity].frame],
            !.slots = [i \in DOMAIN @ |-> IF @[i].seq \in given THEN Empty ELSE @[i]],
            !.next = Ahead(@, k),
            !.age = IF k > 0 THEN 0 ELSE @]

\* Mutant of Beyond: the cursor may pass the newest frame.
BeyondNever(b, seq) == FALSE

Beyond(b, seq) == b.highest # None /\ SeqLess(b.highest, seq)

Holes(b) ==
  LET stop(k) == k = Capacity \/ Has(b, Ahead(b.next, k)) \/ Beyond(b, Ahead(b.next, k)) IN
  CHOOSE k \in 0 .. Capacity : stop(k) /\ \A i \in 0 .. k - 1 : ~stop(i)

\* Mutant of Skip: a video track goes on after a hole.
SkipOn(b) == Emit([b EXCEPT !.next = Ahead(@, Holes(b))])

\* Mutant of Skip: an audio track stops at every hole.
SkipNothing(b) == IF video THEN [b EXCEPT !.next = Ahead(@, 1), !.awaiting = TRUE] ELSE b

Skip(b) ==
  IF video THEN [b EXCEPT !.next = Ahead(@, 1), !.awaiting = TRUE]
  ELSE Emit([b EXCEPT !.next = Ahead(@, Holes(b))])

Poll(b, wait) ==
  IF b.awaiting \/ b.next = None THEN b
  ELSE IF Has(b, b.next) THEN Emit(b)
  ELSE IF b.age > wait /\ ~Beyond(b, b.next) THEN Skip(b)
  ELSE b

\* The buffer becomes b, polled with any window the measured jitter may give.
Become(b) ==
  \E wait \in MinWait .. MaxWait :
    LET p == Poll(b, wait) IN
    /\ next' = p.next /\ highest' = p.highest /\ slots' = p.slots
    /\ awaiting' = p.awaiting /\ age' = p.age
    /\ out' = out \o p.out

-----------------------------------------------------------------------------
(* The network and the receiver.                                           *)

Send(k) ==
  /\ Len(kind) < MaxFrames
  /\ kind' = Append(kind, k)
  /\ transit' = transit \cup {Len(kind')}
  /\ UNCHANGED <<track, newest, copies, arrived, buffer>>

\* A frame that has fallen out of the window is lost.
Arrive(f, again) ==
  LET p == IF renumbered THEN Len(arrived) + 1 ELSE f IN
  /\ f \in transit
  /\ f + Window >= newest
  /\ again => copies < MaxCopies
  /\ Len(arrived) < MaxArrivals
  /\ copies' = copies + (IF again THEN 1 ELSE 0)
  /\ transit' = IF again THEN transit ELSE transit \ {f}
  /\ newest' = IF f > newest THEN f ELSE newest
  /\ arrived' = IF renumbered THEN Append(arrived, f) ELSE arrived
  /\ Become(Push(State, Num(p), p, kind[f]))
  /\ UNCHANGED <<track, kind>>

\* A packet of another track: this one is only polled.
OtherTrack ==
  /\ Become(State)
  /\ UNCHANGED <<track, network>>

Tick ==
  /\ age <= MaxWait
  /\ age' = age + 1
  /\ UNCHANGED <<track, network, next, highest, slots, awaiting, out>>

Next ==
  \/ \E k \in {"key", "delta"} : Send(k)
  \/ \E f \in Frames : \E again \in BOOLEAN : Arrive(f, again)
  \/ OtherTrack
  \/ Tick

\* Time passes, and packets of the stream keep coming: the code polls only then.
Fairness == WF_vars(Tick) /\ WF_vars(OtherTrack)

Spec == Init /\ [][Next]_vars /\ Fairness

-----------------------------------------------------------------------------
(* Properties.                                                             *)

\* The player gets nothing twice, and in the order of the numbers under which
\* the packets were pushed, although they wrap around: the order of the source
\* as long as these are its own.
InOrder == \A i, j \in DOMAIN out : i < j => out[i] < out[j]

\* A video player is never given a delta frame without what was numbered before
\* it, except as the very first: after a hole it goes on with a keyframe
\* ("a hole means realign", buffer.rs).
GroupsWhole ==
  video => \A i \in 2 .. Len(out) : KindAt(out[i]) = "delta" => out[i - 1] = out[i] - 1

\* The two, in the order of the source whatever the numbers are.  They do not
\* hold: numbered on arrival, a late frame or a second copy is played where it
\* arrives, and a lost one leaves no hole ("within a track numbers are
\* consecutive: a hole is a lost frame; keep 'a hole means realign' against a
\* garbled picture", StreamChannel).
SourceInOrder ==
  \A i, j \in DOMAIN out : i < j => FrameAt(out[i]) < FrameAt(out[j])

SourceGroupsWhole ==
  video => \A i \in 2 .. Len(out) :
             KindAt(out[i]) = "delta" => FrameAt(out[i - 1]) = FrameAt(out[i]) - 1

InSlots == {slots[i].frame : i \in DOMAIN slots} \ {0}

\* A packet numbered beyond everything before it (every packet, when they are
\* numbered on arrival) is not taken for a late one: it is played or kept,
\* unless a video track waits for a keyframe.  So the cursor, which skips holes,
\* never runs ahead of the stream.
NewestKept ==
  [][Newest' > Newest =>
       \/ Newest' \in InSlots'
       \/ Newest' \in {out'[i] : i \in DOMAIN out'}
       \/ KindAt(Newest)' = "delta" /\ awaiting']_vars

\* No frame waits in the buffer for ever behind one that was lost: it is
\* played or given up, as long as packets arrive (a video track may keep it
\* until the keyframe it then waits for).
Unstuck ==
  \A p \in Places : p \in InSlots ~> p \notin InSlots \/ awaiting

=============================================================================
