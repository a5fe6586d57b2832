-------------------------- MODULE RxReorderProofs ---------------------------
(***************************************************************************)
(* Proofs about RxReorder for every size of the sequence space, of the     *)
(* buffer and of the session.                                              *)
(***************************************************************************)
EXTENDS RxReorder, FiniteSetTheorems, TLAPS

(***************************************************************************)
(* Lemmas on the remainder                                                 *)
(***************************************************************************)

\* Quotient and remainder.
LEMMA DivMod ==
  ASSUME NEW M \in Nat \ {0}, NEW a \in Int
  PROVE  /\ a % M \in 0..(M - 1) /\ a \div M \in Int
         /\ a = (a \div M) * M + (a % M)
  OBVIOUS

\* The remainder is the only number below M with this property.
LEMMA ModUnique ==
  ASSUME NEW M \in Nat \ {0}, NEW a \in Int, NEW q \in Int,
         NEW r \in 0..(M - 1), a = q * M + r
  PROVE  a % M = r
<1> DEFINE p == a \div M
           s == a % M
<1>1. s \in 0..(M - 1) /\ p \in Int /\ a = p * M + s
  BY DivMod
<1> HIDE DEF p, s
<1>2. (q - p) * M = s - r
  BY <1>1
<1>3. CASE q - p >= 1
  <2>1. (q - p) * M >= M
    BY <1>1, <1>3
  <2>2. QED
    BY <1>1, <1>2, <2>1
<1>4. CASE q - p <= -1
  <2>1. (q - p) * M <= -M
    BY <1>1, <1>4
  <2>2. QED
    BY <1>1, <1>2, <2>1
<1>5. CASE q = p
  BY <1>1, <1>5 DEF s
<1>6. QED
  BY <1>1, <1>3, <1>4, <1>5

\* Adding a multiple of M does not change the remainder.
LEMMA ModShift ==
  ASSUME NEW M \in Nat \ {0}, NEW a \in Int, NEW q \in Int
  PROVE  (a + q * M) % M = a % M
<1> DEFINE p == a \div M
           s == a % M
<1>1. s \in 0..(M - 1) /\ p \in Int /\ a = p * M + s
  BY DivMod
<1> HIDE DEF p, s
<1>2. a + q * M = (p + q) * M + s /\ p + q \in Int /\ a + q * M \in Int
  BY <1>1
<1>3. (a + q * M) % M = s
  BY <1>1, <1>2, ModUnique
<1>4. QED
  BY <1>3 DEF s

\* A summand may be reduced first.
LEMMA ModAdd ==
  ASSUME NEW M \in Nat \ {0}, NEW a \in Int, NEW b \in Int
  PROVE  ((a % M) + b) % M = (a + b) % M
<1> DEFINE p == a \div M
           s == a % M
<1>1. s \in 0..(M - 1) /\ p \in Int /\ a = p * M + s
  BY DivMod
<1> HIDE DEF p, s
<1>2. a + b = (s + b) + p * M /\ s + b \in Int
  BY <1>1
<1>3. (s + b) % M = (a + b) % M
  BY <1>1, <1>2, ModShift
<1>4. QED
  BY <1>3 DEF s

\* ... and so may both sides of a difference.
LEMMA ModDiff ==
  ASSUME NEW M \in Nat \ {0}, NEW a \in Int, NEW b \in Int, NEW d \in Int
  PROVE  ((a % M) - ((b % M) + d)) % M = (a - b - d) % M
<1> DEFINE p == a \div M
           s == a % M
           q == b \div M
           t == b % M
           k == q - p
           x == a - b - d
<1>1. s \in 0..(M - 1) /\ p \in Int /\ a = p * M + s
  BY DivMod
<1>2. t \in 0..(M - 1) /\ q \in Int /\ b = q * M + t
  BY DivMod
<1> HIDE DEF p, s, q, t
<1>3. s - (t + d) = x + k * M /\ x \in Int /\ k \in Int
  BY <1>1, <1>2
<1> HIDE DEF x, k
<1>4. (s - (t + d)) % M = x % M
  <2>1. (x + k * M) % M = x % M
    BY <1>3, ModShift
  <2>2. QED
    BY <1>3, <2>1
<1>5. QED
  BY <1>4 DEF s, t, x

\* Numbers less than M away from zero.
LEMMA ModSmall ==
  ASSUME NEW M \in Nat \ {0}, NEW a \in Int, -M <= a, a < M
  PROVE  a % M = IF a >= 0 THEN a ELSE a + M
<1>1. CASE a >= 0
  <2>1. a = 0 * M + a
    OBVIOUS
  <2>2. QED
    BY <1>1, <2>1, ModUnique
<1>2. CASE a < 0
  <2>1. a = (-1) * M + (a + M) /\ a + M \in 0..(M - 1)
    BY <1>2
  <2>2. QED
    BY <1>2, <2>1, ModUnique
<1>3. QED
  BY <1>1, <1>2

\* A divisor of M sees no difference between a and a % M.
LEMMA ModDivisor ==
  ASSUME NEW M \in Nat \ {0}, NEW S \in Nat \ {0}, M % S = 0, NEW a \in Int
  PROVE  (a % M) % S = a % S
<1> DEFINE p == a \div M
           s == a % M
           k == M \div S
<1>1. s \in 0..(M - 1) /\ p \in Int /\ a = p * M + s
  BY DivMod
<1>2. k \in Int /\ M = k * S
  BY DivMod
<1> HIDE DEF p, s, k
<1>3. p * M = (p * k) * S /\ p * k \in Int
  BY <1>1, <1>2
<1>4. s % S = (s + (p * k) * S) % S
  <2>1. s \in Int
    BY <1>1
  <2>2. QED
    BY <1>3, <2>1, ModShift
<1>5. s + (p * k) * S = a
  BY <1>1, <1>3
<1>6. QED
  BY <1>4, <1>5 DEF s

(***************************************************************************)
(* What the code's comparisons mean in unwrapped numbers                   *)
(***************************************************************************)
Half == Mod \div 2
Place(f) == (f - Ssn) % Size

\* What the assumption on the constants says in numbers: the window is at
\* most half of the half space in which sequence numbers compare.
LEMMA Bounds ==
  /\ Mod \in Nat \ {0} /\ Size \in Nat \ {0} /\ Ssn \in Nat /\ Mod % Size = 0
  /\ Half \in Nat /\ 2 * Half <= Mod /\ Mod <= 2 * Half + 1 /\ 2 * Size <= Half
  BY ReorderAssumption DEF Half

\* Sequence numbers of the same half of the space compare as their frames.
LEMMA LessIs ==
  ASSUME NEW f \in Int, NEW g \in Int, NEW d \in Int,
         f - g - d \in (1 - Half)..(Half - 1)
  PROVE  sn_less(seq(f), seq(g) + d) <=> f < g + d
<1> DEFINE x == f - g - d
<1>1. ((f % Mod) - ((g % Mod) + d)) % Mod = x % Mod
  <2>1. Mod \in Nat \ {0}
    BY Bounds
  <2>2. QED
    BY <2>1, ModDiff
<1> HIDE DEF x
<1>2. /\ x \in Int /\ -Mod <= x /\ x < Mod /\ (x < 0 <=> f < g + d)
      /\ x \in (1 - Half)..(Half - 1)
  BY Bounds DEF x
<1>3. x % Mod = IF x >= 0 THEN x ELSE x + Mod
  BY <1>2, Bounds, ModSmall
<1>4. sn_less(seq(f), seq(g) + d) <=> x % Mod > Half
  BY <1>1 DEF sn_less, seq, Half
<1>5. x % Mod > Half <=> x < 0
  BY <1>2, <1>3, Bounds
<1>6. QED
  BY <1>2, <1>4, <1>5

\* The first frame that must stay, and the head after n frames.
LEMMA TargetIs ==
  ASSUME NEW f \in Int
  PROVE  sn_add(sn_sub(seq(f), Size), 1) = seq(f - Size + 1)
<1> DEFINE m == -Size
           g == f + m
<1>1. m \in Int /\ g \in Int /\ f - Size = g
  BY Bounds
<1>2. (f % Mod) - Size = (f % Mod) + m
  BY Bounds, DivMod
<1> HIDE DEF m
<1>3. ((f % Mod) + m) % Mod = g % Mod
  BY <1>1, Bounds, ModAdd
<1> HIDE DEF g
<1>4. ((g % Mod) + 1) % Mod = (g + 1) % Mod
  <2>1. 1 \in Int
    OBVIOUS
  <2>2. QED
    BY <1>1, <2>1, Bounds, ModAdd, Zenon
<1>5. QED
  BY <1>1, <1>2, <1>3, <1>4 DEF sn_add, sn_sub, seq

\* Advancing a sequence number is advancing the frame it belongs to.
LEMMA HeadIs ==
  ASSUME NEW f \in Int, NEW n \in Int
  PROVE  sn_add(seq(f), n) = seq(f + n)
  BY Bounds, ModAdd DEF sn_add, seq

\* The slot of a frame does not depend on the wrap, as Size divides Mod.
LEMMA SlotIs ==
  ASSUME NEW f \in Int
  PROVE  Slot(seq(f)) = Place(f) /\ Place(f) \in Slots
<1> DEFINE m == -Ssn
           x == f + m
<1>1. m \in Int /\ x \in Int /\ f - Ssn = x
  BY Bounds
<1>2. (f % Mod) - Ssn = (f % Mod) + m
  BY Bounds, DivMod
<1> HIDE DEF m
<1>3. ((f % Mod) + m) % Mod = x % Mod
  BY <1>1, Bounds, ModAdd
<1> HIDE DEF x
<1>4. (x % Mod) % Size = x % Size /\ x % Size \in 0..(Size - 1)
  <2>1. (x % Mod) % Size = x % Size
    BY <1>1, Bounds, ModDivisor, Zenon
  <2>2. x % Size \in 0..(Size - 1)
    BY <1>1, Bounds, DivMod, Zenon
  <2>3. QED
    BY <2>1, <2>2
<1>5. QED
  BY <1>1, <1>2, <1>3, <1>4 DEF Slot, sn_sub, seq, Place, Slots

\* Two frames of one window have different slots.
LEMMA SlotsApart ==
  ASSUME NEW f \in Int, NEW g \in Int, f - g < Size, g - f < Size,
         Place(f) = Place(g)
  PROVE  f = g
<1> DEFINE p == (f - Ssn) \div Size
           q == (g - Ssn) \div Size
           r == Place(f)
<1>1. p \in Int /\ r \in Int /\ f - Ssn = p * Size + r
  <2>1. f - Ssn \in Int
    BY Bounds
  <2>2. QED
    BY <2>1, Bounds, DivMod DEF Place
<1>2. q \in Int /\ g - Ssn = q * Size + r
  <2>1. g - Ssn \in Int
    BY Bounds
  <2>2. QED
    BY <2>1, Bounds, DivMod DEF Place
<1> HIDE DEF p, q, r
<1>3. f - g = (p - q) * Size
  BY <1>1, <1>2, Bounds
<1>4. CASE p - q >= 1
  <2>1. (p - q) * Size >= Size
    BY <1>1, <1>2, <1>4, Bounds
  <2>2. QED
    BY <1>3, <2>1, Bounds
<1>5. CASE p - q <= -1
  <2>1. (p - q) * Size <= -Size
    BY <1>1, <1>2, <1>5, Bounds
  <2>2. QED
    BY <1>3, <2>1, Bounds
<1>6. CASE p = q
  BY <1>3, <1>6, <1>1, Bounds
<1>7. QED
  BY <1>1, <1>2, <1>4, <1>5, <1>6

\* The next slot is the slot of the next frame; the buffer is a ring.
LEMMA SlotNext ==
  ASSUME NEW f \in Int
  PROVE  /\ (Place(f) + 1) % Size = Place(f + 1)
         /\ Place(f + Size) = Place(f)
<1> DEFINE x == f - Ssn
<1>1. x \in Int /\ (f + 1) - Ssn = x + 1 /\ (f + Size) - Ssn = x + 1 * Size
  BY Bounds
<1> HIDE DEF x
<1>2. ((x % Size) + 1) % Size = (x + 1) % Size
  <2>1. 1 \in Int
    OBVIOUS
  <2>2. QED
    BY <1>1, <2>1, Bounds, ModAdd, Zenon
<1>3. (x + 1 * Size) % Size = x % Size
  <2>1. 1 \in Int
    OBVIOUS
  <2>2. QED
    BY <1>1, <2>1, Bounds, ModShift, Zenon
<1>4. QED
  BY <1>1, <1>2, <1>3 DEF Place, x

\* Frames of one window with the same sequence number are the same.
LEMMA SeqApart ==
  ASSUME NEW f \in Int, NEW g \in Int, f - g < Size, g - f < Size,
         seq(f) = seq(g)
  PROVE  f = g
  BY SlotIs, SlotsApart

(***************************************************************************)
(* The inductive invariant                                                 *)
(***************************************************************************)

\* tid->lock is held exactly while a context is inside its section.
LockHeld ==
  /\ lock = "rx" <=> pc["rx"] \in {"advance", "store", "release", "scan",
                                   "flush", "rearm", "drop"}
  /\ lock = "timer" <=> pc["timer"] \in {"release", "scan", "flush", "rearm"}
  /\ pc["timer"] \notin {"advance", "store", "drop"}

\* The window in unwrapped numbers.
Window ==
  /\ LenMatches
  /\ head_seq = seq(count)
  /\ \A i \in Buffered :
       i = Place(reorder_buf[i]) /\ reorder_buf[i] \in count..(count + Size - 1)

\* The frame in hand: ahead of the window until the head has followed, then
\* within it.
InHand ==
  /\ pc["rx"] = "advance" =>
       /\ target = seq(skb - Size + 1)
       /\ skb - Size + 1 >= count /\ skb - count < Half
  /\ pc["rx"] = "store" => skb \in count..(count + Size - 1)

\* The walk over the slots behind a gap started at frame b: it looks at the
\* slot of frame count + skipped, all slots before it are empty, and it is
\* less than one turn of the ring away.
Walk ==
  \A c \in Ctx : pc[c] = "scan" =>
    \E b \in (count + skipped - Size)..(count + skipped - 1) :
      /\ b <= count /\ index = Place(b) /\ j = Place(count + skipped)
      /\ \A k \in count..(count + skipped - 1) : reorder_buf[Place(k)] = None

\* Somebody comes back for the buffered frames.
Attended ==
  /\ tid = "live" /\ Buffered # {}
  /\ lock = "free" \/ pc["rx"] \in {"advance", "store", "drop"}
  => reorder_timer = "on" \/ pc["timer"] = "lock"

\* Everything below the head has been released or given up.
LastBehind == last < count

IInv ==
  /\ TypeOK /\ LockHeld /\ Window /\ InHand /\ Walk /\ Attended /\ LastBehind

(***************************************************************************)
(* Releasing a frame                                                       *)
(***************************************************************************)

\* r92su_reorder_release_frame is called for the slot of the frame that is n
\* after the head, with nothing buffered before it.
Releasable(i, n) ==
  /\ n \in 0..(Size - 1) /\ i = Place(count + n)
  /\ \A k \in count..(count + n - 1) : reorder_buf[Place(k)] = None

\* The slots are finitely many, Size of them.
LEMMA FiniteBuffer ==
  ASSUME NEW S \in SUBSET Slots
  PROVE  IsFiniteSet(S) /\ Cardinality(S) \in Nat /\ Cardinality(S) <= Size
<1>1. IsFiniteSet(Slots) /\ Cardinality(Slots) = Size
  BY FS_Interval, Bounds DEF Slots
<1>2. QED
  BY <1>1, FS_Subset, FS_CardinalityType

\* The frame found in the slot is the one that is n after the head.
LEMMA FoundFrame ==
  ASSUME TypeOK, Window, NEW i \in Slots, NEW n, Releasable(i, n),
         reorder_buf[i] # None
  PROVE  reorder_buf[i] = count + n
<1>1. /\ i = Place(reorder_buf[i]) /\ reorder_buf[i] \in Int
      /\ reorder_buf[i] \in count..(count + Size - 1)
  BY Bounds DEF Window, Buffered, TypeOK, Frames
<1>2. i = Place(count + n) /\ count + n \in Int /\ n \in 0..(Size - 1) /\ count \in Nat
  BY DEF Releasable, TypeOK
<1>3. reorder_buf[i] - (count + n) < Size /\ (count + n) - reorder_buf[i] < Size
  BY <1>1, <1>2, Bounds
<1>4. QED
  BY <1>1, <1>2, <1>3, SlotsApart

\* The window moves over the released frame and the gap before it; what
\* stays lies ahead of the new head, and the frame is newer than all before.
LEMMA ReleaseWindow ==
  ASSUME TypeOK, Window, LastBehind,
         NEW c \in Ctx, NEW i \in Slots, NEW n,
         Releasable(i, n), ReleaseFrame(c, i, n)
  PROVE  /\ Window' /\ LastBehind' /\ (last' # last => last' > last)
         /\ Buffered' = Buffered \ {i}
         /\ \A k \in Slots \ {i} : reorder_buf'[k] = reorder_buf[k]
         /\ reorder_buf'[i] = None /\ count' = count + n + 1
<1>1. /\ n \in 0..(Size - 1) /\ count \in Nat /\ last \in Int /\ last < count
      /\ count' = count + n + 1
  BY DEF Releasable, ReleaseFrame, TypeOK, LastBehind
<1>2. /\ reorder_buf'[i] = None
      /\ \A k \in Slots \ {i} : reorder_buf'[k] = reorder_buf[k]
  BY DEF ReleaseFrame, TypeOK
<1>3. Buffered' = Buffered \ {i}
  BY <1>2 DEF Buffered
<1>4. LastBehind' /\ (last' # last => last' > last)
  <2>1. last' = last \/ last' = count + n
    BY FoundFrame DEF ReleaseFrame
  <2>2. QED
    BY <1>1, <2>1 DEF LastBehind
<1>5. LenMatches'
  <2>1. CASE reorder_buf[i] = None
    BY <1>3, <2>1 DEF ReleaseFrame, Window, LenMatches, Buffered
  <2>2. CASE reorder_buf[i] # None
    <3>1. i \in Buffered /\ Buffered \in SUBSET Slots
      BY <2>2 DEF Buffered
    <3>2. Cardinality(Buffered') = Cardinality(Buffered) - 1
      BY <1>3, <3>1, FiniteBuffer, FS_RemoveElement
    <3>3. QED
      BY <2>2, <3>2 DEF ReleaseFrame, Window, LenMatches
  <2>3. QED
    BY <2>1, <2>2
<1>6. head_seq' = seq(count')
  <2>1. head_seq' = sn_add(seq(count), n + 1) /\ n + 1 \in Int /\ count \in Int
        /\ count' = count + (n + 1)
    BY <1>1 DEF ReleaseFrame, Window
  <2>2. QED
    BY <2>1, HeadIs
<1>7. ASSUME NEW k \in Buffered'
      PROVE  /\ k = Place(reorder_buf'[k])
             /\ reorder_buf'[k] \in count'..(count' + Size - 1)
  <2>1. k \in Buffered /\ k # i /\ reorder_buf'[k] = reorder_buf[k]
    BY <1>2, <1>3 DEF Buffered
  <2>2. /\ k = Place(reorder_buf[k]) /\ reorder_buf[k] # None
        /\ reorder_buf[k] \in count..(count + Size - 1)
    BY <2>1 DEF Window, Buffered
  <2>3. reorder_buf[k] # count + n
    BY <2>1, <2>2 DEF Releasable
  <2>4. reorder_buf[k] \notin count..(count + n - 1)
    BY <2>2 DEF Releasable
  <2>5. QED
    BY <1>1, <2>1, <2>2, <2>3, <2>4, Bounds
<1>8. QED
  BY <1>1, <1>2, <1>3, <1>4, <1>5, <1>6, <1>7 DEF Window

(***************************************************************************)
(* The buffer, step by step                                                *)
(***************************************************************************)
tidkept == <<head_seq, len, reorder_buf, count, last>>

\* The head's own slot may always be released.
LEMMA HeadReleasable ==
  ASSUME TypeOK, Window
  PROVE  Slot(head_seq) \in Slots /\ Releasable(Slot(head_seq), 0)
<1>1. count \in Int /\ count + 0 = count /\ 0 \in 0..(Size - 1)
      /\ count..(count + 0 - 1) = {}
  BY Bounds DEF TypeOK
<1>2. QED
  BY <1>1, SlotIs DEF Window, Releasable

\* So may the slot at which the walk behind a gap finds a frame.
LEMMA WalkReleasable ==
  ASSUME TypeOK, Walk, NEW c \in Ctx, pc[c] = "scan", j # index
  PROVE  Releasable(j, skipped)
<1>1. PICK b \in (count + skipped - Size)..(count + skipped - 1) :
        /\ b <= count /\ index = Place(b) /\ j = Place(count + skipped)
        /\ \A k \in count..(count + skipped - 1) : reorder_buf[Place(k)] = None
  BY DEF Walk
<1>2. b \in Int /\ count + skipped \in Int /\ count \in Nat /\ skipped \in Nat
  BY <1>1, Bounds DEF TypeOK
<1>3. b + Size # count + skipped
  BY <1>1, <1>2, SlotNext
<1>4. skipped \in 0..(Size - 1)
  BY <1>1, <1>2, <1>3, Bounds
<1>5. QED
  BY <1>1, <1>4 DEF Releasable

\* What a step may do to the buffer.
LEMMA BufferCases ==
  ASSUME IInv, [Next]_vars
  PROVE  \/ UNCHANGED tidkept
         \/ \E c \in Ctx, i \in Slots, n \in Nat :
              Releasable(i, n) /\ ReleaseFrame(c, i, n)
         \/ RxStore
         \/ r92su_free_tid_rcu
<1> USE DEF IInv
<1>1. CASE RxAdvance
  <2>1. \/ UNCHANGED tidkept
        \/ ReleaseFrame("rx", Slot(head_seq), 0)
    BY <1>1 DEF RxAdvance, tidvars, tidkept
  <2>2. "rx" \in Ctx /\ 0 \in Nat
    BY DEF Ctx
  <2>3. QED
    BY <2>1, <2>2, HeadReleasable
<1>2. ASSUME NEW c \in Ctx, ReleaseFlush(c)
      PROVE  \/ UNCHANGED tidkept
             \/ \E i \in Slots, n \in Nat :
                  Releasable(i, n) /\ ReleaseFrame(c, i, n)
  <2>1. \/ UNCHANGED tidkept
        \/ ReleaseFrame(c, Slot(head_seq), 0)
    BY <1>2 DEF ReleaseFlush, tidvars, tidkept
  <2>2. 0 \in Nat
    OBVIOUS
  <2>3. QED
    BY <2>1, <2>2, HeadReleasable
<1>3. ASSUME NEW c \in Ctx, ReleaseScan(c)
      PROVE  \/ UNCHANGED tidkept
             \/ \E i \in Slots, n \in Nat :
                  Releasable(i, n) /\ ReleaseFrame(c, i, n)
  <2>1. \/ UNCHANGED tidkept
        \/ pc[c] = "scan" /\ j # index /\ ReleaseFrame(c, j, skipped)
    BY <1>3 DEF ReleaseScan, tidvars, tidkept
  <2>2. j \in Slots /\ skipped \in Nat
    BY Bounds DEF TypeOK
  <2>3. QED
    BY <2>1, <2>2, WalkReleasable
<1>4. ASSUME NEW c \in Ctx, ReleaseStart(c) \/ ReleaseRearm(c) \/ Handler(c)
      PROVE  UNCHANGED tidkept
  BY <1>4 DEF ReleaseStart, ReleaseRearm, Handler, tidvars, tidkept
<1>5. CASE RxDrop \/ TimerFires \/ TimerLocks \/ r92su_free_tid \/ UNCHANGED vars
  BY <1>5
     DEF RxDrop, TimerFires, TimerLocks, r92su_free_tid, vars, tidvars, tidkept
<1>6. ASSUME NEW f, RxFrame(f) \/ GetsLate(f)
      PROVE  UNCHANGED tidkept
  BY <1>6 DEF RxFrame, GetsLate, tidvars, tidkept
<1>7. QED
  BY <1>1, <1>2, <1>3, <1>4, <1>5, <1>6
     DEF Next, RxNext, TimerNext, Release, Ctx

\* A frame in hand is stored in the window.
LEMMA StoreWindow ==
  ASSUME TypeOK, Window, LastBehind, InHand, RxStore
  PROVE  Window' /\ LastBehind' /\ (last' # last => last' > last)
<1> DEFINE i == Slot(seq(skb))
<1>0. /\ skb \in Int /\ count \in Nat /\ skb \in count..(count + Size - 1)
      /\ last \in Int /\ last < count
  BY Bounds DEF RxStore, InHand, TypeOK, Frames, LastBehind
<1>1. i = Place(skb) /\ i \in Slots
  BY <1>0, SlotIs
<1> HIDE DEF i
<1>2. CASE UNCHANGED tidkept
  BY <1>0, <1>2
     DEF tidkept, Window, LenMatches, Buffered, LastBehind
<1>3. CASE /\ seq(skb) = head_seq /\ len = 0
           /\ head_seq' = sn_add(seq(skb), 1)
           /\ count' = count + 1 /\ last' = skb
           /\ UNCHANGED <<len, reorder_buf>>
  <2>1. Buffered = {}
    <3>1. Buffered \in SUBSET Slots
      BY DEF Buffered
    <3>2. Cardinality(Buffered) = 0
      BY <1>3 DEF Window, LenMatches
    <3>3. QED
      BY <3>1, <3>2, FiniteBuffer, FS_EmptySet
  <2>2. Buffered' = {} /\ len' = len
    BY <1>3, <2>1 DEF Buffered
  <2>3. skb = count
    BY <1>0, <1>3, SeqApart, Bounds DEF Window
  <2>4. head_seq' = seq(count')
    <3>1. 1 \in Int /\ skb \in Int
      BY <1>0
    <3>2. sn_add(seq(skb), 1) = seq(skb + 1)
      BY <3>1, HeadIs, Zenon
    <3>3. QED
      BY <1>3, <2>3, <3>2
  <2>5. LenMatches'
    BY <1>3, <2>2, FS_EmptySet DEF LenMatches
  <2>6. Window'
    BY <2>2, <2>4, <2>5 DEF Window
  <2>7. last' = count /\ count' = count + 1
    BY <1>3, <2>3
  <2>8. QED
    BY <1>0, <2>6, <2>7 DEF LastBehind
<1>4. CASE /\ reorder_buf[i] = None
           /\ reorder_buf' = [reorder_buf EXCEPT ![i] = skb]
           /\ len' = len + 1 /\ UNCHANGED <<head_seq, count, last>>
  <2>1. skb # None /\ i \notin Buffered /\ Buffered \in SUBSET Slots
    BY <1>0, <1>4, ReorderAssumption DEF Buffered
  <2>2. /\ reorder_buf'[i] = skb
        /\ \A k \in Slots \ {i} : reorder_buf'[k] = reorder_buf[k]
    BY <1>1, <1>4 DEF TypeOK
  <2>3. Buffered' = Buffered \cup {i}
    BY <1>1, <2>1, <2>2 DEF Buffered
  <2>4. LenMatches'
    <3>1. Cardinality(Buffered') = Cardinality(Buffered) + 1
      BY <2>1, <2>3, FiniteBuffer, FS_AddElement
    <3>2. QED
      BY <1>4, <3>1 DEF Window, LenMatches
  <2>5. ASSUME NEW k \in Buffered'
        PROVE  /\ k = Place(reorder_buf'[k])
               /\ reorder_buf'[k] \in count'..(count' + Size - 1)
    <3>1. CASE k = i
      BY <1>0, <1>1, <1>4, <2>2, <3>1
    <3>2. CASE k # i
      BY <1>4, <2>1, <2>2, <2>3, <3>2 DEF Window
    <3>3. QED
      BY <3>1, <3>2
  <2>6. QED
    BY <1>0, <1>4, <2>4, <2>5 DEF Window, LastBehind
<1>5. QED
  BY <1>2, <1>3, <1>4 DEF RxStore, tidvars, tidkept, i

\* The window holds after every step, and frames leave in order.
LEMMA WindowStep ==
  ASSUME IInv, [Next]_vars
  PROVE  Window' /\ LastBehind' /\ (last' # last => last' > last)
<1> USE DEF IInv
<1>1. CASE UNCHANGED tidkept
  BY <1>1 DEF tidkept, Window, LenMatches, Buffered, LastBehind
<1>2. CASE \E c \in Ctx, i \in Slots, n \in Nat :
             Releasable(i, n) /\ ReleaseFrame(c, i, n)
  BY <1>2, ReleaseWindow
<1>3. CASE RxStore
  BY <1>3, StoreWindow
<1>4. CASE r92su_free_tid_rcu
  <2>1. Buffered' = {} /\ len' = 0 /\ UNCHANGED <<head_seq, count, last>>
    BY <1>4 DEF r92su_free_tid_rcu, Buffered
  <2>2. QED
    BY <2>1, FS_EmptySet DEF Window, LenMatches, LastBehind
<1>5. QED
  BY <1>1, <1>2, <1>3, <1>4, BufferCases

(***************************************************************************)
(* Lock, frame in hand, walk, timer                                        *)
(***************************************************************************)

\* A context of its own moves; the other stays where it is.
LEMMA LockStep ==
  ASSUME TypeOK, LockHeld, [Next]_vars
  PROVE  /\ LockHeld' /\ lock' \in Ctx \cup {"free"}
         /\ pc' \in [Ctx -> {"idle", "lock", "advance", "store", "release",
                             "scan", "flush", "rearm", "drop", "handler"}]
<1> USE DEF TypeOK, LockHeld, Ctx
<1>1. CASE (\E f \in Frames : RxFrame(f)) \/ RxAdvance \/ RxStore \/ RxDrop
  BY <1>1 DEF RxFrame, RxAdvance, RxStore, RxDrop, Goto
<1>2. ASSUME NEW c \in Ctx, ReleaseStart(c) \/ ReleaseScan(c)
      PROVE  /\ LockHeld' /\ lock' \in Ctx \cup {"free"}
             /\ pc' \in [Ctx -> {"idle", "lock", "advance", "store", "release",
                                 "scan", "flush", "rearm", "drop", "handler"}]
  BY <1>2 DEF ReleaseStart, ReleaseScan, Goto
<1>3. ASSUME NEW c \in Ctx, ReleaseFlush(c) \/ ReleaseRearm(c) \/ Handler(c)
      PROVE  /\ LockHeld' /\ lock' \in Ctx \cup {"free"}
             /\ pc' \in [Ctx -> {"idle", "lock", "advance", "store", "release",
                                 "scan", "flush", "rearm", "drop", "handler"}]
  BY <1>3 DEF ReleaseFlush, ReleaseRearm, Handler, Goto
<1>4. CASE TimerFires \/ TimerLocks
  BY <1>4 DEF TimerFires, TimerLocks, Goto
<1>5. CASE \/ \E i \in Slots : GetsLate(i)
           \/ r92su_free_tid \/ r92su_free_tid_rcu \/ UNCHANGED vars
  BY <1>5 DEF GetsLate, r92su_free_tid, r92su_free_tid_rcu, vars
<1>6. QED
  BY <1>1, <1>2, <1>3, <1>4, <1>5 DEF Next, RxNext, TimerNext, Release

\* The frame in hand stays ahead of, then within, the window.
LEMMA HandStep ==
  ASSUME IInv, [Next]_vars
  PROVE  InHand'
<1> USE DEF IInv
<1>0. count \in Nat /\ skb \in Int /\ DOMAIN pc = Ctx /\ "rx" \in Ctx
  BY Bounds DEF TypeOK, Frames, Ctx
<1>1. ASSUME NEW f \in Frames, RxFrame(f)
      PROVE  InHand'
  <2>1. /\ f \in Int /\ f - count \in (1 - Half)..(Half - 1)
        /\ head_seq = seq(count) /\ skb' = f /\ count' = count
    BY <1>1, Bounds DEF RxFrame, Window, Frames, Half, tidvars
  <2>2. sn_less(seq(f), head_seq) <=> f < count
    <3>1. 0 \in Int /\ f - count - 0 \in (1 - Half)..(Half - 1)
          /\ count + 0 = count /\ count \in Int
      BY <1>0, <2>1
    <3>2. sn_less(seq(f), seq(count) + 0) <=> f < count + 0
      BY <2>1, <3>1, LessIs, Zenon
    <3>3. seq(count) + 0 = seq(count)
      BY <1>0, Bounds, DivMod DEF seq
    <3>4. QED
      BY <2>1, <3>1, <3>2, <3>3
  <2>3. f >= count => (sn_less(seq(f), head_seq + Size) <=> f < count + Size)
    <3>1. SUFFICES ASSUME f >= count
                   PROVE  sn_less(seq(f), head_seq + Size) <=> f < count + Size
      OBVIOUS
    <3>2. f - count - Size \in (1 - Half)..(Half - 1)
      BY <1>0, <2>1, <3>1, Bounds
    <3>3. QED
      BY <1>0, <2>1, <3>2, LessIs, Bounds
  <2>4. sn_add(sn_sub(seq(f), Size), 1) = seq(f - Size + 1)
    BY <2>1, TargetIs
  <2>5. \/ pc'["rx"] = "drop"
        \/ pc'["rx"] = "store" /\ f >= count /\ f < count + Size
        \/ /\ pc'["rx"] = "advance" /\ f >= count + Size
           /\ target' = seq(f - Size + 1)
    BY <1>0, <1>1, <2>1, <2>2, <2>3, <2>4, Bounds DEF RxFrame, Goto
  <2>6. QED
    BY <1>0, <2>1, <2>5, Bounds DEF InHand
<1>2. CASE RxAdvance
  <2>1. /\ target = seq(skb - Size + 1) /\ skb - Size + 1 >= count
        /\ skb - count < Half /\ head_seq = seq(count)
        /\ UNCHANGED <<skb, target>>
    BY <1>2 DEF RxAdvance, InHand, Window, locals
  <2>2. sn_less(head_seq, target) <=> count < skb - Size + 1
    <3> DEFINE t == skb - Size + 1
    <3>1. t \in Int /\ 0 \in Int /\ count - t - 0 \in (1 - Half)..(Half - 1)
          /\ t + 0 = t /\ count \in Int
      BY <1>0, <2>1, Bounds
    <3>2. seq(t) + 0 = seq(t)
      BY <3>1, Bounds, DivMod DEF seq
    <3> HIDE DEF t
    <3>3. sn_less(seq(count), seq(t) + 0) <=> count < t + 0
      BY <3>1, LessIs, Zenon
    <3>4. QED
      BY <2>1, <3>1, <3>2, <3>3 DEF t
  <2>3. CASE sn_less(head_seq, target)
    <3>1. pc' = pc /\ count' = count + 1
      BY <1>0, <1>2, <2>3 DEF RxAdvance, ReleaseFrame
    <3>2. pc["rx"] = "advance"
      BY <1>2 DEF RxAdvance
    <3>3. QED
      BY <1>0, <2>1, <2>2, <2>3, <3>1, <3>2, Bounds DEF InHand
  <2>4. CASE ~sn_less(head_seq, target)
    <3>1. pc'["rx"] = "store" /\ count' = count
      BY <1>0, <1>2, <2>4 DEF RxAdvance, Goto, tidvars
    <3>2. QED
      BY <1>0, <2>1, <2>2, <2>4, <3>1, Bounds DEF InHand
  <2>5. QED
    BY <2>3, <2>4
<1>3. ASSUME pc'["rx"] \notin {"advance", "store"}
      PROVE  InHand'
  BY <1>3 DEF InHand
<1>4. ASSUME NEW c \in Ctx, Release(c)
      PROVE  InHand'
  <2>1. pc["rx"] \notin {"advance", "store"}
    BY <1>4
       DEF Release, ReleaseStart, ReleaseScan, ReleaseFlush, ReleaseRearm,
           LockHeld, Ctx
  <2>2. pc'["rx"] \notin {"advance", "store"}
    BY <1>0, <1>4, <2>1
       DEF Release, ReleaseStart, ReleaseScan, ReleaseFlush, ReleaseRearm,
           Goto, Ctx
  <2>3. QED
    BY <1>3, <2>2
<1>5. CASE RxStore \/ RxDrop \/ Handler("rx")
  BY <1>0, <1>3, <1>5 DEF RxStore, RxDrop, Handler, Goto
<1>6. CASE \/ TimerFires \/ TimerLocks \/ Handler("timer")
           \/ (\E i \in Slots : GetsLate(i))
           \/ r92su_free_tid \/ r92su_free_tid_rcu \/ UNCHANGED vars
  <2>1. UNCHANGED <<count, skb, target>> /\ pc'["rx"] = pc["rx"]
    BY <1>0, <1>6
       DEF TimerFires, TimerLocks, Handler, GetsLate, r92su_free_tid,
           r92su_free_tid_rcu, vars, tidvars, locals, Goto, Ctx
  <2>2. QED
    BY <2>1 DEF InHand
<1>7. QED
  BY <1>1, <1>2, <1>4, <1>5, <1>6 DEF Next, RxNext, TimerNext, Ctx

\* The walk behind a gap: it begins at the head's empty slot, and each turn
\* takes it one frame further.
LEMMA WalkStep ==
  ASSUME IInv, [Next]_vars
  PROVE  Walk'
<1> USE DEF IInv
<1>0. /\ count \in Nat /\ skipped \in 0..Size /\ DOMAIN pc = Ctx
      /\ head_seq = seq(count)
  BY DEF TypeOK, Window
<1>1. ASSUME NEW c \in Ctx, ReleaseStart(c)
      PROVE  Walk'
  <2>1. /\ index' = Place(count) /\ UNCHANGED <<count, reorder_buf>>
    BY <1>0, <1>1, SlotIs DEF ReleaseStart, tidvars
  <2>2. \A d \in Ctx : pc[d] # "scan"
    BY <1>1 DEF ReleaseStart, LockHeld, Ctx
  <2>3. CASE len # 0 /\ reorder_buf[Slot(head_seq)] = None
    <3>1. /\ skipped' = 1 /\ j' = Place(count + 1)
          /\ reorder_buf[Place(count)] = None
      BY <1>0, <1>1, <2>3, SlotIs, SlotNext DEF ReleaseStart
    <3>2. /\ count \in (count + 1 - Size)..(count + 1 - 1)
          /\ \A k \in count..(count + 1 - 1) : k = count
      BY <1>0, Bounds
    <3>3. QED
      BY <2>1, <3>1, <3>2 DEF Walk
  <2>4. CASE ~(len # 0 /\ reorder_buf[Slot(head_seq)] = None)
    <3>1. \A d \in Ctx : pc'[d] # "scan"
      BY <1>0, <1>1, <2>2, <2>4 DEF ReleaseStart, Goto
    <3>2. QED
      BY <3>1 DEF Walk
  <2>5. QED
    BY <2>3, <2>4
<1>2. ASSUME NEW c \in Ctx, ReleaseScan(c)
      PROVE  Walk'
  <2>1. pc[c] = "scan" /\ (\A d \in Ctx : d # c => pc[d] # "scan")
    BY <1>2 DEF ReleaseScan, LockHeld, Ctx
  <2>2. PICK b \in (count + skipped - Size)..(count + skipped - 1) :
          /\ b <= count /\ index = Place(b) /\ j = Place(count + skipped)
          /\ \A k \in count..(count + skipped - 1) : reorder_buf[Place(k)] = None
    BY <2>1 DEF Walk
  <2>3. b \in Int /\ count + skipped \in Int
    BY <1>0, <2>2, Bounds
  <2>4. ASSUME Goto(c, "rearm") \/ Goto(c, "handler")
        PROVE  Walk'
    BY <1>0, <2>1, <2>4 DEF Goto, Walk
  <2>5. ASSUME j # index
        PROVE  /\ b \in (count + skipped + 1 - Size)..(count + skipped)
               /\ (j + 1) % Size = Place(count + skipped + 1)
    <3>1. b + Size # count + skipped
      BY <2>2, <2>3, <2>5, SlotNext
    <3>2. QED
      BY <1>0, <2>2, <2>3, <3>1, SlotNext, Bounds
  <2>6. CASE /\ j # index /\ reorder_buf[j] = None
             /\ skipped' = skipped + 1 /\ j' = (j + 1) % Size
             /\ UNCHANGED <<tidvars, index, pc>>
    <3>1. \A k \in count..(count + skipped) : reorder_buf[Place(k)] = None
      <4>1. \A k \in count..(count + skipped) :
              k = count + skipped \/ k \in count..(count + skipped - 1)
        BY <1>0
      <4>2. QED
        BY <2>2, <2>6, <4>1
    <3>2. /\ count' + skipped' = count + skipped + 1
          /\ count' + skipped' - 1 = count + skipped
          /\ count' + skipped' - Size = count + skipped + 1 - Size
      BY <1>0, <2>6, Bounds DEF tidvars
    <3>3. /\ b <= count' /\ index' = Place(b) /\ j' = Place(count' + skipped')
          /\ b \in (count' + skipped' - Size)..(count' + skipped' - 1)
          /\ \A k \in count'..(count' + skipped' - 1) : reorder_buf'[Place(k)] = None
      BY <2>2, <2>5, <2>6, <3>1, <3>2 DEF tidvars
    <3>4. QED
      BY <3>3 DEF Walk
  <2>7. CASE /\ j # index /\ ReleaseFrame(c, j, skipped)
             /\ skipped' = 0 /\ j' = (j + 1) % Size /\ UNCHANGED index
    <3>1. count' = count + skipped + 1
      BY <2>7 DEF ReleaseFrame
    <3>2. /\ count' + skipped' = count + skipped + 1
          /\ count' + skipped' - 1 = count + skipped
          /\ count' + skipped' - Size = count + skipped + 1 - Size
          /\ count'..(count' + skipped' - 1) = {}
      BY <1>0, <2>7, <3>1, Bounds
    <3>3. /\ b <= count' /\ index' = Place(b) /\ j' = Place(count' + skipped')
          /\ b \in (count' + skipped' - Size)..(count' + skipped' - 1)
      BY <1>0, <2>2, <2>3, <2>5, <2>7, <3>1, <3>2
    <3>4. QED
      BY <3>2, <3>3 DEF Walk
  <2>8. QED
    BY <1>2, <2>4, <2>6, <2>7 DEF ReleaseScan
<1>3. ASSUME \A d \in Ctx : pc'[d] # "scan"
      PROVE  Walk'
  BY <1>3 DEF Walk
<1>4. ASSUME \A d \in Ctx : pc'[d] = "scan" => pc[d] = "scan",
             UNCHANGED <<count, reorder_buf, index, j, skipped>>
      PROVE  Walk'
  BY <1>4 DEF Walk
<1>5. ASSUME NEW c \in Ctx, ReleaseFlush(c) \/ ReleaseRearm(c)
      PROVE  Walk'
  <2>1. \A d \in Ctx : pc[d] # "scan"
    BY <1>5 DEF ReleaseFlush, ReleaseRearm, LockHeld, Ctx
  <2>2. \A d \in Ctx : pc'[d] # "scan"
    BY <1>0, <1>5, <2>1 DEF ReleaseFlush, ReleaseRearm, Goto
  <2>3. QED
    BY <1>3, <2>2
<1>6. CASE RxAdvance \/ RxStore
  <2>1. \A d \in Ctx : pc[d] # "scan"
    BY <1>6 DEF RxAdvance, RxStore, LockHeld, Ctx
  <2>2. \A d \in Ctx : pc'[d] # "scan"
    BY <1>0, <1>6, <2>1 DEF RxAdvance, RxStore, Goto
  <2>3. QED
    BY <1>3, <2>2
<1>7. CASE r92su_free_tid_rcu
  BY <1>3, <1>7 DEF r92su_free_tid_rcu, Ctx
<1>8. ASSUME NEW f, RxFrame(f) \/ GetsLate(f)
      PROVE  Walk'
  BY <1>0, <1>4, <1>8 DEF RxFrame, GetsLate, Goto, tidvars, locals
<1>9. CASE \/ RxDrop \/ Handler("rx") \/ Handler("timer") \/ TimerFires
           \/ TimerLocks \/ r92su_free_tid \/ UNCHANGED vars
  BY <1>0, <1>4, <1>9
     DEF RxDrop, Handler, TimerFires, TimerLocks, r92su_free_tid, vars, Goto,
         tidvars, locals
<1>10. QED
  BY <1>1, <1>2, <1>5, <1>6, <1>7, <1>8, <1>9
     DEF Next, RxNext, TimerNext, Release, Ctx

\* Whoever leaves the lock with frames buffered leaves the timer pending.
LEMMA AttendedStep ==
  ASSUME IInv, [Next]_vars
  PROVE  Attended'
<1> USE DEF IInv
<1>0. DOMAIN pc = Ctx /\ "rx" \in Ctx /\ "timer" \in Ctx
  BY DEF TypeOK, Ctx
<1>1. ASSUME Attended, Buffered' \subseteq Buffered, tid' = tid,
             UNCHANGED reorder_timer, pc'["timer"] = pc["timer"],
             lock = "free" \/ pc["rx"] \in {"advance", "store", "drop"}
      PROVE  Attended'
  BY <1>1 DEF Attended
<1>2. ASSUME NEW f \in Frames, RxFrame(f)
      PROVE  Attended'
  <2>1. /\ lock = "free" /\ UNCHANGED <<reorder_buf, tid, reorder_timer>>
        /\ pc'["timer"] = pc["timer"]
    BY <1>0, <1>2 DEF RxFrame, tidvars, Goto
  <2>2. Buffered' = Buffered
    BY <2>1 DEF Buffered
  <2>3. QED
    BY <1>1, <2>1, <2>2
<1>3. CASE RxAdvance
  <2>1. /\ pc["rx"] = "advance" /\ UNCHANGED <<tid, reorder_timer>>
        /\ pc'["timer"] = pc["timer"]
    BY <1>0, <1>3 DEF RxAdvance, Goto
  <2>2. Buffered' \subseteq Buffered
    <3>1. UNCHANGED reorder_buf \/ ReleaseFrame("rx", Slot(head_seq), 0)
      BY <1>3 DEF RxAdvance, tidvars
    <3>2. UNCHANGED reorder_buf => Buffered' = Buffered
      BY DEF Buffered
    <3>3. QED
      BY <1>0, <3>1, <3>2, HeadReleasable, ReleaseWindow
  <2>3. QED
    BY <1>1, <2>1, <2>2
<1>4. CASE RxStore
  <2>1. CASE Goto("rx", "drop") /\ UNCHANGED reorder_buf
    <3>1. /\ pc["rx"] = "store" /\ UNCHANGED <<tid, reorder_timer>>
          /\ pc'["timer"] = pc["timer"]
      BY <1>0, <1>4, <2>1 DEF RxStore, Goto
    <3>2. Buffered' = Buffered
      BY <2>1 DEF Buffered
    <3>3. QED
      BY <1>1, <3>1, <3>2
  <2>2. CASE len = 0 /\ UNCHANGED reorder_buf
    <3>1. Buffered \in SUBSET Slots /\ Cardinality(Buffered) = 0
      BY <2>2 DEF Buffered, Window, LenMatches
    <3>2. Buffered = {}
      BY <3>1, FiniteBuffer, FS_EmptySet
    <3>3. Buffered' = {}
      BY <2>2, <3>2 DEF Buffered
    <3>4. QED
      BY <3>3 DEF Attended
  <2>3. CASE Goto("rx", "release") /\ UNCHANGED lock
    <3>1. lock = "rx" /\ pc'["rx"] = "release"
      BY <1>0, <1>4, <2>3 DEF RxStore, LockHeld, Goto
    <3>2. QED
      BY <2>3, <3>1 DEF Attended
  <2>4. QED
    BY <1>4, <2>1, <2>2, <2>3 DEF RxStore, tidvars
<1>5. CASE RxDrop
  <2>1. /\ pc["rx"] = "drop" /\ UNCHANGED <<reorder_buf, tid, reorder_timer>>
        /\ pc'["timer"] = pc["timer"]
    BY <1>0, <1>5 DEF RxDrop, tidvars, Goto
  <2>2. Buffered' = Buffered
    BY <2>1 DEF Buffered
  <2>3. QED
    BY <1>1, <2>1, <2>2
<1>6. ASSUME NEW c \in Ctx,
             ReleaseStart(c) \/ ReleaseScan(c) \/ ReleaseFlush(c)
      PROVE  Attended'
  <2>1. /\ lock = c
        /\ pc["rx"] \notin {"advance", "store", "drop"}
    BY <1>6
       DEF ReleaseStart, ReleaseScan, ReleaseFlush, LockHeld, Ctx
  <2>2. /\ pc'["rx"] \notin {"advance", "store", "drop"}
        /\ reorder_timer' = "on" \/ lock' = lock
    BY <1>0, <1>6, <2>1 DEF ReleaseStart, ReleaseScan, ReleaseFlush, Goto
  <2>3. lock # "free"
    BY <2>1 DEF Ctx
  <2>4. QED
    BY <2>2, <2>3 DEF Attended
<1>7. ASSUME NEW c \in Ctx, ReleaseRearm(c)
      PROVE  Attended'
  <2>1. /\ reorder_timer' = IF len # 0 THEN "on" ELSE "off"
        /\ UNCHANGED reorder_buf
    BY <1>7 DEF ReleaseRearm, tidvars
  <2>2. Buffered' = Buffered /\ Buffered \in SUBSET Slots
    BY <2>1 DEF Buffered
  <2>3. len = 0 => Buffered = {}
    BY <2>2, FiniteBuffer, FS_EmptySet DEF Window, LenMatches
  <2>4. QED
    BY <2>1, <2>2, <2>3 DEF Attended
<1>8. CASE Handler("rx") \/ Handler("timer") \/ UNCHANGED vars
           \/ (\E i \in Slots : GetsLate(i))
  <2>1. /\ UNCHANGED <<reorder_buf, tid, reorder_timer, lock>>
        /\ pc["timer"] = "lock" => pc'["timer"] = "lock"
        /\ pc'["rx"] = pc["rx"] \/ pc'["rx"] = "idle"
    BY <1>0, <1>8 DEF Handler, GetsLate, vars, tidvars, Goto
  <2>2. Buffered' = Buffered
    BY <2>1 DEF Buffered
  <2>3. QED
    BY <2>1, <2>2 DEF Attended
<1>9. CASE TimerFires
  BY <1>0, <1>9 DEF TimerFires, Goto, Attended
<1>10. CASE TimerLocks
  <2>1. CASE lock = "free" /\ lock' = "timer" /\ pc'["rx"] = pc["rx"]
    BY <2>1 DEF LockHeld, Attended
  <2>2. CASE tid' = "unlinked"
    BY <2>2 DEF Attended
  <2>3. QED
    BY <1>0, <1>10, <2>1, <2>2 DEF TimerLocks, Goto
<1>11. CASE r92su_free_tid \/ r92su_free_tid_rcu
  BY <1>11 DEF r92su_free_tid, r92su_free_tid_rcu, Attended
<1>12. QED
  BY <1>2, <1>3, <1>4, <1>5, <1>6, <1>7, <1>8, <1>9, <1>10, <1>11
     DEF Next, RxNext, TimerNext, Release, Ctx

(***************************************************************************)
(* Types                                                                   *)
(***************************************************************************)

\* Releasing a frame moves it from the buffer to the list of its context.
LEMMA ReleaseTypes ==
  ASSUME TypeOK, NEW c \in Ctx, NEW i \in Slots, NEW n, ReleaseFrame(c, i, n)
  PROVE  /\ reorder_buf' \in [Slots -> Frames \cup {None}]
         /\ late' \in SUBSET Slots /\ frames' \in [Ctx -> Seq(Frames)]
<1>1. CASE reorder_buf[i] = None
  BY <1>1 DEF ReleaseFrame, TypeOK
<1>2. CASE reorder_buf[i] # None
  <2>1. reorder_buf[i] \in Frames /\ frames[c] \in Seq(Frames)
    BY <1>2 DEF TypeOK
  <2>2. Append(frames[c], reorder_buf[i]) \in Seq(Frames)
    BY <2>1
  <2>3. frames' \in [Ctx -> Seq(Frames)]
    BY <1>2, <2>2 DEF ReleaseFrame, TypeOK
  <2>4. reorder_buf' \in [Slots -> Frames \cup {None}] /\ late' \in SUBSET Slots
    BY <1>2 DEF ReleaseFrame, TypeOK
  <2>5. QED
    BY <2>3, <2>4
<1>3. QED
  BY <1>1, <1>2

\* The buffer and the lists of released frames.
LEMMA BufferTypes ==
  ASSUME IInv, [Next]_vars
  PROVE  /\ reorder_buf' \in [Slots -> Frames \cup {None}]
         /\ late' \in SUBSET Slots /\ frames' \in [Ctx -> Seq(Frames)]
<1> DEFINE Typed == /\ reorder_buf' \in [Slots -> Frames \cup {None}]
                    /\ late' \in SUBSET Slots
                    /\ frames' \in [Ctx -> Seq(Frames)]
<1> USE DEF IInv
<1>1. ASSUME UNCHANGED <<reorder_buf, late, frames>> PROVE Typed
  BY <1>1 DEF TypeOK
<1>2. CASE RxAdvance
  <2>1. \/ UNCHANGED <<reorder_buf, late, frames>>
        \/ ReleaseFrame("rx", Slot(head_seq), 0)
    BY <1>2 DEF RxAdvance, tidvars
  <2>2. "rx" \in Ctx
    BY DEF Ctx
  <2>3. QED
    BY <1>1, <2>1, <2>2, HeadReleasable, ReleaseTypes
<1>3. ASSUME NEW c \in Ctx, Release(c) PROVE Typed
  <2>1. \/ UNCHANGED <<reorder_buf, late, frames>>
        \/ ReleaseFrame(c, Slot(head_seq), 0)
        \/ ReleaseFrame(c, j, skipped)
    BY <1>3
       DEF Release, ReleaseStart, ReleaseScan, ReleaseFlush, ReleaseRearm,
           tidvars
  <2>2. j \in Slots
    BY DEF TypeOK
  <2>3. QED
    BY <1>1, <2>1, <2>2, HeadReleasable, ReleaseTypes
<1>4. CASE RxStore
  <2>1. Slot(seq(skb)) \in Slots /\ skb \in Frames
    BY SlotIs, Bounds DEF TypeOK, Frames
  <2>2. Append(frames["rx"], skb) \in Seq(Frames)
    BY <2>1 DEF TypeOK, Ctx
  <2>3. \/ UNCHANGED <<reorder_buf, late, frames>>
        \/ /\ frames' = [frames EXCEPT !["rx"] = Append(@, skb)]
           /\ UNCHANGED <<reorder_buf, late>>
        \/ /\ reorder_buf' = [reorder_buf EXCEPT ![Slot(seq(skb))] = skb]
           /\ late' = late \ {Slot(seq(skb))} /\ UNCHANGED frames
    BY <1>4 DEF RxStore, tidvars
  <2>4. QED
    BY <2>1, <2>2, <2>3 DEF TypeOK
<1>5. ASSUME NEW c \in Ctx, UNCHANGED <<reorder_buf, late>>,
             frames' = [frames EXCEPT ![c] = << >>]
      PROVE  Typed
  BY <1>5 DEF TypeOK
<1>6. CASE RxDrop \/ Handler("rx") \/ Handler("timer")
  BY <1>5, <1>6 DEF RxDrop, Handler, tidvars, Ctx
<1>7. CASE r92su_free_tid_rcu \/ (\E i \in Slots : GetsLate(i))
  BY <1>7 DEF r92su_free_tid_rcu, GetsLate, TypeOK
<1>8. CASE \/ (\E f \in Frames : RxFrame(f)) \/ TimerFires \/ TimerLocks
           \/ r92su_free_tid \/ UNCHANGED vars
  BY <1>1, <1>8
     DEF RxFrame, TimerFires, TimerLocks, r92su_free_tid, vars, tidvars
<1>9. QED
  BY <1>2, <1>3, <1>4, <1>6, <1>7, <1>8 DEF Next, RxNext, TimerNext, Ctx

\* The local variables under the lock; skipped and j stay within the ring.
LEMMA LocalTypes ==
  ASSUME IInv, [Next]_vars
  PROVE  /\ skb' \in Frames /\ target' \in 0..(Mod - 1)
         /\ index' \in Slots /\ j' \in Slots /\ skipped' \in 0..Size
<1> DEFINE Typed == /\ skb' \in Frames /\ target' \in 0..(Mod - 1)
                    /\ index' \in Slots /\ j' \in Slots /\ skipped' \in 0..Size
<1> USE DEF IInv
<1>0. /\ skb \in Frames /\ target \in 0..(Mod - 1)
      /\ index \in Slots /\ j \in Slots /\ skipped \in 0..Size
  BY DEF TypeOK
<1>1. ASSUME NEW i \in Slots PROVE (i + 1) % Size \in Slots
  <2> DEFINE x == i + 1
  <2>1. x \in Int
    BY DEF Slots
  <2> HIDE DEF x
  <2>2. x % Size \in Slots
    BY <2>1, Bounds, DivMod DEF Slots
  <2>3. QED
    BY <2>2 DEF x
<1>2. ASSUME NEW f \in Frames, RxFrame(f) PROVE Typed
  <2>1. sn_add(sn_sub(seq(f), Size), 1) \in 0..(Mod - 1)
    <3> DEFINE x == f - Size + 1
    <3>1. f \in Int /\ x \in Int
      BY Bounds DEF Frames
    <3>2. sn_add(sn_sub(seq(f), Size), 1) = seq(x)
      BY <3>1, TargetIs
    <3> HIDE DEF x
    <3>3. seq(x) \in 0..(Mod - 1)
      BY <3>1, Bounds, DivMod DEF seq
    <3>4. QED
      BY <3>2, <3>3
  <2>2. QED
    BY <1>0, <1>2, <2>1 DEF RxFrame
<1>3. ASSUME NEW c \in Ctx, ReleaseStart(c) PROVE Typed
  <2>1. 1 \in 0..Size
    BY Bounds
  <2>2. QED
    BY <1>0, <1>1, <1>3, <2>1, HeadReleasable DEF ReleaseStart
<1>4. ASSUME NEW c \in Ctx, ReleaseScan(c) PROVE Typed
  <2>1. j # index => skipped + 1 \in 0..Size
    <3>1. j # index => skipped \in 0..(Size - 1)
      BY <1>4, WalkReleasable DEF ReleaseScan, Releasable
    <3>2. QED
      BY <3>1, Bounds
  <2>2. 0 \in 0..Size
    BY Bounds
  <2>3. QED
    BY <1>0, <1>1, <1>4, <2>1, <2>2 DEF ReleaseScan
<1>5. ASSUME UNCHANGED <<skb, locals>> PROVE Typed
  BY <1>0, <1>5 DEF locals
<1>6. ASSUME NEW c \in Ctx, ReleaseFlush(c) \/ ReleaseRearm(c) \/ Handler(c)
      PROVE  Typed
  BY <1>5, <1>6 DEF ReleaseFlush, ReleaseRearm, Handler
<1>7. CASE \/ RxAdvance \/ RxStore \/ RxDrop \/ TimerFires \/ TimerLocks
           \/ (\E i \in Slots : GetsLate(i)) \/ r92su_free_tid
           \/ r92su_free_tid_rcu \/ UNCHANGED vars
  BY <1>5, <1>7
     DEF RxAdvance, RxStore, RxDrop, TimerFires, TimerLocks, GetsLate,
         r92su_free_tid, r92su_free_tid_rcu, vars
<1>8. QED
  BY <1>2, <1>3, <1>4, <1>6, <1>7 DEF Next, RxNext, TimerNext, Release, Ctx

\* The counters, the timer and the life of the session.
LEMMA ScalarTypes ==
  ASSUME IInv, [Next]_vars
  PROVE  /\ count' \in Nat /\ last' \in Int
         /\ reorder_timer' \in {"off", "on"}
         /\ tid' \in {"live", "unlinked", "freed"}
<1> USE DEF IInv
<1>1. count' \in Nat /\ last' \in Int
  <2>0. count \in Nat /\ last \in Int
    BY DEF TypeOK
  <2>1. CASE UNCHANGED tidkept
    BY <2>0, <2>1 DEF tidkept
  <2>2. ASSUME NEW c \in Ctx, NEW i \in Slots, NEW n \in Nat,
               Releasable(i, n), ReleaseFrame(c, i, n)
        PROVE  count' \in Nat /\ last' \in Int
    BY <2>0, <2>2, FoundFrame DEF ReleaseFrame
  <2>3. CASE RxStore
    BY <2>0, <2>3, Bounds DEF RxStore, TypeOK, Frames, tidvars
  <2>4. CASE r92su_free_tid_rcu
    BY <2>0, <2>4 DEF r92su_free_tid_rcu
  <2>5. QED
    BY <2>1, <2>2, <2>3, <2>4, BufferCases
<1>2. /\ reorder_timer' \in {"off", "on"}
      /\ tid' \in {"live", "unlinked", "freed"}
  BY DEF TypeOK, Next, RxNext, TimerNext, Release, RxFrame, RxAdvance,
         RxStore, RxDrop, ReleaseStart, ReleaseScan, ReleaseFlush,
         ReleaseRearm, Handler, TimerFires, TimerLocks, GetsLate,
         r92su_free_tid, r92su_free_tid_rcu, vars
<1>3. QED
  BY <1>1, <1>2

\* Every step keeps the types: the head is a sequence number and the
\* buffer is not fuller than the window.
LEMMA TypeStep ==
  ASSUME IInv, [Next]_vars
  PROVE  TypeOK'
<1>1. head_seq' \in 0..(Mod - 1)
  <2>1. head_seq' = count' % Mod /\ count' \in Int
    BY WindowStep, ScalarTypes DEF Window, seq
  <2>2. QED
    BY <2>1, Bounds, DivMod
<1>2. len' \in 0..Size
  <2>1. len' = Cardinality(Buffered') /\ Buffered' \in SUBSET Slots
    BY WindowStep DEF Window, LenMatches, Buffered
  <2>2. QED
    BY <2>1, FiniteBuffer, Bounds
<1>3. LockHeld /\ TypeOK
  BY DEF IInv
<1>4. QED
  BY <1>1, <1>2, <1>3, BufferTypes, LocalTypes, ScalarTypes, LockStep
     DEF TypeOK

(***************************************************************************)
(* Theorems                                                                *)
(***************************************************************************)

\* A new session: the buffer is empty and the head is the first frame.
LEMMA InitIInv == Init => IInv
<1> SUFFICES ASSUME Init PROVE IInv
  OBVIOUS
<1> USE ReorderAssumption
<1>1. TypeOK
  <2>1. /\ reorder_buf \in [Slots -> Frames \cup {None}]
        /\ frames \in [Ctx -> Seq(Frames)] /\ late \in SUBSET Slots
        /\ pc \in [Ctx -> {"idle", "lock", "advance", "store", "release",
                           "scan", "flush", "rearm", "drop", "handler"}]
    BY DEF Init
  <2>2. /\ head_seq \in 0..(Mod - 1) /\ len \in 0..Size /\ skb \in Frames
        /\ target \in 0..(Mod - 1) /\ index \in Slots /\ j \in Slots
        /\ skipped \in 0..Size /\ count \in Nat /\ last \in Int
    BY DEF Init, Frames, Slots
  <2>3. QED
    BY <2>1, <2>2 DEF Init, TypeOK, Ctx
<1>2. Buffered = {}
  BY DEF Init, Buffered
<1>3. Window
  <2>1. len = Cardinality(Buffered)
    BY <1>2, FS_EmptySet DEF Init
  <2>2. head_seq = seq(count)
    <3>1. Ssn \in Int /\ -Mod <= Ssn /\ Ssn < Mod /\ Ssn >= 0
      BY Bounds
    <3>2. Ssn % Mod = Ssn
      BY <3>1, Bounds, ModSmall
    <3>3. QED
      BY <3>2 DEF Init, seq
  <2>3. QED
    BY <1>2, <2>1, <2>2 DEF Window, LenMatches
<1>4. LockHeld /\ InHand /\ Walk
  BY DEF Init, LockHeld, InHand, Walk, Ctx
<1>5. Attended /\ LastBehind
  BY <1>2, Bounds DEF Init, Attended, LastBehind
<1>6. QED
  BY <1>1, <1>3, <1>4, <1>5 DEF IInv

\* The inductive invariant holds in every behaviour.
LEMMA Inductive == Spec => []IInv
<1>1. ASSUME IInv, [Next]_vars PROVE IInv'
  <2>1. TypeOK /\ LockHeld
    BY <1>1 DEF IInv
  <2>2. QED
    BY <1>1, <2>1, TypeStep, LockStep, WindowStep, HandStep, WalkStep,
       AttendedStep
       DEF IInv
<1>2. QED
  BY InitIInv, <1>1, PTL DEF Spec

\* Type correctness: in particular tid->len never leaves 0..tid->size and no
\* slot outside of reorder_buf is used.
THEOREM TypeCorrect == Spec => []TypeOK
  BY Inductive, PTL DEF IInv

\* For every size of the buffer that divides the sequence space and is at
\* most a quarter of it, the window holds across the wrap of head_seq.
THEOREM WindowAlwaysHolds == Spec => []WindowHolds
<1>1. ASSUME IInv PROVE WindowHolds
  <2>1. ASSUME NEW i \in Buffered
        PROVE  i = Slot(seq(reorder_buf[i]))
    <3>1. reorder_buf[i] \in Int /\ i = Place(reorder_buf[i])
      BY <1>1, <2>1, Bounds DEF IInv, Window, TypeOK, Buffered, Frames
    <3>2. QED
      BY <3>1, SlotIs
  <2>2. QED
    BY <1>1, <2>1 DEF IInv, Window, WindowHolds
<1>2. QED
  BY Inductive, <1>1, PTL

\* No frame waits in the buffer of a live session with nobody coming for it.
THEOREM FramesAttended == Spec => []NoFrameForgotten
<1>1. IInv => NoFrameForgotten
  BY DEF IInv, Attended, NoFrameForgotten
<1>2. QED
  BY Inductive, <1>1, PTL

\* Frames leave the buffer in the order they were sent, at most once.
THEOREM FramesInOrder == Spec => InOrder
<1>1. ASSUME IInv, [Next]_vars PROVE [last' # last => last' > last]_vars
  BY <1>1, WindowStep
<1>2. QED
  BY Inductive, <1>1, PTL DEF Spec, InOrder
=============================================================================
