----------------------------- MODULE KeysProofs -----------------------------
(***************************************************************************)
(* Proofs about Keys for every number of keys, group slots and readers;    *)
(* from the line on, about Join (instance J) for every set of interface    *)
(* types.  The two share no state.                                         *)
(***************************************************************************)
EXTENDS Keys, JoinState, Sequences, FiniteSetTheorems, TLAPS

(***************************************************************************)
(* The inductive invariant                                                 *)
(***************************************************************************)

\* A key object is in one slot at most, and a key in a slot, or marked
\* uploaded, is one that was allocated.
SlotsApart ==
  /\ \A i, j \in Slot : slot[i] = slot[j] /\ slot[i] # None => i = j
  /\ \A i \in Slot : slot[i] # None => life[slot[i]] # "unused"
  /\ \A k \in uploaded : life[k] # "unused"

\* A live key is in some slot.
LiveHasSlot == \A k \in Key : life[k] = "live" => \E i \in Slot : slot[i] = k

\* With hardware encryption and as long as no command was refused, a key in
\* a slot is live and uploaded ...
Sound == nohwcrypt = "no" /\ refused = "no"
SlotIsLive ==
  Sound => \A i \in Slot : slot[i] # None =>
             life[slot[i]] = "live" /\ slot[i] \in uploaded

\* ... and a key in a reader's hands is live, or its grace period waits for
\* that reader.
HeldPinned ==
  \A r \in Readers : held[r] # None =>
    /\ r \in rcu
    /\ Sound => /\ life[held[r]] \in {"live", "dying"}
                /\ life[held[r]] = "dying" => r \in gp[held[r]]

IInv ==
  /\ TypeOK /\ SlotsApart /\ LiveHasSlot /\ SlotIsLive /\ HeldPinned
  /\ UploadedIsInFirmware

\* Initially there are no keys.
LEMMA InitIInv == Init => IInv
  BY KeysAssumption
     DEF Init, IInv, TypeOK, SlotsApart, LiveHasSlot, SlotIsLive, HeldPinned,
         UploadedIsInFirmware

\* r92su_internal_add_key, with every outcome of the upload.
LEMMA AddStep ==
  ASSUME IInv, NEW i \in Slot, r92su_add_key(i)
  PROVE  IInv'
<1> USE KeysAssumption DEF IInv, r92su_add_key, KeyFree, Outcomes, Refused
<1>1. TypeOK'
  BY DEF TypeOK
<1>2. SlotsApart'
  BY DEF TypeOK, SlotsApart
<1>3. LiveHasSlot'
  BY DEF TypeOK, LiveHasSlot
<1>4. SlotIsLive'
  BY DEF TypeOK, SlotsApart, SlotIsLive, Sound
<1>5. HeldPinned'
  BY DEF TypeOK, HeldPinned, Sound
<1>6. UploadedIsInFirmware'
  BY DEF TypeOK, SlotsApart, UploadedIsInFirmware
<1>7. QED
  BY <1>1, <1>2, <1>3, <1>4, <1>5, <1>6

\* r92su_del_key, with every outcome of the command.
LEMMA DelStep ==
  ASSUME IInv, NEW i \in Slot, r92su_del_key(i)
  PROVE  IInv'
<1> USE KeysAssumption DEF IInv, r92su_del_key, KeyFree, Outcomes, Refused
<1>1. TypeOK'
  BY DEF TypeOK
<1>2. SlotsApart'
  BY DEF TypeOK, SlotsApart
<1>3. LiveHasSlot'
  BY DEF TypeOK, LiveHasSlot
<1>4. SlotIsLive'
  BY DEF TypeOK, SlotsApart, SlotIsLive, Sound
<1>5. HeldPinned'
  BY DEF TypeOK, HeldPinned, Sound
<1>6. UploadedIsInFirmware'
  <2>1. /\ \A j \in Slot : slot[j] \in uploaded => fw[j] = slot[j]
        /\ UNCHANGED <<slot, uploaded>>
    BY DEF UploadedIsInFirmware, Slot
  <2>2. \A j \in Slot \ {deleting'} : fw'[j] = fw[j]
    BY DEF TypeOK
  <2>3. QED
    BY <2>1, <2>2 DEF UploadedIsInFirmware
<1>7. QED
  BY <1>1, <1>2, <1>3, <1>4, <1>5, <1>6

\* The key the firmware has deleted leaves its slot.
LEMMA UnpublishStep ==
  ASSUME IInv, del_key_unpublish
  PROVE  IInv'
<1> USE KeysAssumption DEF IInv, del_key_unpublish, KeyFree
<1>1. TypeOK'
  BY DEF TypeOK
<1>2. SlotsApart'
  BY DEF TypeOK, SlotsApart
<1>3. LiveHasSlot'
  BY DEF TypeOK, LiveHasSlot
<1>4. SlotIsLive'
  BY DEF TypeOK, SlotsApart, SlotIsLive, Sound
<1>5. HeldPinned'
  BY DEF TypeOK, HeldPinned, Sound
<1>6. UploadedIsInFirmware'
  BY DEF TypeOK, UploadedIsInFirmware
<1>7. QED
  BY <1>1, <1>2, <1>3, <1>4, <1>5, <1>6

\* The connection ends: every key of every slot is freed.
LEMMA LeaveStep ==
  ASSUME IInv, Leave
  PROVE  IInv'
<1> USE KeysAssumption DEF IInv, Leave, KeyFree
<1>1. TypeOK'
  BY DEF TypeOK
<1>2. SlotsApart'
  BY DEF TypeOK, SlotsApart
<1>3. LiveHasSlot'
  BY DEF LiveHasSlot
<1>4. SlotIsLive'
  BY DEF SlotIsLive
<1>5. HeldPinned'
  BY DEF TypeOK, HeldPinned, Sound
<1>6. UploadedIsInFirmware'
  BY DEF TypeOK, UploadedIsInFirmware
<1>7. QED
  BY <1>1, <1>2, <1>3, <1>4, <1>5, <1>6

\* A reader takes a key from its slot.
LEMMA TakeStep ==
  ASSUME IInv, NEW r \in Readers, NEW i \in Slot, ReaderTakes(r, i)
  PROVE  IInv'
<1> USE KeysAssumption DEF IInv, ReaderTakes
<1>1. TypeOK'
  BY DEF TypeOK
<1>2. SlotsApart'
  BY DEF SlotsApart
<1>3. LiveHasSlot'
  BY DEF LiveHasSlot
<1>4. SlotIsLive'
  BY DEF SlotIsLive, Sound
<1>5. HeldPinned'
  BY DEF SlotIsLive, HeldPinned, Sound
<1>6. UploadedIsInFirmware'
  BY DEF UploadedIsInFirmware
<1>7. QED
  BY <1>1, <1>2, <1>3, <1>4, <1>5, <1>6

\* A reader leaves: no grace period waits for it any more.
LEMMA ReaderLeaveStep ==
  ASSUME IInv, NEW r \in Readers, ReaderLeaves(r)
  PROVE  IInv'
<1> USE KeysAssumption DEF IInv, ReaderLeaves
<1>1. TypeOK'
  BY DEF TypeOK
<1>2. SlotsApart'
  BY DEF SlotsApart
<1>3. LiveHasSlot'
  BY DEF LiveHasSlot
<1>4. SlotIsLive'
  BY DEF SlotIsLive, Sound
<1>5. HeldPinned'
  BY DEF TypeOK, HeldPinned, Sound
<1>6. UploadedIsInFirmware'
  BY DEF UploadedIsInFirmware
<1>7. QED
  BY <1>1, <1>2, <1>3, <1>4, <1>5, <1>6

\* A key whose grace period is over is in no reader's hands.
LEMMA GracePeriodStep ==
  ASSUME IInv, NEW k \in Key, GracePeriodEnds(k)
  PROVE  IInv'
<1> USE KeysAssumption DEF IInv, GracePeriodEnds
<1>1. TypeOK'
  BY DEF TypeOK
<1>2. SlotsApart'
  BY DEF SlotsApart
<1>3. LiveHasSlot'
  BY DEF LiveHasSlot
<1>4. SlotIsLive'
  BY DEF SlotIsLive, Sound
<1>5. HeldPinned'
  BY DEF HeldPinned, Sound
<1>6. UploadedIsInFirmware'
  BY DEF UploadedIsInFirmware
<1>7. QED
  BY <1>1, <1>2, <1>3, <1>4, <1>5, <1>6

\* What does not touch the keys.
LEMMA ConnectStep ==
  ASSUME IInv, Connect \/ UNCHANGED vars
  PROVE  IInv'
<1> USE KeysAssumption DEF IInv, Connect, vars
<1>1. TypeOK'
  BY DEF TypeOK
<1>2. SlotsApart'
  BY DEF SlotsApart
<1>3. LiveHasSlot'
  BY DEF LiveHasSlot
<1>4. SlotIsLive'
  BY DEF SlotIsLive, Sound
<1>5. HeldPinned'
  BY DEF HeldPinned, Sound
<1>6. UploadedIsInFirmware'
  BY DEF UploadedIsInFirmware
<1>7. QED
  BY <1>1, <1>2, <1>3, <1>4, <1>5, <1>6

\* The inductive invariant holds in every behaviour.
LEMMA Inductive == Spec => []IInv
<1>1. ASSUME IInv, [Next]_vars PROVE IInv'
  BY <1>1, AddStep, DelStep, UnpublishStep, LeaveStep, TakeStep, ReaderLeaveStep,
     GracePeriodStep, ConnectStep
     DEF Next
<1>2. QED
  BY InitIInv, <1>1, PTL DEF Spec

\* Type correctness.
THEOREM TypeCorrect == Spec => []TypeOK
  BY Inductive, PTL DEF IInv

\* A key marked uploaded is the one that the firmware has in its slot, also
\* after refused commands and after connections that ended without telling
\* the firmware.
THEOREM UploadedMatchesFirmware == Spec => []UploadedIsInFirmware
  BY Inductive, PTL DEF IInv

\* No live key is lost or shared, whatever is replaced, deleted or refused.
THEOREM LiveKeysOwned == Spec => []LiveIsOwned
<1>1. ASSUME IInv PROVE LiveIsOwned
  <2> SUFFICES ASSUME NEW k \in Key, life[k] = "live"
               PROVE  Cardinality({i \in Slot : slot[i] = k}) = 1
    BY DEF LiveIsOwned
  <2>1. PICK i \in Slot : slot[i] = k
    BY <1>1 DEF IInv, LiveHasSlot
  <2>2. {j \in Slot : slot[j] = k} = {i}
    BY <1>1, <2>1, KeysAssumption DEF IInv, SlotsApart
  <2>3. QED
    BY <2>2, FS_Singleton
<1>2. QED
  BY Inductive, <1>1, PTL

\* With hardware encryption and no refused command, no reader is left with a
\* freed key.  Both conditions are needed: see KeyUnderRcu.
THEOREM RcuProtectsKeys ==
  ASSUME nohwcrypt = "no"
  PROVE  Spec => []KeyUnderRcu
<1>1. IInv => KeyUnderRcu
  BY DEF IInv, HeldPinned, Sound, KeyUnderRcu
<1>2. QED
  BY Inductive, <1>1, PTL

-----------------------------------------------------------------------------
(***************************************************************************)
(* Join, for every set of interface types                                  *)
(***************************************************************************)
CONSTANT IfTypes

J == INSTANCE Join

\* No more than one join is under way: the firmware's, its event's, the
\* queued work's or the running work's.
OneJoin ==
  /\ fw_join = "busy" => irq # "join_queue"
  /\ fw_join = "busy" \/ irq = "join_queue" => ~J!InQueue("connect")
  /\ fw_join = "busy" \/ irq = "join_queue" \/ J!InQueue("connect") =>
       worker \notin {"connect", "connect_free"}

\* A stopped device wants no network and has no request in it.
StoppedIsQuiet ==
  /\ user \in {"connect", "stop", "cancel_connect", "cancel_disconnect"} => link = "up"
  /\ state = "stop" =>
       /\ want_connect_bss = "null"
       /\ link = "down" \/ user \in {"cancel_connect", "cancel_disconnect"}

\* Unless the user asked again during a join: while a request is being made
\* no join is under way, while a network is wanted there is only one, and
\* nothing that ends in a report of a disconnect runs beside either.
JoinsAlone ==
  ~retried =>
    /\ user = "connect" => ~J!join_under_way
    /\ want_connect_bss = "bss" => OneJoin
    /\ J!reports_disconnect => user # "connect" /\ ~J!join_under_way

\* A pending work is queued once.
PendingOnce == queue \in Seq(J!Works) /\ J!IsInjective(queue)

\* The inductive invariant of both properties.
JoinInv ==
  PendingOnce /\ StoppedIsQuiet /\ JoinsAlone /\ J!ConnectedHasBss /\ J!DisconnectHasReason

-----------------------------------------------------------------------------

\* Taking the oldest work off a queue without repetitions.
LEMMA TailOnce ==
  ASSUME NEW q \in Seq(J!Works), J!IsInjective(q), q # << >>
  PROVE  /\ Tail(q) \in Seq(J!Works) /\ J!IsInjective(Tail(q)) /\ Head(q) \in J!Works
         /\ \A i \in DOMAIN Tail(q) :
              Tail(q)[i] # Head(q) /\ \E k \in DOMAIN q : q[k] = Tail(q)[i]
<1>1. /\ DOMAIN q = 1..Len(q) /\ Len(q) \in Nat /\ Len(q) >= 1
      /\ Head(q) = q[1] /\ Head(q) \in J!Works
  OBVIOUS
<1>2. /\ Tail(q) \in Seq(J!Works) /\ DOMAIN Tail(q) = 1..(Len(q) - 1)
      /\ \A i \in 1..(Len(q) - 1) : Tail(q)[i] = q[i + 1]
  BY <1>1
<1>3. \A a, b \in DOMAIN q : q[a] = q[b] => a = b
  BY DEF J!IsInjective
<1>4. \A a, b \in 1..(Len(q) - 1) : Tail(q)[a] = Tail(q)[b] => a = b
  <2> SUFFICES ASSUME NEW a \in 1..(Len(q) - 1), NEW b \in 1..(Len(q) - 1),
                      Tail(q)[a] = Tail(q)[b]
               PROVE  a = b
    OBVIOUS
  <2>1. a + 1 \in DOMAIN q /\ b + 1 \in DOMAIN q /\ q[a + 1] = q[b + 1]
    BY <1>1, <1>2
  <2>2. a + 1 = b + 1
    BY <2>1, <1>3
  <2> QED BY <2>2
<1>5. \A i \in 1..(Len(q) - 1) :
        Tail(q)[i] # Head(q) /\ \E k \in DOMAIN q : q[k] = Tail(q)[i]
  <2> SUFFICES ASSUME NEW i \in 1..(Len(q) - 1)
               PROVE  Tail(q)[i] # Head(q) /\ \E k \in DOMAIN q : q[k] = Tail(q)[i]
    OBVIOUS
  <2>1. i + 1 \in DOMAIN q /\ 1 \in DOMAIN q /\ i + 1 # 1 /\ Tail(q)[i] = q[i + 1]
    BY <1>1, <1>2
  <2> QED BY <2>1, <1>1, <1>3
<1> QED BY <1>1, <1>2, <1>4, <1>5 DEF J!IsInjective

\* Queueing a work that is not pending.
LEMMA AppendOnce ==
  ASSUME NEW q \in Seq(J!Works), J!IsInjective(q), NEW w \in J!Works,
         \A i \in DOMAIN q : q[i] # w
  PROVE  /\ Append(q, w) \in Seq(J!Works) /\ J!IsInjective(Append(q, w))
         /\ \A i \in DOMAIN Append(q, w) :
              Append(q, w)[i] = w \/ \E k \in DOMAIN q : q[k] = Append(q, w)[i]
<1> DEFINE r == Append(q, w)
<1>1. /\ DOMAIN q = 1..Len(q) /\ Len(q) \in Nat
      /\ r \in Seq(J!Works) /\ DOMAIN r = 1..(Len(q) + 1)
      /\ r[Len(q) + 1] = w /\ \A i \in 1..Len(q) : r[i] = q[i]
  OBVIOUS
<1> HIDE DEF r
<1>2. \A a, b \in DOMAIN q : q[a] = q[b] => a = b
  BY DEF J!IsInjective
<1>3. \A i \in 1..(Len(q) + 1) : i \in 1..Len(q) \/ i = Len(q) + 1
  BY <1>1
<1>4. \A a, b \in DOMAIN r : r[a] = r[b] => a = b
  BY <1>1, <1>2, <1>3
<1>5. \A i \in DOMAIN r : r[i] = w \/ \E k \in DOMAIN q : q[k] = r[i]
  BY <1>1, <1>3
<1> QED BY <1>1, <1>4, <1>5 DEF J!IsInjective, r

\* The second part of a concatenation.
LEMMA ConcatSecond ==
  ASSUME NEW S, NEW a \in Seq(S), NEW b \in Seq(S),
         NEW n \in 1..(Len(a) + Len(b)), ~(n <= Len(a))
  PROVE  (a \o b)[n] = b[n - Len(a)]
OBVIOUS

\* Taking one work off the queue.
LEMMA RemoveOnce ==
  ASSUME NEW q \in Seq(J!Works), J!IsInjective(q), NEW i \in DOMAIN q
  PROVE  /\ J!RemoveAt(q, i) \in Seq(J!Works) /\ J!IsInjective(J!RemoveAt(q, i))
         /\ \A n \in DOMAIN J!RemoveAt(q, i) :
              \E k \in DOMAIN q : q[k] = J!RemoveAt(q, i)[n]
<1> DEFINE a == SubSeq(q, 1, i - 1)
           b == SubSeq(q, i + 1, Len(q))
           r == J!RemoveAt(q, i)
<1>0. DOMAIN q = 1..Len(q) /\ Len(q) \in Nat /\ i \in 1..Len(q)
  OBVIOUS
<1>1. /\ a \in Seq(J!Works) /\ Len(a) = i - 1
      /\ \A n \in 1..(i - 1) : a[n] = q[n]
  OBVIOUS
<1>2. /\ b \in Seq(J!Works) /\ Len(b) = Len(q) - i
      /\ \A n \in 1..(Len(q) - i) : b[n] = q[n + i]
  OBVIOUS
<1>3. r = a \o b
  BY DEF J!RemoveAt
<1> HIDE DEF a, b, r
<1>4. r \in Seq(J!Works) /\ DOMAIN r = 1..(Len(q) - 1)
  <2>1. Len(a \o b) = Len(q) - 1 /\ a \o b \in Seq(J!Works)
    BY <1>1, <1>2
  <2> QED BY <2>1, <1>3
<1>5. \A n \in 1..(Len(q) - 1) : r[n] = IF n < i THEN q[n] ELSE q[n + 1]
  <2> SUFFICES ASSUME NEW n \in 1..(Len(q) - 1)
               PROVE  r[n] = IF n < i THEN q[n] ELSE q[n + 1]
    OBVIOUS
  <2>1. CASE n < i
    <3>1. n \in 1..(i - 1) /\ n <= Len(a) /\ n \in 1..(Len(a) + Len(b))
      BY <2>1, <1>0, <1>1, <1>2
    <3>2. (a \o b)[n] = a[n]
      BY <3>1, <1>1, <1>2
    <3> QED BY <3>1, <3>2, <2>1, <1>1, <1>3
  <2>2. CASE ~(n < i)
    <3>1. n - (i - 1) \in 1..(Len(q) - i) /\ ~(n <= Len(a)) /\ n \in 1..(Len(a) + Len(b))
          /\ (n - (i - 1)) + i = n + 1
      BY <2>2, <1>0, <1>1, <1>2
    <3>2. (a \o b)[n] = b[n - Len(a)]
      BY <3>1, <1>1, <1>2, ConcatSecond
    <3>3. b[n - (i - 1)] = q[n + 1]
      BY <3>1, <1>2
    <3> QED BY <3>2, <3>3, <2>2, <1>1, <1>3
  <2> QED BY <2>1, <2>2
<1>6. \A c, d \in DOMAIN q : q[c] = q[d] => c = d
  BY DEF J!IsInjective
<1>7. ASSUME NEW c \in 1..(Len(q) - 1), NEW d \in 1..(Len(q) - 1), r[c] = r[d]
      PROVE  c = d
  <2>1. c \in DOMAIN q /\ c + 1 \in DOMAIN q /\ d \in DOMAIN q /\ d + 1 \in DOMAIN q
    BY <1>0
  <2>2. (IF c < i THEN c ELSE c + 1) = (IF d < i THEN d ELSE d + 1)
    BY <2>1, <1>5, <1>6, <1>7
  <2> QED BY <2>2, <1>0
<1>8. \A n \in 1..(Len(q) - 1) : n \in DOMAIN q /\ n + 1 \in DOMAIN q
  BY <1>0
<1>9. \A n \in 1..(Len(q) - 1) : \E k \in DOMAIN q : q[k] = r[n]
  BY <1>5, <1>8
<1> QED BY <1>4, <1>7, <1>9 DEF J!IsInjective, r

\* What the steps do to the queue.
LEMMA QueuesOnce ==
  ASSUME PendingOnce, NEW w \in J!Works
  PROVE  /\ queue' = queue => PendingOnce' /\ (J!InQueue("connect")' <=> J!InQueue("connect"))
         /\ queue' = J!QueueWork(w) =>
              PendingOnce' /\ (J!InQueue("connect")' => w = "connect" \/ J!InQueue("connect"))
         /\ queue' = J!CancelWork(w) =>
              PendingOnce' /\ (J!InQueue("connect")' => J!InQueue("connect"))
         /\ queue # << >> /\ queue' = Tail(queue) =>
              /\ PendingOnce' /\ Head(queue) \in J!Works
              /\ J!InQueue("connect")' => J!InQueue("connect") /\ Head(queue) # "connect"
              /\ Head(queue) = "connect" => J!InQueue("connect")
<1>0. queue \in Seq(J!Works) /\ J!IsInjective(queue)
  BY DEF PendingOnce
<1>1. queue' = queue => PendingOnce' /\ (J!InQueue("connect")' <=> J!InQueue("connect"))
  BY <1>0 DEF PendingOnce, J!InQueue, J!IsInjective
<1>2. ASSUME queue' = J!QueueWork(w)
      PROVE  PendingOnce' /\ (J!InQueue("connect")' => w = "connect" \/ J!InQueue("connect"))
  <2>1. CASE J!InQueue(w)
    BY <1>1, <1>2, <2>1 DEF J!QueueWork
  <2>2. CASE ~J!InQueue(w)
    <3>1. queue' = Append(queue, w) /\ \A i \in DOMAIN queue : queue[i] # w
      BY <1>2, <2>2 DEF J!QueueWork, J!InQueue
    <3>2. /\ queue' \in Seq(J!Works) /\ J!IsInjective(queue')
          /\ \A i \in DOMAIN queue' :
               queue'[i] = w \/ \E k \in DOMAIN queue : queue[k] = queue'[i]
      BY <3>1, <1>0, AppendOnce
    <3> QED BY <3>2 DEF PendingOnce, J!InQueue, J!IsInjective
  <2> QED BY <2>1, <2>2
<1>3. ASSUME queue' = J!CancelWork(w)
      PROVE  PendingOnce' /\ (J!InQueue("connect")' => J!InQueue("connect"))
  <2>1. CASE J!InQueue(w)
    <3> DEFINE i == CHOOSE i \in DOMAIN queue : queue[i] = w
    <3>1. i \in DOMAIN queue
      BY <2>1 DEF J!InQueue
    <3>2. queue' = J!RemoveAt(queue, i)
      BY <1>3, <2>1 DEF J!CancelWork
    <3> HIDE DEF i
    <3>3. /\ queue' \in Seq(J!Works) /\ J!IsInjective(queue')
          /\ \A n \in DOMAIN queue' : \E k \in DOMAIN queue : queue[k] = queue'[n]
      BY <3>1, <3>2, <1>0, RemoveOnce
    <3> QED BY <3>3 DEF PendingOnce, J!InQueue, J!IsInjective
  <2>2. CASE ~J!InQueue(w)
    BY <1>1, <1>3, <2>2 DEF J!CancelWork
  <2> QED BY <2>1, <2>2
<1>4. ASSUME queue # << >>, queue' = Tail(queue)
      PROVE  /\ PendingOnce' /\ Head(queue) \in J!Works
             /\ J!InQueue("connect")' => J!InQueue("connect") /\ Head(queue) # "connect"
             /\ Head(queue) = "connect" => J!InQueue("connect")
  <2>1. /\ queue' \in Seq(J!Works) /\ J!IsInjective(queue') /\ Head(queue) \in J!Works
        /\ \A i \in DOMAIN queue' :
             queue'[i] # Head(queue) /\ \E k \in DOMAIN queue : queue[k] = queue'[i]
    BY <1>4, <1>0, TailOnce
  <2>2. 1 \in DOMAIN queue /\ queue[1] = Head(queue)
    BY <1>0, <1>4
  <2> QED BY <2>1, <2>2 DEF PendingOnce, J!InQueue, J!IsInjective
<1> QED BY <1>1, <1>2, <1>3, <1>4

-----------------------------------------------------------------------------

\* TypeOK without the queue and retried.
PlaceTypes ==
  /\ state \in {"dead", "unload", "stop", "open", "connected"}
  /\ iftype \in {"station", "adhoc", "monitor"}
  /\ link \in {"down", "up"}
  /\ user \in {"idle", "connect", "stop", "cancel_connect",
               "cancel_disconnect", "unregister", "gone"}
  /\ worker \in J!Works \cup {"idle", "connect_free"}
  /\ irq \in {"idle", "join_queue"}
  /\ want_connect_bss \in {"null", "bss"}
  /\ connect_bss \in {"null", "bss"}
  /\ connect_result \in {"null", "ok", "fail", "freed"}
  /\ assoc_ie \in {"null", "valid", "freed"}
  /\ group_key \in {"null", "valid", "freed"}
  /\ sta \in {"null", "valid"}
  /\ sme \in {"idle", "connecting", "connected"}
  /\ fw_join \in {"idle", "busy"}

\* Every step preserves them.
LEMMA PlaceTypesNext ==
  ASSUME IfTypes \subseteq {"station", "adhoc", "monitor"},
         PlaceTypes, PendingOnce, [J!Next]_J!vars
  PROVE  PlaceTypes'
<1> USE DEF PlaceTypes, J!bssvars, J!ifvars
<1>1. CASE J!r92su_open
  BY <1>1 DEF J!r92su_open
<1>2. ASSUME NEW t \in IfTypes, J!r92su_change_virtual_intf(t)
      PROVE  PlaceTypes'
  BY <1>2 DEF J!r92su_change_virtual_intf
<1>3. CASE J!ConnectEnter
  BY <1>3 DEF J!ConnectEnter
<1>4. CASE J!ConnectNoScan \/ J!ConnectNothing
  BY <1>4 DEF J!ConnectNoScan, J!ConnectNothing, J!SmeAfterError
<1>5. CASE J!ConnectError
  BY <1>5 DEF J!ConnectError, J!SmeAfterError, J!SharedKey, J!KFree
<1>6. CASE J!ConnectJoin
  BY <1>6 DEF J!ConnectJoin, J!SharedKey
<1>7. CASE J!r92su_disconnect
  BY <1>7
    DEF J!r92su_disconnect, J!LeaveNetwork, J!r92su_bss_free_connected,
      J!r92su_bss_free, J!KFree
<1>8. CASE J!GoingDown
  BY <1>8
    DEF J!GoingDown, J!LeaveNetwork, J!r92su_bss_free_connected,
      J!r92su_bss_free, J!KFree
<1>9. CASE J!StopLocked
  BY <1>9 DEF J!StopLocked, J!KFree
<1>10. CASE J!StopCancelConnect \/ J!StopCancelDisconnect
  BY <1>10 DEF J!StopCancelConnect, J!StopCancelDisconnect
<1>11. CASE J!UnregisterBegin \/ J!UnregisterEnd
  BY <1>11 DEF J!UnregisterBegin, J!UnregisterEnd
<1>12. CASE J!StartWork
  BY <1>12 DEF J!StartWork, PendingOnce
<1>13. CASE J!r92su_disconnect_work
  BY <1>13
    DEF J!r92su_disconnect_work, J!r92su_bss_free_connected, J!r92su_bss_free,
      J!KFree
<1>14. CASE J!ConnectWorkOut
  BY <1>14 DEF J!ConnectWorkOut, J!KFree
<1>15. CASE J!ConnectWorkFail \/ J!ConnectWorkJoin
  BY <1>15 DEF J!ConnectWorkFail, J!ConnectWorkJoin
<1>16. CASE J!ConnectWorkFree
  BY <1>16 DEF J!ConnectWorkFree, J!r92su_bss_free, J!KFree
<1>17. ASSUME NEW r \in {"ok", "fail", "null"}, J!JoinEvent(r)
      PROVE  PlaceTypes'
  BY <1>17 DEF J!JoinEvent
<1>18. CASE J!JoinQueue \/ J!c2h_del_sta_event \/ J!r92su_mark_dead
  BY <1>18 DEF J!JoinQueue, J!c2h_del_sta_event, J!r92su_mark_dead
<1>19. CASE UNCHANGED J!vars
  BY <1>19 DEF J!vars
<1> HIDE DEF PlaceTypes
<1> QED
  BY <1>1, <1>2, <1>3, <1>4, <1>5, <1>6, <1>7, <1>8, <1>9, <1>10, <1>11,
      <1>12, <1>13, <1>14, <1>15, <1>16, <1>17, <1>18, <1>19
    DEF J!Next, J!UserNext, J!WorkerNext, J!ConnectWork, J!IrqNext

\* Every step queues a work at most once.
LEMMA PendingNext ==
  ASSUME PendingOnce, [J!Next]_J!vars
  PROVE  PendingOnce'
<1>1. "connect" \in J!Works /\ "disconnect" \in J!Works
  BY DEF J!Works
<1>2. \/ queue' = queue
      \/ \E w \in J!Works : queue' = J!QueueWork(w) \/ queue' = J!CancelWork(w)
      \/ queue # << >> /\ queue' = Tail(queue)
  BY <1>1
    DEF J!Next, J!UserNext, J!WorkerNext, J!ConnectWork, J!IrqNext, J!vars,
      J!r92su_open, J!r92su_change_virtual_intf, J!ConnectEnter,
      J!ConnectNoScan, J!ConnectNothing, J!ConnectError, J!ConnectJoin,
      J!r92su_disconnect, J!GoingDown, J!StopLocked, J!StopCancelConnect,
      J!StopCancelDisconnect, J!UnregisterBegin, J!UnregisterEnd, J!StartWork,
      J!r92su_disconnect_work, J!ConnectWorkOut, J!ConnectWorkFail,
      J!ConnectWorkJoin, J!ConnectWorkFree, J!JoinEvent, J!JoinQueue,
      J!c2h_del_sta_event, J!r92su_mark_dead
<1> QED BY <1>1, <1>2, QueuesOnce

\* The variables of Join keep their types, if the interface types are those
\* that r92su_change_virtual_intf knows.
THEOREM JoinTypeCorrect ==
  ASSUME IfTypes \subseteq {"station", "adhoc", "monitor"}
  PROVE  J!Spec => []J!TypeOK
<1> DEFINE Types == PlaceTypes /\ PendingOnce /\ retried \in BOOLEAN
<1>1. Types => J!TypeOK
  BY DEF J!TypeOK, PlaceTypes, PendingOnce
<1>2. J!Init => Types
  <2>1. J!Init => PlaceTypes /\ PendingOnce
    BY DEF J!Init, PlaceTypes, PendingOnce, J!IsInjective
  <2>2. J!Init => retried \in BOOLEAN
    BY Zenon DEF J!Init
  <2> QED BY <2>1, <2>2
<1>3. Types /\ [J!Next]_J!vars => Types'
  <2> SUFFICES ASSUME Types, [J!Next]_J!vars
               PROVE  Types'
    OBVIOUS
  <2>1. PlaceTypes' /\ PendingOnce'
    BY PlaceTypesNext, PendingNext
  <2>2. \/ retried' = retried \/ retried' = FALSE
        \/ retried' = (retried \/ J!join_under_way)
    BY DEF J!Next, J!UserNext, J!WorkerNext, J!ConnectWork, J!IrqNext, J!vars,
        J!ifvars, J!r92su_open, J!r92su_change_virtual_intf, J!ConnectEnter,
        J!ConnectNoScan, J!ConnectNothing, J!ConnectError, J!ConnectJoin,
        J!r92su_disconnect, J!GoingDown, J!StopLocked, J!StopCancelConnect,
        J!StopCancelDisconnect, J!UnregisterBegin, J!UnregisterEnd,
        J!StartWork, J!r92su_disconnect_work, J!ConnectWorkOut,
        J!ConnectWorkFail, J!ConnectWorkJoin, J!ConnectWorkFree, J!JoinEvent,
        J!JoinQueue, J!c2h_del_sta_event, J!r92su_mark_dead
  <2>3. retried' \in BOOLEAN
    BY <2>2, Zenon
  <2> QED BY <2>1, <2>3
<1> HIDE DEF Types
<1> QED BY <1>1, <1>2, <1>3, PTL DEF J!Spec

-----------------------------------------------------------------------------

\* The initial states.
LEMMA JoinInit == J!Init => JoinInv
BY DEF J!Init, JoinInv, PendingOnce, J!IsInjective, StoppedIsQuiet,
    JoinsAlone, J!ConnectedHasBss, J!DisconnectHasReason, J!join_under_way,
    OneJoin, J!InQueue, J!reports_disconnect

\* Every step preserves the invariant.
LEMMA JoinNext ==
  ASSUME JoinInv, [J!Next]_J!vars
  PROVE  JoinInv'
<1>0. PendingOnce /\ "connect" \in J!Works /\ "disconnect" \in J!Works
  BY DEF JoinInv, J!Works
<1>q. queue' = queue => PendingOnce' /\ (J!InQueue("connect")' <=> J!InQueue("connect"))
  BY <1>0, QueuesOnce
<1> USE DEF JoinInv, StoppedIsQuiet, JoinsAlone, J!ConnectedHasBss,
    J!DisconnectHasReason, J!join_under_way, OneJoin, J!reports_disconnect,
    J!r92su_is_open, J!r92su_is_connected, J!bssvars, J!ifvars
\* The user
<1>1. CASE J!r92su_open
  BY <1>q, <1>1 DEF J!r92su_open
<1>2. ASSUME NEW t \in IfTypes, J!r92su_change_virtual_intf(t)
      PROVE  JoinInv'
  BY <1>q, <1>2 DEF J!r92su_change_virtual_intf
<1>3. CASE J!ConnectEnter
  BY <1>q, <1>3 DEF J!ConnectEnter
<1>4. CASE J!ConnectNoScan
  BY <1>q, <1>4 DEF J!ConnectNoScan
<1>5. CASE J!ConnectNothing
  BY <1>q, <1>5 DEF J!ConnectNothing
<1>6. CASE J!ConnectError
  BY <1>q, <1>6 DEF J!ConnectError
<1>7. CASE J!ConnectJoin
  BY <1>q, <1>7 DEF J!ConnectJoin
<1>8. CASE J!r92su_disconnect
  BY <1>q, <1>8
    DEF J!r92su_disconnect, J!LeaveNetwork, J!r92su_bss_free_connected,
      J!r92su_bss_free
<1>9. CASE J!GoingDown
  BY <1>q, <1>9
    DEF J!GoingDown, J!LeaveNetwork, J!r92su_bss_free_connected,
      J!r92su_bss_free
<1>10. CASE J!StopLocked
  BY <1>q, <1>10 DEF J!StopLocked
<1>11. CASE J!StopCancelConnect
  <2>1. PendingOnce' /\ (J!InQueue("connect")' => J!InQueue("connect"))
    BY <1>0, <1>11, QueuesOnce DEF J!StopCancelConnect
  <2> QED BY <1>11, <2>1 DEF J!StopCancelConnect
<1>12. CASE J!StopCancelDisconnect
  <2>1. PendingOnce' /\ (J!InQueue("connect")' => J!InQueue("connect"))
    BY <1>0, <1>12, QueuesOnce DEF J!StopCancelDisconnect
  <2> QED BY <1>12, <2>1 DEF J!StopCancelDisconnect
<1>13. CASE J!UnregisterBegin \/ J!UnregisterEnd
  BY <1>q, <1>13 DEF J!UnregisterBegin, J!UnregisterEnd
\* The works
<1>14. CASE J!StartWork
  <2>1. /\ PendingOnce' /\ Head(queue) \in J!Works
        /\ J!InQueue("connect")' => J!InQueue("connect") /\ Head(queue) # "connect"
        /\ Head(queue) = "connect" => J!InQueue("connect")
    BY <1>0, <1>14, QueuesOnce DEF J!StartWork
  <2> QED BY <1>14, <2>1 DEF J!StartWork, J!Works
<1>15. CASE J!r92su_disconnect_work
  BY <1>q, <1>15
    DEF J!r92su_disconnect_work, J!r92su_bss_free_connected, J!r92su_bss_free
<1>16. CASE J!ConnectWorkOut
  BY <1>q, <1>16 DEF J!ConnectWorkOut
<1>17. CASE J!ConnectWorkFail
  BY <1>q, <1>17 DEF J!ConnectWorkFail
<1>18. CASE J!ConnectWorkJoin
  BY <1>q, <1>18 DEF J!ConnectWorkJoin
<1>19. CASE J!ConnectWorkFree
  BY <1>q, <1>19 DEF J!ConnectWorkFree, J!r92su_bss_free
\* The events
<1>20. ASSUME NEW r \in {"ok", "fail", "null"}, J!JoinEvent(r)
       PROVE  JoinInv'
  BY <1>q, <1>20 DEF J!JoinEvent
<1>21. CASE J!JoinQueue
  <2>1. PendingOnce'
    BY <1>0, <1>21, QueuesOnce DEF J!JoinQueue
  <2> QED BY <1>21, <2>1 DEF J!JoinQueue
<1>22. CASE J!c2h_del_sta_event
  <2>1. PendingOnce' /\ (J!InQueue("connect")' => J!InQueue("connect"))
    BY <1>0, <1>22, QueuesOnce DEF J!c2h_del_sta_event
  <2> QED BY <1>22, <2>1 DEF J!c2h_del_sta_event
<1>23. CASE J!r92su_mark_dead
  BY <1>q, <1>23 DEF J!r92su_mark_dead
<1>24. CASE UNCHANGED J!vars
  BY <1>q, <1>24 DEF J!vars
<1> HIDE DEF JoinInv
<1> QED
  BY <1>1, <1>2, <1>3, <1>4, <1>5, <1>6, <1>7, <1>8, <1>9, <1>10, <1>11,
      <1>12, <1>13, <1>14, <1>15, <1>16, <1>17, <1>18, <1>19, <1>20, <1>21,
      <1>22, <1>23, <1>24
    DEF J!Next, J!UserNext, J!WorkerNext, J!ConnectWork, J!IrqNext

\* The invariant holds in every behaviour.
LEMMA JoinInductive == J!Spec => []JoinInv
<1>1. J!Init => JoinInv
  BY JoinInit
<1>2. JoinInv /\ [J!Next]_J!vars => JoinInv'
  BY JoinNext
<1> QED BY <1>1, <1>2, PTL DEF J!Spec

\* Whatever order the user's requests, the join and del_sta events, the
\* works, r92su_stop and r92su_mark_dead come in: R92SU_CONNECTED means a
\* connect_bss, and for a station that was not asked again during a join a
\* peer in the station table; and connect_bss is set only while connected,
\* or on a dead device that is not closed yet.
THEOREM ConnectedAlwaysHasBss == J!Spec => []ConnectedHasBss
<1>1. JoinInv => ConnectedHasBss
  BY DEF JoinInv, J!ConnectedHasBss, ConnectedHasBss
<1> QED BY <1>1, JoinInductive, PTL

\* While the user does not ask again during a join, no disconnect is reported
\* to cfg80211 for a connection that it does not believe in, whatever order
\* the join event, the works and r92su_stop come in.
THEOREM DisconnectAlwaysHasReason == J!Spec => []DisconnectHasReason
<1>1. JoinInv => DisconnectHasReason
  BY DEF JoinInv, J!DisconnectHasReason, DisconnectHasReason,
    J!reports_disconnect, reports_disconnect
<1> QED BY <1>1, JoinInductive, PTL
=============================================================================
