---------------------------- MODULE RtlUsbProofs ----------------------------
(***************************************************************************)
(* Proofs about RtlUsb for every number of contexts, frames, commands,     *)
(* receive URBs and restarts; from the line on, about RtlPs (instance Ps), *)
(* the other modelled part of rtlwifi, for every bound on the races seen.  *)
(* The two share no state.                                                 *)
(***************************************************************************)
EXTENDS RtlUsb, RtlPsState, FiniteSetTheorems, TLAPS

(***************************************************************************)
(* The inductive invariant                                                 *)
(***************************************************************************)
Held(f) == \E c \in Ctx : skb[c] = f
Somewhere(f) == f \in fresh \/ Queued(f) \/ Held(f) \/ f \in tx_flight

\* The places a frame can be in exclude each other; a frame that met no error
\* and entered before the first double free is in one until it is freed, once.
OnePlace ==
  /\ \A i, k \in 1..Len(tx_wait) : tx_wait[i] = tx_wait[k] => i = k
  /\ \A a, b \in Ctx : skb[a] = skb[b] /\ skb[a] # NoFrame => a = b
  /\ \A f \in Frames :
       /\ f \in fresh => ~Queued(f) /\ ~Held(f) /\ f \notin tx_flight
       /\ Queued(f) => ~Held(f) /\ f \notin tx_flight
       /\ Held(f) => f \notin tx_flight
       /\ f \notin faulty \cup spoiled => freed[f] = IF Somewhere(f) THEN 0 ELSE 1

\* A context has a frame in hand exactly at these places; one that is about to
\* free a second time has freed it already.
HandsMatch ==
  \A c \in Ctx :
    /\ skb[c] \in Frames <=>
         pc[c] \in {"anchor", "submit", "complete", "refree", "refree_skb"}
    /\ pc[c] \in {"refree", "refree_skb"} => skb[c] \in spoiled

\* Where the task is, against what mac80211 and the device believe: outside
\* of a session only hw_init sends.
SendersQuiet ==
  /\ running => op = "idle" /\ (state = "start" \/ unstarted)
  /\ unstarted => running /\ state = "stop"
  /\ op \in {"receive", "rx_kill"} => state = "start"
  /\ op \in {"init", "set_start", "stop_kill"} => state = "stop"
  /\ \A c \in Senders \cup {Task} :
       pc[c] # "idle" => running \/ (c = Task /\ op = "init")

\* After rtl_usb_disconnect the transmit path is empty, but for frames whose
\* URB lost its anchor to a double free and what their completions do.
GoneIsEmpty ==
  op = "gone" => /\ tx_wait = << >> /\ tx_flight \subseteq spoiled
                 /\ \A c \in Ctx :
                      /\ pc[c] \in {"idle", "complete", "inc", "get", "dec"}
                      /\ skb[c] \in spoiled \cup {NoFrame}

\* The receiver: empty outside of a session; a session without its URBs
\* began with a failure.
RxEmpty ==
  /\ rx_flight = 0 /\ rx_cb = FALSE /\ rx_cleanup = 0
  /\ rx_queue = 0 /\ tasklet = FALSE
RxCounted ==
  /\ RxMade <= RxUrbNum
  /\ op = "idle" /\ ~running => RxEmpty
  /\ op \in {"init", "set_start", "kill_tx", "gone"} => RxEmpty
  /\ running => RxMade = RxUrbNum \/ rx_failed \/ unstarted
  /\ unstarted => RxEmpty
  /\ op = "rx_kill" => rx_failed
  /\ op = "idle" /\ ~running /\ state = "start" => rx_failed

IInv ==
  /\ TypeOK /\ OnePlace /\ HandsMatch /\ SendersQuiet /\ GoneIsEmpty
  /\ CounterExact /\ RxCounted

(***************************************************************************)
(* Lemmas on the queue, the counts and the frame conditions                *)
(***************************************************************************)

\* Taking the oldest frame off the queue shifts the others by one place.
LEMMA QueueHead ==
  ASSUME NEW q \in Seq(Frames), q # << >>
  PROVE  /\ Head(q) = q[1] /\ Head(q) \in Frames /\ 1 \in 1..Len(q)
         /\ Tail(q) \in Seq(Frames) /\ Len(Tail(q)) = Len(q) - 1
         /\ \A i \in 1..Len(Tail(q)) : Tail(q)[i] = q[i + 1] /\ i + 1 \in 1..Len(q)
         /\ Len(q) \in Nat
  OBVIOUS

\* Appending a frame leaves the older ones in place.
LEMMA QueueAppend ==
  ASSUME NEW q \in Seq(Frames), NEW f \in Frames
  PROVE  /\ Append(q, f) \in Seq(Frames) /\ Len(Append(q, f)) = Len(q) + 1
         /\ \A i \in 1..Len(q) : Append(q, f)[i] = q[i]
         /\ Append(q, f)[Len(q) + 1] = f
         /\ Len(q) \in Nat
  OBVIOUS

\* Taking a frame out of the middle shifts the younger ones by one place.
LEMMA QueueWithout ==
  ASSUME NEW q \in Seq(Frames), NEW n \in 1..Len(q)
  PROVE  /\ Without(q, n) \in Seq(Frames) /\ Len(Without(q, n)) = Len(q) - 1
         /\ \A i \in 1..Len(q) - 1 :
              Without(q, n)[i] = IF i < n THEN q[i] ELSE q[i + 1]
         /\ Len(q) \in Nat
<1> DEFINE w == Without(q, n)
<1>1. Len(q) \in Nat /\ Len(q) - 1 \in Nat
  OBVIOUS
<1>2. \A i \in 1..Len(q) - 1 :
        /\ w[i] = IF i < n THEN q[i] ELSE q[i + 1]
        /\ w[i] \in Frames
  BY <1>1 DEF Without
<1>3. w = [i \in 1..Len(q) - 1 |-> w[i]]
  BY <1>1 DEF Without
<1>4. w \in [1..Len(q) - 1 -> Frames]
  BY <1>2, <1>3
<1>5. w \in Seq(Frames) /\ Len(w) = Len(q) - 1
  BY <1>1, <1>4
<1>6. QED
  BY <1>1, <1>2, <1>5

\* The sets that tx_pending_urbs counts are finite.
LEMMA FiniteCounts ==
  ASSUME TypeOK
  PROVE  /\ IsFiniteSet(tx_flight) /\ Cardinality(tx_flight) \in Nat
         /\ IsFiniteSet(Holding) /\ Cardinality(Holding) \in Nat
<1>1. IsFiniteSet(tx_flight)
  BY RtlUsbAssumption, FS_Subset DEF TypeOK
<1>2. Holding \in SUBSET Ctx
  BY DEF Holding
<1>3. QED
  BY <1>1, <1>2, RtlUsbAssumption, FS_Subset, FS_CardinalityType

\* Initially everything is empty.
LEMMA InitIInv == Init => IInv
<1> SUFFICES ASSUME Init PROVE IInv
  OBVIOUS
<1> USE RtlUsbAssumption
<1>1. TypeOK
  <2>1. /\ tx_pending \in Int /\ tx_wait \in Seq(Frames) /\ starts \in 0..MaxStarts
        /\ rx_flight \in 0..RxUrbNum /\ rx_cleanup \in 0..RxUrbNum
        /\ rx_queue \in 0..RxMaxQueued
    BY DEF Init
  <2>2. /\ pc \in [Ctx -> Places]
        /\ skb \in [Ctx -> Frames \cup {NoFrame}]
        /\ freed \in [Frames -> Nat]
    BY DEF Init, Places
  <2>3. QED
    BY <2>1, <2>2, Zenon DEF Init, TypeOK
<1>2. OnePlace
  BY DEF Init, OnePlace, Somewhere, Queued, Held
<1>3. HandsMatch /\ SendersQuiet /\ GoneIsEmpty
  BY DEF Init, HandsMatch, SendersQuiet, GoneIsEmpty, Ctx
<1>4. CounterExact
  <2>1. Holding = {}
    BY DEF Init, Holding
  <2>2. QED
    BY <2>1, FS_EmptySet DEF Init, CounterExact
<1>5. RxCounted
  BY DEF Init, RxCounted, RxEmpty, RxMade
<1>6. QED
  BY <1>1, <1>2, <1>3, <1>4, <1>5 DEF IInv

(***************************************************************************)
(* Which steps leave the transmit path alone                               *)
(***************************************************************************)
RxNext == RxCompleted \/ RxKillOne \/ RxResubmit \/ RxWork

QuietTask ==
  \/ ProbeEnds \/ DisconnectBegins \/ OpStart \/ OpStop \/ Disconnect
  \/ InitFails \/ SetStart \/ ReceiveOne \/ ReceiveFails \/ Started
  \/ CleanupRx \/ StopEnd \/ CleanupRxLast

Stutter == Gone \/ KillSpins \/ UNCHANGED vars

\* The steps of Next, by what they change.
LEMMA NextCases ==
  ASSUME [Next]_vars
  PROVE  \/ \E c \in Senders, f \in Data : OpTx(c, f)
         \/ \E f \in Cmds : SendCmd(f)
         \/ \E c \in Giveback, f \in Frames : TxComplete(c, f)
         \/ \E c \in Ctx : Schedule(c)
         \/ ResetPending \/ DrainTx \/ QuietTask \/ RxNext \/ Stutter
  BY DEF Next, TaskStep, QuietTask, RxNext, Stutter

\* A finished or spinning task changes nothing.
LEMMA StutterFrame ==
  ASSUME Stutter
  PROVE  UNCHANGED <<ctlvars, txvars, rxvars, history>>
  BY DEF Stutter, Gone, KillSpins, vars

\* The steps of the receiver leave the transmit path and the task alone.
LEMMA RxFrame ==
  ASSUME RxNext
  PROVE  UNCHANGED <<ctlvars, txvars, history>>
  BY DEF RxNext, RxCompleted, RxKillOne, RxResubmit, RxWork

\* The steps of the task that touch no transmitted frame.
LEMMA QuietFrame ==
  ASSUME QuietTask
  PROVE  UNCHANGED <<txvars, faulty, spoiled, dirty>>
  BY DEF QuietTask, ProbeEnds, DisconnectBegins, OpStart, OpStop, Disconnect,
           InitFails, SetStart,
         ReceiveOne, ReceiveFails, Started, CleanupRx, StopEnd, CleanupRxLast,
         history

\* The steps of the transmit path leave the rest alone.
LEMMA TxFrame ==
  ASSUME NEW c, NEW f,
         OpTx(c, f) \/ SendCmd(f) \/ TxComplete(c, f) \/ Schedule(c)
  PROVE  UNCHANGED <<ctlvars, rxvars, dirty, carried, rx_failed>>
  BY DEF OpTx, SendCmd, TxComplete, Schedule, Anchor, ScheduleInc, ScheduleGet,
         ScheduleSubmit, TransmitErrorAgain, ScheduleSubmitError,
           ScheduleSubmitErrorAgain, ScheduleDec, TxCompleteEnd, history

(***************************************************************************)
(* Each frame keeps its place                                              *)
(***************************************************************************)

\* Places depend on these variables only.
LEMMA PlacesUnchanged ==
  ASSUME OnePlace, UNCHANGED <<skb, fresh, freed, tx_flight, tx_wait, faulty, spoiled>>
  PROVE  OnePlace'
<1>1. \A f : (Queued(f)' <=> Queued(f)) /\ (Held(f)' <=> Held(f))
  BY DEF Queued, Held
<1>2. \A f : Somewhere(f)' <=> Somewhere(f)
  BY <1>1 DEF Somewhere
<1>3. QED
  BY <1>1, <1>2 DEF OnePlace

\* A fresh frame is taken in hand, perhaps freed for the first of two times,
\* or dropped.
LEMMA FreshTaken ==
  ASSUME IInv, NEW c \in Ctx, NEW f \in fresh, pc[c] = "idle",
         fresh' = fresh \ {f}, UNCHANGED <<tx_wait, tx_flight>>,
         faulty \subseteq faulty', spoiled \subseteq spoiled',
         \/ skb' = [skb EXCEPT ![c] = f] /\ UNCHANGED freed
         \/ skb' = [skb EXCEPT ![c] = f] /\ Free(f) /\ f \in faulty'
         \/ Free(f) /\ UNCHANGED skb
  PROVE  OnePlace'
<1> USE RtlUsbAssumption DEF IInv
<1>0. /\ f \in Frames /\ skb[c] \notin Frames
      /\ ~Queued(f) /\ ~Held(f) /\ f \notin tx_flight
      /\ f \notin faulty \cup spoiled => freed[f] = 0
  BY DEF OnePlace, Somewhere, HandsMatch, TypeOK
<1>1. \A g : Queued(g)' <=> Queued(g)
  BY DEF Queued
<1>2. CASE /\ skb' = [skb EXCEPT ![c] = f]
           /\ \A g \in Frames \ faulty' : freed'[g] = freed[g]
  <2>1. \A g \in Frames : Held(g)' <=> Held(g) \/ g = f
    BY <1>0, <1>2 DEF Held, TypeOK
  <2>2. \A a, b \in Ctx : skb'[a] = skb'[b] /\ skb'[a] # NoFrame => a = b
    BY <1>0, <1>2 DEF OnePlace, Held, TypeOK
  <2>3. \A g \in Frames : Somewhere(g)' <=> Somewhere(g)
    BY <1>0, <1>1, <2>1 DEF Somewhere
  <2>4. QED
    BY <1>0, <1>1, <1>2, <2>1, <2>2, <2>3 DEF OnePlace
<1>3. CASE /\ UNCHANGED skb
           /\ \A g \in Frames : g # f => freed'[g] = freed[g]
           /\ freed'[f] = freed[f] + 1
  <2>1. \A g : Held(g)' <=> Held(g)
    BY <1>3 DEF Held
  <2>2. \A g \in Frames : Somewhere(g)' <=> Somewhere(g) /\ g # f
    BY <1>0, <1>1, <2>1 DEF Somewhere
  <2>3. \A g \in Frames \ (faulty \cup spoiled) :
          freed'[g] = IF Somewhere(g)' THEN 0 ELSE 1
    BY <1>0, <1>3, <2>2 DEF OnePlace
  <2>4. QED
    BY <1>0, <1>1, <1>3, <2>1, <2>2, <2>3 DEF OnePlace
<1>4. QED
  BY <1>0, <1>2, <1>3 DEF Free, TypeOK

\* A context lets go of the frame in its hand: freed, or lost to an error.
LEMMA HandLetsGo ==
  ASSUME IInv, NEW c \in Ctx, skb[c] \in Frames, Hold(c, NoFrame),
         UNCHANGED <<tx_wait, tx_flight, fresh, spoiled>>,
         \/ Free(skb[c]) /\ faulty' = faulty
         \/ UNCHANGED freed /\ faulty' = faulty \cup {skb[c]}
  PROVE  OnePlace'
<1> USE RtlUsbAssumption DEF IInv
<1>0. /\ Held(skb[c]) /\ (skb[c] \notin faulty \cup spoiled => freed[skb[c]] = 0)
      /\ skb[c] \notin fresh /\ ~Queued(skb[c]) /\ skb[c] \notin tx_flight
  BY DEF Held, OnePlace, Somewhere
<1>1. \A g : Queued(g)' <=> Queued(g)
  BY DEF Queued
<1>2. \A g \in Frames : Held(g)' <=> Held(g) /\ g # skb[c]
  BY DEF Hold, Held, OnePlace, TypeOK
<1>3. \A a, b \in Ctx : skb'[a] = skb'[b] /\ skb'[a] # NoFrame => a = b
  BY DEF Hold, OnePlace, TypeOK
<1>4. \A g \in Frames : Somewhere(g)' <=> Somewhere(g) /\ g # skb[c]
  BY <1>0, <1>1, <1>2 DEF Somewhere
<1>5. /\ \A g \in Frames : g # skb[c] => freed'[g] = freed[g]
      /\ skb[c] \notin faulty' \cup spoiled => freed'[skb[c]] = 1
  BY <1>0 DEF Free, TypeOK
<1>6. \A g \in Frames \ (faulty' \cup spoiled') :
        freed'[g] = IF Somewhere(g)' THEN 0 ELSE 1
  BY <1>0, <1>4, <1>5 DEF OnePlace
<1>7. QED
  BY <1>0, <1>1, <1>2, <1>3, <1>4, <1>6 DEF OnePlace

\* The first of two frees: the frame stays in hand, and no longer counts.
LEMMA FirstFree ==
  ASSUME IInv, NEW c \in Ctx, skb[c] \in Frames, Free(skb[c]),
         faulty' = faulty \cup {skb[c]}, spoiled' = spoiled \cup {skb[c]},
         UNCHANGED <<skb, fresh, tx_wait, tx_flight>>
  PROVE  OnePlace'
<1> USE RtlUsbAssumption DEF IInv
<1>1. \A f : (Queued(f)' <=> Queued(f)) /\ (Held(f)' <=> Held(f))
  BY DEF Queued, Held
<1>2. \A f : Somewhere(f)' <=> Somewhere(f)
  BY <1>1 DEF Somewhere
<1>3. \A f \in Frames \ (faulty' \cup spoiled') : freed'[f] = freed[f]
  BY DEF Free, TypeOK
<1>4. QED
  BY <1>1, <1>2, <1>3 DEF OnePlace

\* The second one: the hand lets go, and whatever frame is freed and taken
\* out of the queue no longer counts.
LEMMA SecondFree ==
  ASSUME IInv, NEW c \in Ctx, pc[c] \in {"refree", "refree_skb"},
         Hold(c, NoFrame), UNCHANGED <<tx_flight, fresh, faulty, spoiled>>,
         NEW g \in spoiled, Free(g),
         \/ UNCHANGED tx_wait
         \/ \E i \in 1..Len(tx_wait) :
              tx_wait[i] = g /\ tx_wait' = Without(tx_wait, i)
  PROVE  OnePlace'
<1> USE RtlUsbAssumption DEF IInv
<1>0. /\ skb[c] \in Frames /\ skb[c] \in spoiled /\ Held(skb[c])
      /\ spoiled \subseteq Frames /\ tx_wait \in Seq(Frames)
  BY DEF HandsMatch, Held, TypeOK
<1>1. \A f \in Frames : Held(f)' <=> Held(f) /\ f # skb[c]
  BY <1>0 DEF Hold, Held, OnePlace, TypeOK
<1>2. \A a, b \in Ctx : skb'[a] = skb'[b] /\ skb'[a] # NoFrame => a = b
  BY DEF Hold, OnePlace, TypeOK
<1>3. \A f \in Frames \ spoiled : freed'[f] = freed[f]
  BY <1>0 DEF Free, TypeOK
<1>4. /\ \A i, k \in 1..Len(tx_wait') : tx_wait'[i] = tx_wait'[k] => i = k
      /\ \A f \in Frames : Queued(f)' => Queued(f)
      /\ \A f \in Frames \ spoiled : Queued(f)' <=> Queued(f)
  <2>1. CASE UNCHANGED tx_wait
    BY <2>1 DEF Queued, OnePlace
  <2>2. CASE \E i \in 1..Len(tx_wait) :
               tx_wait[i] = g /\ tx_wait' = Without(tx_wait, i)
    <3>0. PICK n \in 1..Len(tx_wait) :
            tx_wait[n] = g /\ tx_wait' = Without(tx_wait, n)
      BY <2>2
    <3> DEFINE at(i) == IF i < n THEN i ELSE i + 1
    <3>1. /\ Len(tx_wait') = Len(tx_wait) - 1 /\ Len(tx_wait) \in Nat
          /\ \A i \in 1..Len(tx_wait') :
               at(i) \in 1..Len(tx_wait) /\ tx_wait'[i] = tx_wait[at(i)]
      <4>1. /\ Len(tx_wait') = Len(tx_wait) - 1 /\ Len(tx_wait) \in Nat
            /\ \A i \in 1..Len(tx_wait) - 1 :
                 tx_wait'[i] = IF i < n THEN tx_wait[i] ELSE tx_wait[i + 1]
        BY <1>0, <3>0, QueueWithout
      <4>2. \A i \in 1..Len(tx_wait) - 1 : at(i) \in 1..Len(tx_wait)
        BY <4>1
      <4>3. QED
        BY <4>1, <4>2
    <3>2. \A i, k \in 1..Len(tx_wait') : at(i) = at(k) => i = k
      BY <1>0, <3>0
    <3>3. \A i, k \in 1..Len(tx_wait') : tx_wait'[i] = tx_wait'[k] => i = k
      <4>1. ASSUME NEW i \in 1..Len(tx_wait'), NEW k \in 1..Len(tx_wait'),
                   tx_wait'[i] = tx_wait'[k]
            PROVE  i = k
        <5>1. /\ at(i) \in 1..Len(tx_wait) /\ at(k) \in 1..Len(tx_wait)
              /\ tx_wait[at(i)] = tx_wait[at(k)]
          BY <3>1, <4>1
        <5>2. at(i) = at(k)
          <6> HIDE DEF at
          <6>1. QED
            BY <5>1 DEF OnePlace
        <5>3. QED
          BY <3>2, <5>2
      <4>2. QED
        BY <4>1
    <3>4. \A f \in Frames : Queued(f)' => Queued(f)
      BY <3>1 DEF Queued
    <3>5. ASSUME NEW f \in Frames \ spoiled, Queued(f) PROVE Queued(f)'
      <4>1. PICK i \in 1..Len(tx_wait) : tx_wait[i] = f
        BY <3>5 DEF Queued
      <4>2. i # n
        BY <3>0, <4>1
      <4> DEFINE k == IF i < n THEN i ELSE i - 1
      <4>3. k \in 1..Len(tx_wait') /\ at(k) = i
        BY <3>1, <4>2
      <4>4. tx_wait'[k] = f
        BY <3>1, <4>1, <4>3
      <4>5. QED
        BY <4>3, <4>4 DEF Queued
    <3>6. QED
      BY <3>3, <3>4, <3>5
  <2>3. QED
    BY <2>1, <2>2
<1>5. \A f \in Frames \ spoiled : Somewhere(f)' <=> Somewhere(f)
  BY <1>0, <1>1, <1>4 DEF Somewhere
<1>6. QED
  BY <1>1, <1>2, <1>3, <1>4, <1>5 DEF OnePlace

\* Every frame keeps its one place, or is freed once, or met an error.
LEMMA PlaceStep ==
  ASSUME IInv, [Next]_vars
  PROVE  OnePlace'
<1> USE RtlUsbAssumption DEF IInv
<1>1. ASSUME NEW c \in Senders, NEW f \in Data, OpTx(c, f)
      PROVE  OnePlace'
  BY <1>1, FreshTaken DEF OpTx, Transmit, Enters, Fails, Hold, Ctx
<1>2. ASSUME NEW f \in Cmds, SendCmd(f)
      PROVE  OnePlace'
  BY <1>2, FreshTaken DEF SendCmd, Transmit, Enters, Fails, Hold, Ctx
<1>3. ASSUME NEW c \in Giveback, NEW f \in Frames, TxComplete(c, f)
      PROVE  OnePlace'
  <2>0. /\ c \in Ctx /\ skb[c] \notin Frames /\ f \in tx_flight
        /\ tx_flight' = tx_flight \ {f} /\ skb' = [skb EXCEPT ![c] = f]
        /\ UNCHANGED <<tx_wait, fresh, freed, faulty, spoiled>>
    BY <1>3 DEF TxComplete, Hold, Ctx, HandsMatch, history
  <2>1. \A g : Queued(g)' <=> Queued(g)
    BY <2>0 DEF Queued
  <2>2. \A g \in Frames : Held(g)' <=> Held(g) \/ g = f
    BY <2>0 DEF Held, TypeOK
  <2>3. \A a, b \in Ctx : skb'[a] = skb'[b] /\ skb'[a] # NoFrame => a = b
    BY <2>0 DEF OnePlace, Held, TypeOK
  <2>4. \A g \in Frames : Somewhere(g)' <=> Somewhere(g)
    BY <2>0, <2>1, <2>2 DEF Somewhere
  <2>5. QED
    BY <2>0, <2>1, <2>2, <2>3, <2>4 DEF OnePlace
<1>4. ASSUME NEW c \in Ctx, Schedule(c)
      PROVE  OnePlace'
  <2>1. CASE Anchor(c)
    <3>0. /\ skb[c] \in Frames /\ Held(skb[c]) /\ skb' = [skb EXCEPT ![c] = NoFrame]
          /\ tx_wait' = Append(tx_wait, skb[c]) /\ tx_wait \in Seq(Frames)
          /\ UNCHANGED <<tx_flight, fresh, freed, faulty, spoiled>>
      BY <2>1 DEF Anchor, Hold, HandsMatch, Held, TypeOK, history
    <3>1. ~Queued(skb[c]) /\ skb[c] \notin tx_flight /\ skb[c] \notin fresh
      BY <3>0 DEF OnePlace
    <3>2. \A f : Queued(f)' <=> Queued(f) \/ f = skb[c]
      BY <3>0, QueueAppend DEF Queued
    <3>3. \A i, k \in 1..Len(tx_wait') : tx_wait'[i] = tx_wait'[k] => i = k
      BY <3>0, <3>1, QueueAppend DEF Queued, OnePlace
    <3>4. \A f \in Frames : Held(f)' <=> Held(f) /\ f # skb[c]
      BY <3>0 DEF Held, OnePlace, TypeOK
    <3>5. \A a, b \in Ctx : skb'[a] = skb'[b] /\ skb'[a] # NoFrame => a = b
      BY <3>0 DEF OnePlace, TypeOK
    <3>6. \A f \in Frames : Somewhere(f)' <=> Somewhere(f)
      BY <3>0, <3>2, <3>4 DEF Somewhere
    <3>7. QED
      BY <3>0, <3>1, <3>2, <3>3, <3>4, <3>5, <3>6 DEF OnePlace
  <2>2. CASE ScheduleInc(c) \/ ScheduleDec(c)
    BY <2>2, PlacesUnchanged DEF ScheduleInc, ScheduleDec, history
  <2>3. CASE ScheduleGet(c)
    <3>1. CASE tx_wait = << >>
      BY <2>3, <3>1, PlacesUnchanged DEF ScheduleGet, history
    <3>2. CASE tx_wait # << >>
      <4> DEFINE h == Head(tx_wait)
      <4>0. /\ tx_wait' = Tail(tx_wait) /\ skb' = [skb EXCEPT ![c] = h]
            /\ skb[c] \notin Frames
            /\ UNCHANGED <<tx_flight, fresh, freed, faulty, spoiled>>
        BY <2>3, <3>2 DEF ScheduleGet, Hold, HandsMatch, history
      <4>1. /\ tx_wait \in Seq(Frames) /\ h \in Frames /\ h = tx_wait[1]
            /\ Queued(h) /\ ~Held(h) /\ h \notin tx_flight /\ h \notin fresh
        BY <3>2, QueueHead DEF TypeOK, Queued, OnePlace
      <4>2. ASSUME NEW i \in 1..Len(tx_wait'), NEW k \in 1..Len(tx_wait'),
                   tx_wait'[i] = tx_wait'[k]
            PROVE  i = k
        <5>1. \A n \in 1..Len(tx_wait') :
                /\ n \in Int /\ n + 1 \in 1..Len(tx_wait)
                /\ tx_wait'[n] = tx_wait[n + 1]
          BY <3>2, <4>0, <4>1, QueueHead
        <5>2. i + 1 = k + 1
          BY <4>2, <5>1 DEF OnePlace
        <5>3. QED
          BY <5>1, <5>2
      <4>3. \A f \in Frames : Queued(f)' <=> Queued(f) /\ f # h
        <5>1. ASSUME NEW f \in Frames, Queued(f), f # h PROVE Queued(f)'
          <6>1. PICK i \in 1..Len(tx_wait) : tx_wait[i] = f
            BY <5>1 DEF Queued
          <6>2. i # 1
            BY <5>1, <6>1, <4>1
          <6>3. i - 1 \in 1..Len(Tail(tx_wait)) /\ Tail(tx_wait)[i - 1] = f
            BY <6>1, <6>2, <3>2, <4>1, QueueHead
          <6>4. QED
            BY <6>3, <4>0 DEF Queued
        <5>2. ASSUME NEW f \in Frames, Queued(f)' PROVE Queued(f) /\ f # h
          <6>1. PICK i \in 1..Len(Tail(tx_wait)) : Tail(tx_wait)[i] = f
            BY <5>2, <4>0 DEF Queued
          <6>2. i + 1 \in 1..Len(tx_wait) /\ tx_wait[i + 1] = f /\ i + 1 # 1
            BY <6>1, <3>2, <4>1, QueueHead
          <6>3. QED
            BY <6>2, <4>1, <3>2, QueueHead DEF Queued, OnePlace
        <5>3. QED
          BY <5>1, <5>2
      <4>4. \A f \in Frames : Held(f)' <=> Held(f) \/ f = h
        BY <4>0, <4>1 DEF Held, TypeOK
      <4>5. \A a, b \in Ctx : skb'[a] = skb'[b] /\ skb'[a] # NoFrame => a = b
        BY <4>0, <4>1 DEF OnePlace, Held, TypeOK
      <4>6. \A f \in Frames : Somewhere(f)' <=> Somewhere(f)
        BY <4>0, <4>1, <4>3, <4>4 DEF Somewhere
      <4>7. QED
        BY <4>0, <4>1, <4>2, <4>3, <4>4, <4>5, <4>6 DEF OnePlace
    <3>3. QED
      BY <3>1, <3>2
  <2>4. CASE ScheduleSubmit(c)
    <3>0. /\ skb[c] \in Frames /\ Held(skb[c]) /\ skb' = [skb EXCEPT ![c] = NoFrame]
          /\ tx_flight' = tx_flight \cup {skb[c]}
          /\ UNCHANGED <<tx_wait, fresh, freed, faulty, spoiled>>
      BY <2>4 DEF ScheduleSubmit, Hold, HandsMatch, Held, history
    <3>1. \A f : Queued(f)' <=> Queued(f)
      BY <3>0 DEF Queued
    <3>2. \A f \in Frames : Held(f)' <=> Held(f) /\ f # skb[c]
      BY <3>0 DEF Held, OnePlace, TypeOK
    <3>3. \A a, b \in Ctx : skb'[a] = skb'[b] /\ skb'[a] # NoFrame => a = b
      BY <3>0 DEF OnePlace, TypeOK
    <3>4. \A f \in Frames : Somewhere(f)' <=> Somewhere(f)
      BY <3>0, <3>1, <3>2 DEF Somewhere
    <3>5. QED
      BY <3>0, <3>1, <3>2, <3>3, <3>4 DEF OnePlace
  <2>5. CASE TxCompleteEnd(c)
    <3>1. skb[c] \in Frames
      BY <2>5 DEF TxCompleteEnd, HandsMatch
    <3>2. QED
      BY <2>5, <3>1, HandLetsGo DEF TxCompleteEnd, Fails
  <2>6. CASE ScheduleSubmitError(c)
    <3>1. skb[c] \in Frames
      BY <2>6 DEF ScheduleSubmitError, HandsMatch
    <3>2. QED
      BY <2>6, <3>1, FirstFree DEF ScheduleSubmitError, Fails
  <2>7. CASE TransmitErrorAgain(c) \/ ScheduleSubmitErrorAgain(c)
    BY <2>7, SecondFree DEF TransmitErrorAgain, ScheduleSubmitErrorAgain,
       RefreeFrame, history
  <2>8. QED
    BY <1>4, <2>1, <2>2, <2>3, <2>4, <2>5, <2>6, <2>7 DEF Schedule
<1>5. CASE ResetPending \/ QuietTask \/ RxNext \/ Stutter
  <2>1. UNCHANGED <<skb, fresh, freed, tx_flight, tx_wait, faulty, spoiled>>
    BY <1>5, QuietFrame, RxFrame, StutterFrame DEF ResetPending, txvars,
       history
  <2>2. QED
    BY <2>1, PlacesUnchanged
<1>6. CASE DrainTx
  <2>0. tx_wait' = << >> /\ UNCHANGED <<skb, fresh, tx_flight, faulty, spoiled>>
    BY <1>6 DEF DrainTx, history
  <2>1. \A f : ~Queued(f)' /\ (Held(f)' <=> Held(f))
    BY <2>0 DEF Queued, Held
  <2>2. \A f \in Frames : Somewhere(f)' <=> Somewhere(f) /\ ~Queued(f)
    BY <2>0, <2>1 DEF Somewhere, OnePlace
  <2>3. \A f \in Frames : freed'[f] = IF Queued(f) THEN freed[f] + 1 ELSE freed[f]
    BY <1>6 DEF DrainTx
  <2>4. \A f \in Frames \ (faulty \cup spoiled) :
          freed'[f] = IF Somewhere(f)' THEN 0 ELSE 1
    BY <2>2, <2>3 DEF OnePlace, Somewhere
  <2>5. QED
    BY <2>0, <2>1, <2>2, <2>4 DEF OnePlace
<1>7. QED
  BY <1>1, <1>2, <1>3, <1>4, <1>5, <1>6, NextCases

(***************************************************************************)
(* The other parts of the invariant                                        *)
(***************************************************************************)

\* Program counters and frames in hand keep matching.
LEMMA HandsStep ==
  ASSUME IInv, [Next]_vars
  PROVE  HandsMatch'
<1> USE RtlUsbAssumption DEF IInv
<1>1. ASSUME NEW c \in Senders, NEW f \in Data, OpTx(c, f)
      PROVE  HandsMatch'
  BY <1>1 DEF OpTx, Transmit, Enters, Fails, Goto, Hold, Frames, HandsMatch,
              TypeOK, Ctx
<1>2. ASSUME NEW f \in Cmds, SendCmd(f)
      PROVE  HandsMatch'
  BY <1>2 DEF SendCmd, Transmit, Enters, Fails, Goto, Hold, Frames, HandsMatch,
              TypeOK, Ctx
<1>3. ASSUME NEW c \in Giveback, NEW f \in Frames, TxComplete(c, f)
      PROVE  HandsMatch'
  BY <1>3 DEF TxComplete, Goto, Hold, HandsMatch, TypeOK, Ctx, history
<1>4. ASSUME NEW c \in Ctx, Schedule(c)
      PROVE  HandsMatch'
  <2>1. CASE ScheduleGet(c)
    <3>1. CASE tx_wait = << >>
      BY <2>1, <3>1 DEF ScheduleGet, Goto, HandsMatch, TypeOK, history
    <3>2. CASE tx_wait # << >>
      <4>1. Head(tx_wait) \in Frames
        BY <3>2, QueueHead DEF TypeOK
      <4>2. QED
        BY <2>1, <3>2, <4>1 DEF ScheduleGet, Goto, Hold, HandsMatch, TypeOK,
           history
    <3>3. QED
      BY <3>1, <3>2
  <2>2. CASE ~ScheduleGet(c)
    <3>1. CASE ScheduleSubmitError(c)
      BY <3>1 DEF ScheduleSubmitError, Goto, HandsMatch, TypeOK
    <3>2. CASE TransmitErrorAgain(c) \/ ScheduleSubmitErrorAgain(c)
      BY <3>2 DEF TransmitErrorAgain, ScheduleSubmitErrorAgain, Goto, Hold,
                  HandsMatch, TypeOK, history
    <3>3. CASE Anchor(c) \/ ScheduleInc(c) \/ ScheduleSubmit(c) \/ ScheduleDec(c)
               \/ TxCompleteEnd(c)
      BY <3>3 DEF Anchor, ScheduleInc, ScheduleSubmit, ScheduleDec,
                  TxCompleteEnd, Goto, Hold, HandsMatch, TypeOK, history
    <3>4. QED
      BY <1>4, <2>2, <3>1, <3>2, <3>3 DEF Schedule
  <2>3. QED
    BY <2>1, <2>2
<1>5. CASE ResetPending \/ DrainTx \/ QuietTask \/ RxNext \/ Stutter
  <2>1. UNCHANGED <<pc, skb, spoiled>>
    BY <1>5, QuietFrame, RxFrame, StutterFrame DEF ResetPending, DrainTx,
       txvars, history
  <2>2. QED
    BY <2>1 DEF HandsMatch
<1>6. QED
  BY <1>1, <1>2, <1>3, <1>4, <1>5, NextCases

\* Outside of a session only hw_init sends.
LEMMA QuietStep ==
  ASSUME IInv, [Next]_vars
  PROVE  SendersQuiet'
<1> USE RtlUsbAssumption DEF IInv
<1>1. ASSUME NEW c \in Senders, NEW f \in Data, OpTx(c, f)
      PROVE  SendersQuiet'
  BY <1>1 DEF OpTx, Transmit, Goto, ctlvars, session, SendersQuiet, TypeOK, Ctx
<1>2. ASSUME NEW f \in Cmds, SendCmd(f)
      PROVE  SendersQuiet'
  BY <1>2 DEF SendCmd, Transmit, Goto, ctlvars, session, SendersQuiet, TypeOK, Ctx
<1>3. ASSUME NEW c \in Giveback, NEW f \in Frames, TxComplete(c, f)
      PROVE  SendersQuiet'
  BY <1>3 DEF TxComplete, Goto, ctlvars, session, SendersQuiet, TypeOK, Ctx
<1>4. ASSUME NEW c \in Ctx, Schedule(c)
      PROVE  SendersQuiet'
  <2>1. UNCHANGED ctlvars /\ \A d \in Ctx : pc'[d] # "idle" => pc[d] # "idle"
    BY <1>4 DEF Schedule, Anchor, ScheduleInc, ScheduleGet, ScheduleSubmit,
                TransmitErrorAgain, ScheduleSubmitError,
           ScheduleSubmitErrorAgain, ScheduleDec, TxCompleteEnd, Goto, TypeOK
  <2>2. QED
    BY <2>1 DEF ctlvars, session, SendersQuiet, Ctx
<1>5. CASE ResetPending \/ DrainTx
  BY <1>5 DEF ResetPending, DrainTx, SendersQuiet, session
<1>6. CASE RxNext \/ Stutter
  BY <1>6, RxFrame, StutterFrame DEF ctlvars, session, txvars, SendersQuiet
<1>7. CASE QuietTask
  <2>1. UNCHANGED pc
    BY <1>7, QuietFrame DEF txvars
  <2>2. QED
    <3>1. CASE OpStart
      <4>1. UNCHANGED state /\ ~running /\ op = "idle" /\ ~unstarted
        BY <3>1 DEF OpStart, SendersQuiet
      <4>2. \/ op' = "init" /\ ~running' /\ ~unstarted' /\ state = "stop"
            \/ op' = "idle" /\ running' /\ unstarted' = (state = "stop")
        BY <3>1, <4>1, Zenon DEF OpStart
      <4>3. \/ op' = "init" /\ ~running' /\ ~unstarted' /\ state = "stop"
            \/ op' = "idle" /\ running' /\ unstarted' /\ state = "stop"
            \/ op' = "idle" /\ running' /\ ~unstarted' /\ state = "start"
        <5>1. state = "start" \/ state = "stop"
          BY DEF TypeOK
        <5>2. QED
          BY <4>2, <5>1, Zenon
      <4>4. \A c \in Senders \cup {Task} : pc[c] = "idle"
        BY <4>1 DEF SendersQuiet
      <4>5. QED
        BY <2>1, <4>1, <4>3, <4>4 DEF SendersQuiet
    <3>2. CASE ~OpStart
      BY <1>7, <2>1, <3>2
         DEF QuietTask, ProbeEnds, DisconnectBegins, OpStop, Disconnect,
             InitFails, SetStart, ReceiveOne, ReceiveFails, Started, CleanupRx,
             StopEnd, CleanupRxLast, ctlvars, session, SendersQuiet, TypeOK
    <3>3. QED
      BY <3>1, <3>2
<1>8. QED
  BY <1>1, <1>2, <1>3, <1>4, <1>5, <1>6, <1>7, NextCases

\* Nothing enters the transmit path after rtl_usb_disconnect.
LEMMA GoneStep ==
  ASSUME IInv, [Next]_vars
  PROVE  GoneIsEmpty'
<1> USE RtlUsbAssumption DEF IInv
<1>1. CASE DrainTx
  BY <1>1 DEF DrainTx, SendersQuiet, GoneIsEmpty, HandsMatch, TypeOK, Ctx, history
<1>2. ASSUME op' # "gone" PROVE GoneIsEmpty'
  BY <1>2 DEF GoneIsEmpty
<1>3. CASE op = "gone" /\ op' = "gone"
  <2>1. /\ tx_wait = << >> /\ tx_flight \subseteq spoiled /\ ~running
        /\ \A c \in Ctx : /\ pc[c] \in {"idle", "complete", "inc", "get", "dec"}
                          /\ skb[c] \in spoiled \cup {NoFrame}
    BY <1>3 DEF GoneIsEmpty, SendersQuiet
  <2>2. ASSUME NEW c \in Ctx, Schedule(c) PROVE GoneIsEmpty'
    <3>1. /\ ScheduleInc(c) \/ ScheduleGet(c) \/ ScheduleDec(c) \/ TxCompleteEnd(c)
          /\ UNCHANGED <<tx_wait, tx_flight, spoiled>>
          /\ UNCHANGED skb \/ Hold(c, NoFrame)
          /\ \E p \in {"idle", "inc", "get", "dec"} : Goto(c, p)
      BY <2>1, <2>2 DEF Schedule, Anchor, ScheduleInc, ScheduleGet, ScheduleSubmit,
                  TransmitErrorAgain, ScheduleSubmitError,
                  ScheduleSubmitErrorAgain, ScheduleDec, TxCompleteEnd, history
    <3>2. QED
      BY <2>1, <3>1 DEF GoneIsEmpty, Goto, Hold, TypeOK
  <2>3. ASSUME NEW c \in Giveback, NEW f \in Frames, TxComplete(c, f)
        PROVE  GoneIsEmpty'
    BY <2>1, <2>3 DEF TxComplete, Goto, Hold, GoneIsEmpty, TypeOK, history
  <2>4. /\ \A c \in Senders, f \in Data : ~OpTx(c, f)
        /\ \A f \in Cmds : ~SendCmd(f)
        /\ ~ResetPending /\ ~DrainTx
    BY <1>3, <2>1 DEF OpTx, SendCmd, ResetPending, DrainTx
  <2>5. ASSUME UNCHANGED <<txvars, spoiled>> PROVE GoneIsEmpty'
    BY <2>1, <2>5 DEF txvars, GoneIsEmpty
  <2>6. QED
    BY <2>2, <2>3, <2>4, <2>5, NextCases, QuietFrame, RxFrame, StutterFrame
       DEF history
<1>4. CASE op # "gone" /\ op' = "gone"
  <2>1. ~(\E c, f : OpTx(c, f) \/ SendCmd(f) \/ TxComplete(c, f) \/ Schedule(c))
    BY <1>4, TxFrame DEF ctlvars, session
  <2>2. ~ResetPending /\ ~QuietTask /\ ~RxNext /\ ~Stutter
    BY <1>4, RxFrame, StutterFrame
       DEF ResetPending, QuietTask, ProbeEnds, DisconnectBegins, OpStart, OpStop, Disconnect,
           InitFails,
           SetStart, ReceiveOne, ReceiveFails, Started, CleanupRx, StopEnd,
           CleanupRxLast, ctlvars, session
  <2>3. QED
    BY <1>1, <2>1, <2>2, NextCases
<1>5. QED
  BY <1>2, <1>3, <1>4

\* tx_pending_urbs stays exact unless it is reset with slots in use.
LEMMA CountStep ==
  ASSUME IInv, [Next]_vars
  PROVE  CounterExact'
<1> USE RtlUsbAssumption DEF IInv
<1>0. /\ IsFiniteSet(tx_flight) /\ Cardinality(tx_flight) \in Nat
      /\ IsFiniteSet(Holding) /\ Cardinality(Holding) \in Nat
      /\ tx_pending \in Int
  BY FiniteCounts DEF TypeOK
<1>1. ASSUME UNCHANGED <<tx_pending, tx_flight, dirty, Holding>>
      PROVE  CounterExact'
  BY <1>1 DEF CounterExact
<1>2. ASSUME NEW c \in Senders \cup {Task}, NEW f \in Frames,
             OpTx(c, f) \/ (c = Task /\ SendCmd(f))
      PROVE  CounterExact'
  <2>1. UNCHANGED <<tx_pending, tx_flight, dirty>>
    BY <1>2 DEF OpTx, SendCmd
  <2>2. Holding' = Holding
    BY <1>2 DEF OpTx, SendCmd, Transmit, Goto, Holding, TypeOK, Ctx
  <2>3. QED
    BY <1>1, <2>1, <2>2
<1>3. ASSUME NEW c \in Giveback, NEW f \in Frames, TxComplete(c, f)
      PROVE  CounterExact'
  <2>1. Holding' = Holding
    BY <1>3 DEF TxComplete, Goto, Holding, TypeOK, Ctx
  <2>2. Cardinality(tx_flight') = Cardinality(tx_flight) - 1
    BY <1>0, <1>3, FS_RemoveElement DEF TxComplete
  <2>3. QED
    BY <1>0, <1>3, <2>1, <2>2 DEF TxComplete, CounterExact, history
<1>4. ASSUME NEW c \in Ctx, Schedule(c)
      PROVE  CounterExact'
  <2>1. CASE \/ Anchor(c) \/ ScheduleGet(c) \/ TransmitErrorAgain(c)
             \/ ScheduleSubmitError(c) \/ ScheduleSubmitErrorAgain(c)
             \/ TxCompleteEnd(c)
    <3>1. UNCHANGED <<tx_pending, tx_flight, dirty>>
      BY <2>1 DEF Anchor, ScheduleGet, TransmitErrorAgain, ScheduleSubmitError,
                  ScheduleSubmitErrorAgain, TxCompleteEnd, history
    <3>2. Holding' = Holding
      BY <2>1 DEF Anchor, ScheduleGet, TransmitErrorAgain, ScheduleSubmitError,
                  ScheduleSubmitErrorAgain, TxCompleteEnd, Goto, Holding, TypeOK
    <3>3. QED
      BY <1>1, <3>1, <3>2
  <2>2. CASE ScheduleInc(c)
    <3>1. Holding' = Holding \cup {c} /\ c \notin Holding
      BY <2>2 DEF ScheduleInc, Goto, Holding, TypeOK
    <3>2. Cardinality(Holding') = Cardinality(Holding) + 1
      BY <1>0, <3>1, FS_AddElement
    <3>3. QED
      BY <1>0, <2>2, <3>2 DEF ScheduleInc, CounterExact, history
  <2>3. CASE ScheduleSubmit(c)
    <3>1. Holding' = Holding \ {c} /\ c \in Holding
      BY <2>3 DEF ScheduleSubmit, Goto, Holding, TypeOK
    <3>2. skb[c] \in Frames /\ skb[c] \notin tx_flight
      BY <2>3 DEF ScheduleSubmit, HandsMatch, OnePlace, Held
    <3>3. /\ Cardinality(Holding') = Cardinality(Holding) - 1
          /\ Cardinality(tx_flight') = Cardinality(tx_flight) + 1
      BY <1>0, <2>3, <3>1, <3>2, FS_RemoveElement, FS_AddElement
         DEF ScheduleSubmit
    <3>4. QED
      BY <1>0, <2>3, <3>3 DEF ScheduleSubmit, CounterExact, history
  <2>4. CASE ScheduleDec(c)
    <3>1. Holding' = Holding \ {c} /\ c \in Holding
      BY <2>4 DEF ScheduleDec, Goto, Holding, TypeOK
    <3>2. Cardinality(Holding') = Cardinality(Holding) - 1
      BY <1>0, <3>1, FS_RemoveElement
    <3>3. QED
      BY <1>0, <2>4, <3>2 DEF ScheduleDec, CounterExact, history
  <2>5. QED
    BY <1>4, <2>1, <2>2, <2>3, <2>4 DEF Schedule
<1>5. CASE ResetPending
  <2>1. ~dirty' => tx_flight' = {} /\ Holding' = {}
    BY <1>5, Zenon DEF ResetPending, Holding
  <2>2. tx_pending' = 0
    BY <1>5 DEF ResetPending
  <2>3. ~dirty' => tx_pending' = Cardinality(tx_flight') + Cardinality(Holding')
    BY <2>1, <2>2, FS_EmptySet
  <2>4. QED
    BY <2>3 DEF CounterExact, Holding
<1>6. CASE DrainTx \/ QuietTask \/ RxNext \/ Stutter
  <2>1. UNCHANGED <<tx_pending, tx_flight, dirty, pc>>
    BY <1>6, QuietFrame, RxFrame, StutterFrame DEF DrainTx, txvars, history
  <2>2. QED
    BY <1>1, <2>1 DEF Holding
<1>7. QED
  BY <1>2, <1>3, <1>4, <1>5, <1>6, NextCases DEF Frames

\* The types of the transmit path.
TxTypeOK ==
  /\ tx_pending \in Int /\ tx_wait \in Seq(Frames) /\ tx_flight \subseteq Frames
  /\ pc \in [Ctx -> Places]
  /\ skb \in [Ctx -> Frames \cup {NoFrame}]
  /\ fresh \subseteq Frames /\ freed \in [Frames -> Nat]
  /\ faulty \subseteq Frames /\ spoiled \subseteq Frames

\* Moving a context, handing it a frame and freeing one keep the types.
LEMMA MoveTypes ==
  ASSUME TxTypeOK, NEW c \in Ctx, NEW f \in Frames \cup {NoFrame},
         NEW p \in Places
  PROVE  /\ Goto(c, p) =>
              pc' \in [Ctx -> Places]
         /\ Hold(c, f) => skb' \in [Ctx -> Frames \cup {NoFrame}]
  BY DEF TxTypeOK, Goto, Hold

\* Freeing a frame keeps the count of its frees a number.
LEMMA FreeTypes ==
  ASSUME TxTypeOK, NEW f \in Frames, Free(f)
  PROVE  freed' \in [Frames -> Nat]
  BY DEF TxTypeOK, Free

\* The variables of the transmit path keep their types.
LEMMA TxTypeStep ==
  ASSUME IInv, [Next]_vars
  PROVE  TxTypeOK'
<1>0. TxTypeOK /\ HandsMatch
  BY DEF IInv, TypeOK, TxTypeOK
<1> USE RtlUsbAssumption
<1>1. ASSUME NEW c \in Senders \cup {Task}, NEW f \in Frames,
             OpTx(c, f) \/ (c = Task /\ SendCmd(f))
      PROVE  TxTypeOK'
  <2>1. UNCHANGED <<tx_pending, tx_wait, tx_flight>> /\ fresh' \subseteq Frames
    BY <1>0, <1>1 DEF OpTx, SendCmd, TxTypeOK
  <2>2. /\ UNCHANGED pc \/ Goto(c, "anchor") \/ Goto(c, "refree_skb")
        /\ UNCHANGED skb \/ Hold(c, f)
        /\ UNCHANGED freed \/ Free(f)
        /\ faulty' \subseteq faulty \cup {f} /\ spoiled' \subseteq spoiled \cup {f}
    BY <1>1 DEF OpTx, SendCmd, Transmit, Enters, Fails
  <2>3. c \in Ctx /\ f \in Frames \cup {NoFrame} /\ {"anchor", "refree_skb"} \subseteq Places
    BY DEF Ctx, Places
  <2>4. pc' \in [Ctx -> Places] /\ skb' \in [Ctx -> Frames \cup {NoFrame}]
    BY <1>0, <2>2, <2>3, MoveTypes DEF TxTypeOK
  <2>5. freed' \in [Frames -> Nat]
    BY <1>0, <2>2, FreeTypes DEF TxTypeOK
  <2>6. QED
    BY <1>0, <2>1, <2>2, <2>4, <2>5 DEF TxTypeOK
<1>2. ASSUME NEW c \in Giveback, NEW f \in Frames, TxComplete(c, f)
      PROVE  TxTypeOK'
  <2>1. c \in Ctx /\ f \in Frames \cup {NoFrame}
    BY DEF Ctx
  <2>2. QED
    BY <1>0, <1>2, <2>1, MoveTypes DEF TxComplete, history, TxTypeOK, Places
<1>3. ASSUME NEW c \in Ctx, Schedule(c)
      PROVE  TxTypeOK'
  <2>1. CASE Anchor(c)
    <3>1. skb[c] \in Frames
      BY <1>0, <2>1 DEF Anchor, HandsMatch
    <3>2. QED
      BY <1>0, <2>1, <3>1, MoveTypes DEF Anchor, history, TxTypeOK, Places
  <2>2. CASE ScheduleInc(c)
    <3>1. \E p \in {"dec", "get"} : Goto(c, p)
      BY <2>2 DEF ScheduleInc
    <3>2. QED
      BY <1>0, <2>2, <3>1, MoveTypes DEF ScheduleInc, history, TxTypeOK, Places
  <2>3. CASE ScheduleGet(c)
    <3>1. CASE tx_wait = << >>
      BY <1>0, <2>3, <3>1, MoveTypes DEF ScheduleGet, history, TxTypeOK,
           Places
    <3>2. CASE tx_wait # << >>
      <4>1. Head(tx_wait) \in Frames /\ Tail(tx_wait) \in Seq(Frames)
        BY <1>0, <3>2, QueueHead DEF TxTypeOK
      <4>2. QED
        BY <1>0, <2>3, <3>2, <4>1, MoveTypes DEF ScheduleGet, history, TxTypeOK,
           Places
    <3>3. QED
      BY <3>1, <3>2
  <2>4. CASE ScheduleSubmit(c)
    <3>1. skb[c] \in Frames
      BY <1>0, <2>4 DEF ScheduleSubmit, HandsMatch
    <3>2. QED
      BY <1>0, <2>4, <3>1, MoveTypes DEF ScheduleSubmit, history, TxTypeOK, Places
  <2>5. CASE ScheduleSubmitError(c) \/ TxCompleteEnd(c)
    <3>1. skb[c] \in Frames
      BY <1>0, <2>5 DEF ScheduleSubmitError, TxCompleteEnd, HandsMatch
    <3>2. /\ Free(skb[c]) \/ UNCHANGED freed
          /\ faulty' \subseteq faulty \cup {skb[c]}
          /\ spoiled' \subseteq spoiled \cup {skb[c]}
          /\ Goto(c, "idle") \/ Goto(c, "inc") \/ Goto(c, "refree")
          /\ Hold(c, NoFrame) \/ UNCHANGED skb
          /\ UNCHANGED <<tx_pending, tx_wait, tx_flight, fresh>>
      BY <2>5 DEF ScheduleSubmitError, TxCompleteEnd, Fails
    <3>3. freed' \in [Frames -> Nat]
      BY <1>0, <3>1, <3>2, FreeTypes DEF TxTypeOK
    <3>4. pc' \in [Ctx -> Places] /\ skb' \in [Ctx -> Frames \cup {NoFrame}]
      BY <1>0, <3>2, MoveTypes DEF TxTypeOK, Places
    <3>5. QED
      BY <1>0, <3>1, <3>2, <3>3, <3>4 DEF TxTypeOK
  <2>6. CASE TransmitErrorAgain(c) \/ ScheduleSubmitErrorAgain(c)
    <3>1. PICK g \in spoiled : Free(g)
      BY <2>6 DEF TransmitErrorAgain, ScheduleSubmitErrorAgain, RefreeFrame
    <3>2. /\ Goto(c, "idle") \/ Goto(c, "dec")
          /\ Hold(c, NoFrame)
          /\ UNCHANGED <<tx_pending, tx_flight, fresh, faulty, spoiled>>
      BY <2>6 DEF TransmitErrorAgain, ScheduleSubmitErrorAgain, history
    <3>3. tx_wait' \in Seq(Frames)
      BY <1>0, <2>6, QueueWithout
         DEF TransmitErrorAgain, ScheduleSubmitErrorAgain, RefreeFrame, TxTypeOK
    <3>4. freed' \in [Frames -> Nat]
      BY <1>0, <3>1, FreeTypes DEF TxTypeOK
    <3>5. pc' \in [Ctx -> Places] /\ skb' \in [Ctx -> Frames \cup {NoFrame}]
      BY <1>0, <3>2, MoveTypes DEF TxTypeOK, Places
    <3>6. QED
      BY <1>0, <3>2, <3>3, <3>4, <3>5 DEF TxTypeOK
  <2>7. CASE ScheduleDec(c)
    BY <1>0, <2>7, MoveTypes DEF ScheduleDec, history, TxTypeOK, Places
  <2>8. QED
    BY <1>3, <2>1, <2>2, <2>3, <2>4, <2>5, <2>6, <2>7 DEF Schedule
<1>4. CASE ResetPending
  BY <1>0, <1>4 DEF ResetPending, TxTypeOK
<1>5. CASE DrainTx
  <2>1. freed' \in [Frames -> Nat]
    BY <1>0, <1>5 DEF DrainTx, TxTypeOK
  <2>2. tx_wait' \in Seq(Frames)
    BY <1>5 DEF DrainTx
  <2>3. QED
    BY <1>0, <1>5, <2>1, <2>2 DEF DrainTx, history, TxTypeOK
<1>6. CASE QuietTask \/ RxNext \/ Stutter
  <2>1. UNCHANGED <<txvars, faulty, spoiled>>
    BY <1>6, QuietFrame, RxFrame, StutterFrame DEF history
  <2>2. QED
    BY <1>0, <2>1 DEF txvars, TxTypeOK
<1>7. QED
  BY <1>1, <1>2, <1>3, <1>4, <1>5, <1>6, NextCases DEF Frames

\* The types of the receiver and of the control variables.
RxTypeOK ==
  /\ state \in {"start", "stop"} /\ starts \in 0..MaxStarts
  /\ op \in {"idle", "init", "set_start", "receive", "rx_kill",
            "stop_kill", "kill_rx", "kill_tx", "gone"}
  /\ wq \in {"live", "destroyed", "misused"}
  /\ status \in {"probing", "start", "removed"}
  /\ rx_flight \in 0..RxUrbNum /\ rx_cleanup \in 0..RxUrbNum
  /\ rx_queue \in 0..RxMaxQueued

FlagsOK ==
  /\ running \in BOOLEAN /\ unstarted \in BOOLEAN /\ rx_cb \in BOOLEAN /\ rx_stuck \in BOOLEAN
  /\ tasklet \in BOOLEAN
  /\ dirty \in BOOLEAN /\ carried \in BOOLEAN /\ rx_failed \in BOOLEAN

\* The flags of the control path and of the history stay Boolean.
LEMMA FlagsStep ==
  ASSUME IInv, [Next]_vars
  PROVE  FlagsOK'
<1> USE DEF IInv, TypeOK, FlagsOK
<1>1. CASE \E c, f : OpTx(c, f) \/ SendCmd(f) \/ TxComplete(c, f) \/ Schedule(c)
  BY <1>1, TxFrame DEF ctlvars, session, rxvars
<1>2. CASE RxNext
  BY <1>2, Zenon DEF RxNext, RxCompleted, RxKillOne, RxResubmit, RxWork,
     ctlvars, session, history
<1>3. CASE QuietTask
  <2>1. CASE \/ ProbeEnds \/ DisconnectBegins \/ OpStart \/ OpStop
             \/ Disconnect \/ InitFails \/ SetStart
    BY <2>1, Zenon DEF ProbeEnds, DisconnectBegins, OpStart, OpStop, Disconnect, InitFails, SetStart,
       TxBusy, ctlvars, session, rxvars, history
  <2>2. CASE ReceiveOne \/ ReceiveFails \/ Started
    BY <2>2, Zenon DEF ReceiveOne, ReceiveFails, Started, ctlvars, session, rxvars,
       history
  <2>3. CASE CleanupRx \/ StopEnd \/ CleanupRxLast
    BY <2>3, Zenon DEF CleanupRx, StopEnd, CleanupRxLast, PurgeRx, ctlvars, session,
       rxvars, history
  <2>4. QED
    BY <1>3, <2>1, <2>2, <2>3 DEF QuietTask
<1>4. CASE ResetPending \/ DrainTx
  BY <1>4, Zenon DEF ResetPending, DrainTx, rxvars, session, history
<1>5. CASE Stutter
  BY <1>5, StutterFrame DEF ctlvars, session, rxvars, history
<1>6. QED
  BY <1>1, <1>2, <1>3, <1>4, <1>5, NextCases

\* The receiver's own steps move URBs and make none; an idle one takes none.
LEMMA RxMoves ==
  ASSUME RxTypeOK, RxMade <= RxUrbNum, RxNext
  PROVE  /\ rx_flight' \in Nat /\ rx_cleanup' \in Nat
         /\ RxMade' = RxMade /\ rx_queue' \in 0..RxMaxQueued /\ ~RxEmpty
<1> USE RtlUsbAssumption DEF RxTypeOK
<1>1. CASE RxCompleted
  <2>1. ~rx_cb /\ rx_flight # 0 /\ rx_flight' = rx_flight - 1
    BY <1>1 DEF RxCompleted
  <2>2. \/ rx_cleanup' = rx_cleanup + 1 /\ rx_cb' = rx_cb
        \/ rx_cleanup' = rx_cleanup /\ rx_cb'
    BY <1>1, Zenon DEF RxCompleted
  <2>3. rx_queue' \in 0..RxMaxQueued
    BY <1>1 DEF RxCompleted
  <2>4. QED
    BY <2>1, <2>2, <2>3 DEF RxMade, RxEmpty
<1>2. CASE RxKillOne
  BY <1>2 DEF RxKillOne, RxMade, RxEmpty
<1>3. CASE RxResubmit
  <2>1. rx_cb /\ ~rx_cb' /\ rx_queue' = rx_queue
    BY <1>3, Zenon DEF RxResubmit
  <2>2. \/ rx_flight' = rx_flight + 1 /\ rx_cleanup' = rx_cleanup
        \/ rx_cleanup' = rx_cleanup + 1 /\ rx_flight' = rx_flight
    BY <1>3, Zenon DEF RxResubmit
  <2>3. QED
    BY <2>1, <2>2 DEF RxMade, RxEmpty
<1>4. CASE RxWork
  <2>1. tasklet /\ UNCHANGED <<rx_flight, rx_cb, rx_cleanup>>
    BY <1>4 DEF RxWork
  <2>2. rx_queue' = rx_queue \/ (rx_queue # 0 /\ rx_queue' = rx_queue - 1)
    BY <1>4, Zenon DEF RxWork
  <2>3. QED
    BY <2>1, <2>2 DEF RxMade, RxEmpty
<1>5. QED
  BY <1>1, <1>2, <1>3, <1>4 DEF RxNext

\* No more URBs exist than the pool has, so each list of them is bounded.
LEMMA RxBounds ==
  ASSUME rx_flight \in Nat, rx_cleanup \in Nat, RxMade <= RxUrbNum
  PROVE  rx_flight \in 0..RxUrbNum /\ rx_cleanup \in 0..RxUrbNum
  BY RtlUsbAssumption DEF RxMade

\* The receive URBs are conserved, and released when the receiver is stopped.
LEMMA RxStep ==
  ASSUME IInv, [Next]_vars
  PROVE  RxCounted' /\ RxTypeOK'
<1>0. RxTypeOK /\ RxCounted /\ SendersQuiet
  BY DEF IInv, TypeOK, RxTypeOK
<1> USE RtlUsbAssumption
<1>1. ASSUME UNCHANGED <<ctlvars, rxvars, rx_failed>>
      PROVE  RxCounted' /\ RxTypeOK'
  BY <1>0, <1>1 DEF ctlvars, session, rxvars, RxMade, RxEmpty, RxCounted, RxTypeOK
<1>2. CASE RxNext
  <2>1. /\ rx_flight' \in Nat /\ rx_cleanup' \in Nat
        /\ RxMade' = RxMade /\ rx_queue' \in 0..RxMaxQueued /\ ~RxEmpty
    BY <1>0, <1>2, RxMoves DEF RxCounted
  <2>2. UNCHANGED <<ctlvars, rx_failed>>
    BY <1>2, RxFrame DEF history
  <2>3. RxCounted'
    BY <1>0, <2>1, <2>2 DEF ctlvars, session, RxCounted
  <2>4. rx_flight' \in 0..RxUrbNum /\ rx_cleanup' \in 0..RxUrbNum
    BY <2>1, <2>3 DEF RxMade, RxCounted
  <2>5. QED
    BY <1>0, <2>1, <2>2, <2>3, <2>4 DEF ctlvars, session, RxTypeOK
<1>3. CASE QuietTask
  <2> USE DEF session
  <2>1. CASE OpStart
    <3>1. UNCHANGED <<state, wq, status, rxvars, rx_failed>> /\ RxEmpty
      BY <1>0, <2>1 DEF OpStart, history, RxCounted
    <3>2. starts' \in 0..MaxStarts
      BY <1>0, <2>1 DEF OpStart, RxTypeOK
    <3>3. ~running /\ ~unstarted /\ op = "idle" /\ (state = "start" => rx_failed)
      BY <1>0, <2>1 DEF OpStart, RxCounted, SendersQuiet
    <3>4. \/ op' = "init" /\ ~running' /\ ~unstarted'
          \/ op' = "idle" /\ running' /\ unstarted' = (state = "stop")
      BY <2>1, <3>3, Zenon DEF OpStart
    <3>5. \/ op' = "init" /\ ~running' /\ ~unstarted'
          \/ op' = "idle" /\ running' /\ (rx_failed \/ unstarted')
      <4>1. state = "start" \/ state = "stop"
        BY <1>0 DEF RxTypeOK
      <4>2. QED
        BY <3>3, <3>4, <4>1, Zenon
    <3>6. QED
      BY <1>0, <3>1, <3>2, <3>5 DEF rxvars, RxCounted, RxTypeOK, RxMade, RxEmpty
  <2>2. CASE OpStop
    <3>1. /\ UNCHANGED <<starts, wq, status, rxvars, rx_failed>>
          /\ ~running' /\ ~unstarted' /\ state' = "stop"
          /\ op' \in {"idle", "stop_kill"} /\ (op' = "idle" => RxEmpty)
      BY <1>0, <2>2 DEF OpStop, RxCounted, RxTypeOK, SendersQuiet
    <3>2. QED
      BY <1>0, <3>1 DEF rxvars, RxCounted, RxTypeOK, RxMade, RxEmpty
  <2>3. CASE InitFails
    BY <1>0, <2>3 DEF InitFails, rxvars, history, SendersQuiet, RxCounted,
       RxTypeOK, RxMade, RxEmpty
  <2>4. CASE ReceiveOne
    BY <1>0, <2>4 DEF ReceiveOne, ctlvars, history, SendersQuiet, RxCounted,
       RxTypeOK, RxMade, RxEmpty
  <2>5. CASE ReceiveFails
    BY <1>0, <2>5 DEF ReceiveFails, SendersQuiet, RxCounted, RxTypeOK,
       RxMade, RxEmpty
  <2>6. CASE Started
    <3>1. ~unstarted /\ UNCHANGED unstarted
      BY <1>0, <2>6 DEF Started, SendersQuiet
    <3>2. QED
      BY <1>0, <2>6, <3>1 DEF Started, rxvars, history, Use, RxCounted,
         RxTypeOK, RxMade, RxEmpty
  <2>7. CASE CleanupRx \/ StopEnd \/ CleanupRxLast
    <3>1. RxEmpty' /\ ~running'
      BY <1>0, <2>7 DEF CleanupRx, StopEnd, CleanupRxLast, PurgeRx, RxKilled,
                        RxEmpty, SendersQuiet
    <3>2. /\ wq' \in {"live", "destroyed", "misused"}
          /\ UNCHANGED <<state, starts, status, unstarted, rx_failed>>
      BY <1>0, <2>7 DEF CleanupRx, StopEnd, CleanupRxLast, Use, Destroy,
         history, RxTypeOK
    <3>3. op' \in {"idle", "kill_tx"} /\ (op' = "idle" /\ state' = "start" => rx_failed')
      BY <1>0, <2>7 DEF CleanupRx, StopEnd, CleanupRxLast, history,
         RxCounted, SendersQuiet
    <3>4. QED
      BY <1>0, <3>1, <3>2, <3>3 DEF RxCounted, RxTypeOK, RxMade, RxEmpty
  <2>8. CASE Disconnect \/ SetStart
    <3>1. ~unstarted /\ UNCHANGED <<unstarted, status>>
      BY <1>0, <2>8 DEF Disconnect, SetStart, SendersQuiet
    <3>2. QED
      BY <1>0, <2>8, <3>1 DEF Disconnect, SetStart, rxvars, history,
         SendersQuiet, RxCounted, RxTypeOK, RxMade, RxEmpty
  <2>9. CASE ProbeEnds \/ DisconnectBegins
    <3>1. /\ UNCHANGED <<state, op, running, starts, wq, unstarted, rxvars, rx_failed>>
          /\ status' \in {"probing", "start", "removed"}
      BY <2>9 DEF ProbeEnds, DisconnectBegins, history
    <3>2. QED
      BY <1>0, <3>1 DEF rxvars, RxCounted, RxTypeOK, RxMade, RxEmpty
  <2>10. QED
    BY <1>3, <2>1, <2>2, <2>3, <2>4, <2>5, <2>6, <2>7, <2>8, <2>9 DEF QuietTask
<1>4. CASE ResetPending \/ DrainTx
  <2>1. ~running /\ ~unstarted
    BY <1>0, <1>4 DEF ResetPending, DrainTx, SendersQuiet
  <2>2. QED
    BY <1>0, <1>4, <2>1
       DEF ResetPending, DrainTx, rxvars, history, session, RxCounted, RxTypeOK,
           RxMade, RxEmpty
<1>5. CASE \E c, f : OpTx(c, f) \/ SendCmd(f) \/ TxComplete(c, f) \/ Schedule(c)
  BY <1>1, <1>5, TxFrame
<1>6. CASE Stutter
  BY <1>1, <1>6, StutterFrame DEF history
<1>7. QED
  BY <1>2, <1>3, <1>4, <1>5, <1>6, NextCases

\* The inductive invariant holds in every behaviour.
LEMMA Inductive == Spec => []IInv
<1>1. ASSUME IInv, [Next]_vars PROVE IInv'
  <2>1. TypeOK'
    BY <1>1, TxTypeStep, RxStep, FlagsStep DEF TxTypeOK, RxTypeOK, FlagsOK,
       TypeOK
  <2>2. QED
    BY <1>1, <2>1, PlaceStep, HandsStep, QuietStep, GoneStep, CountStep, RxStep
       DEF IInv
<1>2. QED
  BY InitIInv, <1>1, PTL DEF Spec

(***************************************************************************)
(* Theorems                                                                *)
(***************************************************************************)

\* Type correctness; in particular rx_queue stays within __RX_SKB_MAX_QUEUED
\* and no more than rx_urb_num receive URBs exist.
THEOREM TypeCorrect == Spec => []TypeOK
  BY Inductive, PTL DEF IInv

\* tx_pending_urbs counts exactly the slots in use, through any number of
\* stops, starts and errors, until rtl_usb_start resets it under a URB.
THEOREM WindowAccounting == Spec => []CounterExact
  BY Inductive, PTL DEF IInv

\* rtl_usb_stop leaves no receive URB, no skb and no tasklet behind, and a
\* session has all its receive URBs unless rtl_op_start only pretended.
THEOREM RxPool == Spec => []RxPoolMatches
<1>1. IInv => RxPoolMatches
  BY DEF IInv, RxCounted, RxEmpty, RxMade, RxPoolMatches
<1>2. QED
  BY Inductive, <1>1, PTL

\* A set that meets a condition at most once counts for one or nothing.
LEMMA AtMostOne ==
  ASSUME NEW S, NEW x
  PROVE  /\ S = {} => Cardinality(S) = 0
         /\ S = {x} => Cardinality(S) = 1
  BY FS_EmptySet, FS_Singleton

\* Every skb that met no error and entered before the first double free has
\* exactly one owner or was freed exactly once, whatever is freed twice
\* meanwhile, and none is left after rtl_usb_disconnect.
THEOREM SkbOwnership == Spec => []OwnedOnce
<1>1. ASSUME IInv PROVE OwnedOnce
  <2> USE RtlUsbAssumption DEF IInv
  <2> SUFFICES ASSUME NEW f \in Frames \ (faulty \cup spoiled)
               PROVE  /\ Cardinality(InQueue(f)) + Cardinality(InHand(f)) + freed[f]
                           + Cardinality({f} \cap tx_flight)
                           + Cardinality({f} \cap fresh) = 1
                      /\ op = "gone" /\ f \notin fresh => freed[f] = 1
    BY DEF OwnedOnce
  <2>1. Cardinality(InQueue(f)) = IF Queued(f) THEN 1 ELSE 0
    <3>1. CASE Queued(f)
      <4>1. PICK i \in 1..Len(tx_wait) : tx_wait[i] = f
        BY <3>1 DEF Queued
      <4>2. InQueue(f) = {i}
        BY <1>1, <4>1 DEF InQueue, OnePlace
      <4>3. QED
        BY <3>1, <4>2, AtMostOne
    <3>2. CASE ~Queued(f)
      BY <3>2, AtMostOne DEF InQueue, Queued
    <3>3. QED
      BY <3>1, <3>2
  <2>2. Cardinality(InHand(f)) = IF Held(f) THEN 1 ELSE 0
    <3>1. CASE Held(f)
      <4>1. PICK c \in Ctx : skb[c] = f
        BY <3>1 DEF Held
      <4>2. InHand(f) = {c}
        BY <1>1, <4>1 DEF InHand, OnePlace
      <4>3. QED
        BY <3>1, <4>2, AtMostOne
    <3>2. CASE ~Held(f)
      BY <3>2, AtMostOne DEF InHand, Held
    <3>3. QED
      BY <3>1, <3>2
  <2>3. Cardinality({f} \cap tx_flight) = IF f \in tx_flight THEN 1 ELSE 0
    BY AtMostOne
  <2>4. Cardinality({f} \cap fresh) = IF f \in fresh THEN 1 ELSE 0
    BY AtMostOne
  <2>5. freed[f] = IF Somewhere(f) THEN 0 ELSE 1
    BY <1>1 DEF OnePlace
  <2>6. op = "gone" /\ f \notin fresh => ~Somewhere(f)
    BY <1>1 DEF GoneIsEmpty, HandsMatch, Somewhere, Queued, Held
  <2>7. QED
    BY <1>1, <2>1, <2>2, <2>3, <2>4, <2>5, <2>6 DEF OnePlace, Somewhere
<1>2. QED
  BY Inductive, <1>1, PTL

-----------------------------------------------------------------------------
(***************************************************************************)
(* RtlPs, for every bound on the races seen                                *)
(***************************************************************************)
CONSTANT MaxRaces

Ps == INSTANCE RtlPs

\* The thread is between taking rfchange_inprogress and giving it back.
Changing(t) == stage_of[t] \in {"hw", "set", "leave"}

\* The part of TypeOK that the proofs use; rtl_ips_nic_off_wq_callback takes
\* no lps_lock and queues nothing.
PsTypes ==
  /\ rf \in Ps!RfStates /\ reason \subseteq Ps!Reasons
  /\ inprog \in BOOLEAN /\ halted \in BOOLEAN /\ nic \in BOOLEAN
  /\ hal \in BOOLEAN /\ broken \in BOOLEAN
  /\ swrf \in BOOLEAN /\ conf_ps \in BOOLEAN
  /\ stage_of \in [Ps!Threads -> Ps!Stages]
  /\ stage_of["off"] \in {"rest", "enter", "hw", "set", "leave"}
  /\ by \in Ps!Reasons

(***************************************************************************)
(* The state of the radio and the reasons for it: as long as nobody takes  *)
(* the flag by force it has one owner, and what does not agree while there *)
(* is one is what the owner is about to repair.                            *)
(***************************************************************************)

\* The flag has one owner, a thread or rtl_pci_stop.
FlagOwner ==
  /\ call = "stop_hw" => stage_of["stk"] = "rest" /\ inprog
  /\ \A t \in Ps!Threads : Changing(t) =>
       /\ inprog /\ call # "stop_hw"
       /\ \A u \in Ps!Threads : Changing(u) => u = t

\* The state and the reasons agree, or will once the owner has set the state.
ReasonsAgree ==
  \/ /\ (rf = "ON") = (reason = {})
     /\ \A t \in Ps!Threads : stage_of[t] \notin {"hw", "set"}
  \/ \E t \in Ps!Threads :
       stage_of[t] \in {"hw", "set"} /\ ((Ps!To(t) = "ON") = (reason = {}))

\* The adapter runs, or a change to ERFOFF has halted it; a change to ERFON
\* has enabled it, and only a radio that is on is put to sleep.
AdapterRuns ==
  /\ hal => nic \/ (halted /\ (rf = "OFF" \/ stage_of["off"] = "set"))
  /\ \A t \in {"stk", "wake"} : stage_of[t] = "set" => ~(rf = "OFF" /\ halted)
  /\ stage_of["ps"] = "set" => rf = "ON"

\* The inductive invariant of RadioMatches.
MatchInv ==
  /\ PsTypes
  /\ call \in {"stop_wait", "stop_hw"} => ~hal
  /\ ~broken => FlagOwner /\ ReasonsAgree /\ AdapterRuns

(***************************************************************************)
(* The stack keeps its radio, whatever became of the flag.  What the stack *)
(* does and who holds lps_lock (LpsOwner, StackOps) is so in every state,  *)
(* the rest as long as neither race was seen.                              *)
(***************************************************************************)
\* No race was seen yet.
Calm == ~raced /\ ~slept

\* The thread is inside rtl_ps_set_rf_state.
Called(t) == stage_of[t] \in {"enter", "hw", "set", "leave"}

\* lps_lock has one owner; the stack's call is for PS only while it has the
\* lock or waits for it.
LpsOwner ==
  /\ \A t \in {"ps", "wake"} : Called(t) => lock = t
  /\ Called("stk") /\ by = "PS" => lock = "stk"
  /\ stage_of["stk"] = "rest" => by = "IPS"
  /\ stage_of["stk"] = "lock" => by = "PS"
  /\ stage_of["stk"] # "ret" /\ stage_of["wake"] # "ret"

\* What mac80211's operations are made of and in which state they are called.
StackOps ==
  /\ vif => hal /\ call \notin {"stop", "stop_wait", "stop_hw", "gone"}
  /\ mlme # "none" => vif /\ ~idle /\ call # "all" /\ call # "add"
  /\ call = "auth" => mlme = "auth"
  /\ call \in {"ps_on", "ps_off", "ps_end"} => mlme = "assoc"
  /\ call = "ps_on" => conf_ps
  /\ call = "add" => hal
  /\ call \in {"rest", "all", "stop_wait", "stop_hw", "gone"} => stage_of["stk"] = "rest"
  /\ by = "PS" => call = "ps_end"

\* Once the interface is busy the nic_off work neither runs nor waits; it and
\* a nic_on exclude each other through swrf_processing.
OffCalm ==
  /\ ~idle => "off" \notin pend /\ stage_of["off"] = "rest"
  /\ stage_of["off"] # "rest" => stage_of["stk"] = "rest" /\ swrf
  /\ stage_of["stk"] # "rest" /\ by = "IPS" => swrf
  /\ swrf => stage_of["off"] # "rest" \/ (stage_of["stk"] # "rest" /\ by = "IPS")
  /\ stage_of["off"] \in {"hw", "set"} => "IPS" \in reason

\* A radio that is off is off for IPS alone, so that the nic_on of a busy
\* interface carries its change out, and nothing makes it wait too long: it is
\* called by rtl_op_config, whose mutex the rfkill poll needs.
StackTurnsOn ==
  /\ rf = "OFF" => mlme # "assoc" /\ stage_of["stk"] # "leave"
  /\ rf = "OFF" => "IPS" \in reason \/ stage_of["stk"] \in {"hw", "set"}
  /\ vif /\ ~idle /\ rf = "OFF" =>
       \/ call = "all" \/ stage_of["stk"] \in {"hw", "set"}
       \/ stage_of["stk"] = "enter" /\ call \in {"cfg", "ps_on", "ps_off"}
  /\ stage_of["wake"] = "hw" /\ rf = "OFF" /\ inprog =>
       Changing("off") \/ Changing("stk") \/ call \in {"stop_hw", "gone"}

\* RF_CHANGE_BY_PS is a reason only in PS mode, or until the call that leaves
\* it has come through; the radio then sleeps or is being put to sleep.
PsCalm ==
  /\ conf_ps => mlme = "assoc"
  /\ "ps" \in pend \/ stage_of["ps"] = "lock" => conf_ps \/ call = "ps_off"
  /\ Called("ps") =>
       conf_ps \/ call = "ps_off" \/ (call = "ps_end" /\ stage_of["stk"] = "lock")
  /\ stage_of["ps"] \notin {"rest", "ret"} => link = "LINKED"
  /\ "PS" \in reason =>
       /\ \/ conf_ps \/ call = "ps_off"
          \/ call = "ps_end" /\ by = "PS" /\ stage_of["stk"] \in {"lock", "enter"}
       /\ link = "LINKED"
       /\ stage_of["stk"] \notin {"hw", "set"} /\ stage_of["wake"] \notin {"hw", "set"}
       /\ rf = "SLEEP" \/ Changing("ps")
  /\ stage_of["ps"] = "leave" => rf = "SLEEP"

\* Of an associated station the flag has one owner even after it was taken by
\* force: only a wake-up can have survived that, and it holds lps_lock.
AssocFlag ==
  /\ Changing("ps") => inprog /\ ~Changing("stk")
  /\ mlme = "assoc" =>
       /\ ~(Changing("wake") /\ Changing("stk"))
       /\ Changing("stk") => inprog
       /\ Changing("wake") /\ ~inprog => rf = "ON" /\ stage_of["stk"] \in {"rest", "lock"}

\* The inductive invariant of WorkKeepsRadio.
KeepsInv ==
  /\ PsTypes
  /\ LpsOwner /\ StackOps
  /\ Calm => OffCalm /\ StackTurnsOn /\ PsCalm /\ AssocFlag

-----------------------------------------------------------------------------

\* The types are an invariant by themselves.
LEMMA TypesNext ==
  ASSUME PsTypes, [Ps!Next]_Ps!vars
  PROVE  PsTypes'
<1> USE DEF PsTypes, Ps!Threads, Ps!Stages, Ps!Reasons, Ps!RfStates, Ps!At,
    Ps!Goto, Ps!To, Ps!By, Ps!mac, Ps!lps, Ps!stack, Ps!threads, Ps!radio,
    Ps!history
<1>1. ASSUME NEW t \in Ps!Threads, Ps!SetRfEnter(t)
      PROVE  PsTypes'
  BY <1>1 DEF Ps!SetRfEnter
<1>2. ASSUME NEW t \in Ps!Threads,
             Ps!SetRfTimeout(t) \/ Ps!SetRfLeave(t)
      PROVE  PsTypes'
  <2>1. Ps!Returned(t) /\ UNCHANGED <<reason, halted, nic, hal, broken, conf_ps>>
        /\ rf' \in Ps!RfStates /\ inprog' \in BOOLEAN
    BY <1>2 DEF Ps!SetRfTimeout, Ps!SetRfLeave
  <2> QED BY <2>1 DEF Ps!Returned
<1>3. ASSUME NEW t \in Ps!Threads,
             Ps!RfUnchanged(t) \/ Ps!RfOn(t) \/ Ps!RfOff(t) \/ Ps!RfSleep(t)
      PROVE  PsTypes'
  <2>1. CASE Ps!RfUnchanged(t) \/ Ps!RfSleep(t)
    BY <1>3, <2>1 DEF Ps!RfUnchanged, Ps!RfSleep
  <2>2. CASE Ps!RfOn(t)
    BY <1>3, <2>2 DEF Ps!RfOn, Ps!EnableNic
  <2>3. CASE Ps!RfOff(t)
    BY <1>3, <2>3 DEF Ps!RfOff, Ps!DisableNic, Ps!CardDisable
  <2> QED BY <1>3, <2>1, <2>2, <2>3
<1>4. CASE Ps!NicOffRun \/ Ps!PsWorkRun \/ Ps!PsWorkReturn \/ Ps!WakeRun
  <2>1. CASE Ps!NicOffRun
    BY <2>1 DEF Ps!NicOffRun
  <2>2. CASE Ps!PsWorkRun
    BY <2>2 DEF Ps!PsWorkRun
  <2>3. CASE Ps!PsWorkReturn
    BY <2>3 DEF Ps!PsWorkReturn
  <2>4. CASE Ps!WakeRun
    BY <2>4 DEF Ps!WakeRun
  <2> QED BY <1>4, <2>1, <2>2, <2>3, <2>4
<1>5. ASSUME NEW t \in Ps!Threads \ {"off"}, Ps!TakeLpsLock(t)
      PROVE  PsTypes'
  BY <1>5 DEF Ps!TakeLpsLock
<1>6. ASSUME Ps!NicOn, UNCHANGED <<hal, conf_ps>>
      PROVE  PsTypes'
  BY <1>6 DEF Ps!NicOn
<1>7. ASSUME UNCHANGED <<Ps!radio, Ps!threads, broken, hal>>, conf_ps' \in BOOLEAN
      PROVE  PsTypes'
  BY <1>7
<1>8. CASE \/ Ps!AddInterfaceEnd \/ Ps!ConfigAll \/ Ps!ConfigEnd \/ Ps!ConfigPsOn \/ Ps!ConfigPsOffEnd
           \/ Ps!TxAuthEnd \/ Ps!SetKeyEnd
  BY <1>7, <1>8
    DEF Ps!AddInterfaceEnd, Ps!ConfigAll, Ps!ConfigEnd, Ps!ConfigPsOn,
      Ps!ConfigPsOffEnd, Ps!TxAuthEnd, Ps!SetKeyEnd, Ps!NoRadio
<1>9. CASE Ps!ConfigPsOff
  BY <1>9 DEF Ps!ConfigPsOff
<1>10. CASE Ps!OpStopDeinit \/ Ps!OpStopTake \/ Ps!OpStopDisable
  <2>1. CASE Ps!OpStopDeinit
    BY <2>1 DEF Ps!OpStopDeinit, Ps!NoRadio
  <2>2. CASE Ps!OpStopTake
    BY <2>2 DEF Ps!OpStopTake
  <2>3. CASE Ps!OpStopDisable
    BY <2>3 DEF Ps!OpStopDisable, Ps!CardDisable
  <2> QED BY <1>10, <2>1, <2>2, <2>3
<1>11. CASE Ps!OpStart
  BY <1>11 DEF Ps!OpStart
<1>12. CASE Ps!AddInterface \/ Ps!ConfigBusy \/ Ps!TxAuth \/ Ps!SetKey
  BY <1>6, <1>12 DEF Ps!AddInterface, Ps!ConfigBusy, Ps!TxAuth, Ps!SetKey
<1>13. CASE Ps!ScanStart
  BY <1>6, <1>7, <1>13 DEF Ps!ScanStart
<1>14. CASE Ps!Config \/ Ps!OpStop
  BY <1>6, <1>7, <1>14 DEF Ps!Config, Ps!OpStop, Ps!NicOnIfOff, Ps!NoRadio
<1>15. CASE Ps!ConfigPs
  <2>1. conf_ps' \in BOOLEAN
    BY <1>15 DEF Ps!ConfigPs
  <2>2. CASE Ps!NicOn
    BY <1>15, <2>1, <2>2 DEF Ps!ConfigPs, Ps!NicOnIfOff, Ps!NicOn
  <2>3. CASE Ps!NoRadio
    BY <1>7, <1>15, <2>1, <2>3 DEF Ps!ConfigPs, Ps!NicOnIfOff, Ps!NoRadio
  <2> QED BY <1>15, <2>2, <2>3 DEF Ps!ConfigPs, Ps!NicOnIfOff
<1>16. CASE Ps!ConfigSkipped
  BY <1>7, <1>16 DEF Ps!ConfigSkipped
<1>17. CASE \/ Ps!ConfigIdle \/ Ps!AuthFails \/ Ps!Assoc \/ Ps!Unassoc
            \/ Ps!ScanSkipped \/ Ps!ScanComplete \/ Ps!RemoveInterface \/ Ps!Beacon
  BY <1>7, <1>17
    DEF Ps!ConfigIdle, Ps!AuthFails, Ps!Assoc, Ps!Unassoc, Ps!ScanSkipped,
      Ps!ScanComplete, Ps!RemoveInterface, Ps!Beacon, Ps!NoRadio
<1>18. CASE UNCHANGED Ps!vars
  BY <1>18 DEF Ps!vars
<1> HIDE DEF PsTypes
<1> QED
  BY <1>1, <1>2, <1>3, <1>4, <1>5, <1>8, <1>9, <1>10, <1>11, <1>12, <1>13,
      <1>14, <1>15, <1>16, <1>17, <1>18
    DEF Ps!Next, Ps!OffStep, Ps!PsStep, Ps!WakeStep, Ps!StackContinues,
      Ps!StackBegins, Ps!SetRfStep

\* What TypeOK says beyond PsTypes.
StackTypes ==
  /\ scanning \in BOOLEAN /\ skip \in BOOLEAN /\ p2p \in BOOLEAN /\ swps \in BOOLEAN
  /\ multi \in BOOLEAN /\ idle \in BOOLEAN /\ vif \in BOOLEAN
  /\ raced \in BOOLEAN /\ slept \in BOOLEAN
  /\ link \in {"NOLINK", "LINKING", "LINKED", "SCANNING"}
  /\ pend \subseteq Ps!Works
  /\ lock \in Ps!Threads \cup {Ps!Nobody}
  /\ call \in {"rest", "cfg", "add", "all", "ps_on", "ps_off", "ps_end",
             "auth", "key", "scan", "stop", "stop_wait", "stop_hw", "gone"}
  /\ mlme \in {"none", "auth", "assoc"}

\* Every step preserves them.
LEMMA StackTypesNext ==
  ASSUME PsTypes, StackTypes, [Ps!Next]_Ps!vars
  PROVE  StackTypes'
<1> USE DEF StackTypes, Ps!Works, Ps!mac, Ps!lps, Ps!stack, Ps!threads,
    Ps!history
<1>1. ASSUME NEW t \in Ps!Threads, Ps!SetRfEnter(t)
      PROVE  StackTypes'
  BY <1>1 DEF Ps!SetRfEnter
<1>2. ASSUME NEW t \in Ps!Threads, Ps!RfUnchanged(t)
      PROVE  StackTypes'
  BY <1>2 DEF Ps!RfUnchanged
<1>3. ASSUME NEW t \in Ps!Threads, Ps!RfOn(t)
      PROVE  StackTypes'
  BY <1>3 DEF Ps!RfOn
<1>4. ASSUME NEW t \in Ps!Threads, Ps!RfOff(t)
      PROVE  StackTypes'
  BY <1>4 DEF Ps!RfOff, Ps!DisableNic, Ps!CardDisable, Ps!CancelWorks
<1>5. ASSUME NEW t \in Ps!Threads, Ps!RfSleep(t)
      PROVE  StackTypes'
  BY <1>5 DEF Ps!RfSleep
<1>6. ASSUME NEW t \in Ps!Threads, Ps!SetRfTimeout(t)
      PROVE  StackTypes'
  BY <1>6 DEF Ps!SetRfTimeout, Ps!Returned
<1>7. ASSUME NEW t \in Ps!Threads, Ps!SetRfLeave(t)
      PROVE  StackTypes'
  BY <1>7 DEF Ps!SetRfLeave, Ps!Returned
<1>8. CASE Ps!NicOffRun
  BY <1>8 DEF Ps!NicOffRun
<1>9. CASE Ps!PsWorkRun
  BY <1>9 DEF Ps!PsWorkRun
<1>10. CASE Ps!PsWorkReturn
  BY <1>10 DEF Ps!PsWorkReturn
<1>11. CASE Ps!WakeRun
  BY <1>11 DEF Ps!WakeRun
<1>12. ASSUME NEW t \in Ps!Threads \ {"off"}, Ps!TakeLpsLock(t)
      PROVE  StackTypes'
  BY <1>12 DEF Ps!TakeLpsLock
<1>13. CASE Ps!AddInterfaceEnd
  BY <1>13 DEF Ps!AddInterfaceEnd, Ps!NoRadio
<1>14. CASE Ps!ConfigAll
  BY <1>14 DEF Ps!ConfigAll, Ps!NoRadio
<1>15. CASE Ps!ConfigEnd
  BY <1>15 DEF Ps!ConfigEnd, Ps!NoRadio
<1>16. CASE Ps!ConfigPsOn
  BY <1>16 DEF Ps!ConfigPsOn, Ps!NoRadio
<1>17. CASE Ps!ConfigPsOff
  BY <1>17 DEF Ps!ConfigPsOff
<1>18. CASE Ps!ConfigPsOffEnd
  <2>1. /\ swps' \in BOOLEAN /\ call' = "rest"
        /\ UNCHANGED <<Ps!mac, multi, Ps!stack, pend, Ps!threads, Ps!history>>
    BY <1>18 DEF Ps!ConfigPsOffEnd, Ps!NoRadio
  <2> QED BY <2>1
<1>19. CASE Ps!TxAuthEnd
  BY <1>19 DEF Ps!TxAuthEnd, Ps!NoRadio
<1>20. CASE Ps!SetKeyEnd
  BY <1>20 DEF Ps!SetKeyEnd, Ps!NoRadio
<1>21. CASE Ps!OpStopDeinit
  BY <1>21 DEF Ps!OpStopDeinit, Ps!NoRadio, Ps!CancelWorks
<1>22. CASE Ps!OpStopTake
  BY <1>22 DEF Ps!OpStopTake
<1>23. CASE Ps!OpStopDisable
  BY <1>23 DEF Ps!OpStopDisable, Ps!CardDisable
<1>24. CASE Ps!OpStart
  BY <1>24 DEF Ps!OpStart
<1>25. CASE Ps!AddInterface
  BY <1>25 DEF Ps!AddInterface, Ps!NicOn, Ps!Begin
<1>26. CASE Ps!ConfigBusy
  BY <1>26 DEF Ps!ConfigBusy, Ps!NicOn, Ps!Begin
<1>27. CASE Ps!TxAuth
  BY <1>27 DEF Ps!TxAuth, Ps!NicOn, Ps!Begin
<1>28. CASE Ps!SetKey
  BY <1>28 DEF Ps!SetKey, Ps!NicOn, Ps!Begin
<1>29. CASE Ps!ScanStart
  BY <1>29 DEF Ps!ScanStart, Ps!NicOn, Ps!Begin
<1>30. CASE Ps!Config
  BY <1>30 DEF Ps!Config, Ps!NicOnIfOff, Ps!NicOn, Ps!Begin, Ps!NoRadio
<1>31. CASE Ps!OpStop
  <2>1. call' = "stop" /\ UNCHANGED <<Ps!mac, Ps!lps, idle, mlme, vif>>
    BY <1>31 DEF Ps!OpStop, Ps!NicOnIfOff, Ps!Begin
  <2>2. CASE Ps!NicOn
    BY <2>1, <2>2 DEF Ps!NicOn
  <2>3. CASE Ps!NoRadio /\ UNCHANGED pend
    BY <2>1, <2>3 DEF Ps!NoRadio
  <2> QED BY <1>31, <2>2, <2>3 DEF Ps!OpStop, Ps!NicOnIfOff
<1>32. CASE Ps!ConfigPs
  BY <1>32 DEF Ps!ConfigPs, Ps!NicOnIfOff, Ps!NicOn, Ps!Begin, Ps!NoRadio
<1>33. CASE Ps!ConfigSkipped
  BY <1>33 DEF Ps!ConfigSkipped
<1>34. CASE Ps!ConfigIdle
  BY <1>34 DEF Ps!ConfigIdle, Ps!NoRadio
<1>35. CASE Ps!AuthFails
  BY <1>35 DEF Ps!AuthFails, Ps!NoRadio
<1>36. CASE Ps!Assoc
  BY <1>36 DEF Ps!Assoc, Ps!NoRadio
<1>37. CASE Ps!Unassoc
  BY <1>37 DEF Ps!Unassoc, Ps!NoRadio
<1>38. CASE Ps!ScanSkipped
  BY <1>38 DEF Ps!ScanSkipped, Ps!NoRadio
<1>39. CASE Ps!ScanComplete
  <2>1. link' \in {"LINKED", link}
    BY <1>39 DEF Ps!ScanComplete
  <2>2. /\ scanning' \in BOOLEAN /\ skip' \in BOOLEAN
        /\ UNCHANGED <<Ps!lps, idle, mlme, vif, pend, call, Ps!threads, Ps!history>>
    BY <1>39 DEF Ps!ScanComplete, Ps!NoRadio
  <2>3. p2p' \in BOOLEAN
    BY <1>39 DEF Ps!ScanComplete
  <2> QED BY <2>1, <2>2, <2>3
<1>40. CASE Ps!RemoveInterface
  <2>1. /\ vif' \in BOOLEAN /\ link' = "NOLINK"
        /\ UNCHANGED <<scanning, skip, p2p, Ps!lps, idle, mlme, pend, call>>
        /\ UNCHANGED <<Ps!threads, Ps!history>>
    BY <1>40 DEF Ps!RemoveInterface, Ps!NoRadio
  <2> QED BY <2>1
<1>41. CASE Ps!Beacon
  BY <1>41 DEF Ps!Beacon, Ps!NoRadio
<1>42. CASE UNCHANGED Ps!vars
  BY <1>42 DEF Ps!vars
<1> HIDE DEF StackTypes
<1>s. ASSUME NEW t \in Ps!Threads, Ps!SetRfStep(t)
      PROVE  StackTypes'
  BY <1>1, <1>2, <1>3, <1>4, <1>5, <1>6, <1>7, <1>s DEF Ps!SetRfStep
<1>t. "stk" \in Ps!Threads /\ "off" \in Ps!Threads /\ "ps" \in Ps!Threads /\ "wake" \in Ps!Threads
  BY DEF Ps!Threads
<1> QED
  BY <1>s, <1>t, <1>8, <1>9, <1>10, <1>11, <1>12, <1>13, <1>14, <1>15, <1>16,
      <1>17, <1>18, <1>19, <1>20, <1>21, <1>22, <1>23, <1>24, <1>25, <1>26,
      <1>27, <1>28, <1>29, <1>30, <1>31, <1>32, <1>33, <1>34, <1>35, <1>36,
      <1>37, <1>38, <1>39, <1>40, <1>41, <1>42
    DEF Ps!Next, Ps!OffStep, Ps!PsStep, Ps!WakeStep, Ps!StackContinues,
      Ps!StackBegins

\* The variables of RtlPs keep their types.
THEOREM PsTypeCorrect == Ps!Spec => []Ps!TypeOK
<1>1. PsTypes /\ StackTypes => Ps!TypeOK
  BY DEF Ps!TypeOK, PsTypes, StackTypes
<1>2. Ps!Init => PsTypes /\ StackTypes
  BY DEF Ps!Init, PsTypes, StackTypes, Ps!Threads, Ps!Works, Ps!Nobody,
      Ps!Stages, Ps!Reasons, Ps!RfStates
<1>3. PsTypes /\ StackTypes /\ [Ps!Next]_Ps!vars => PsTypes' /\ StackTypes'
  BY TypesNext, StackTypesNext
<1> QED BY <1>1, <1>2, <1>3, PTL DEF Ps!Spec

(***************************************************************************)
(* The state agrees with the reasons                                       *)
(***************************************************************************)
\* The initial states.
LEMMA MatchInit == Ps!Init => MatchInv
BY DEF Ps!Init, MatchInv, PsTypes, FlagOwner, ReasonsAgree, AdapterRuns,
    Changing, Ps!Threads, Ps!Stages, Ps!Reasons, Ps!RfStates

\* Every step preserves the invariant.
LEMMA MatchNext ==
  ASSUME MatchInv, [Ps!Next]_Ps!vars
  PROVE  MatchInv'
<1>0. PsTypes'
  BY TypesNext DEF MatchInv
<1> USE DEF MatchInv, PsTypes, FlagOwner, ReasonsAgree, AdapterRuns, Changing,
    Ps!Threads, Ps!Stages, Ps!Reasons, Ps!RfStates, Ps!At, Ps!Goto, Ps!To,
    Ps!By, Ps!mac, Ps!lps, Ps!stack, Ps!threads, Ps!radio, Ps!history
\* rtl_ps_set_rf_state
<1>1. ASSUME NEW t \in Ps!Threads, Ps!SetRfEnter(t)
      PROVE  MatchInv'
  BY <1>0, <1>1 DEF Ps!SetRfEnter
<1>2. ASSUME NEW t \in Ps!Threads, Ps!SetRfTimeout(t)
      PROVE  MatchInv'
  BY <1>0, <1>2 DEF Ps!SetRfTimeout, Ps!Returned
<1>3. ASSUME NEW t \in Ps!Threads, Ps!RfUnchanged(t)
      PROVE  MatchInv'
  BY <1>0, <1>3 DEF Ps!RfUnchanged
<1>4. ASSUME NEW t \in Ps!Threads, Ps!RfOn(t)
      PROVE  MatchInv'
  BY <1>0, <1>4 DEF Ps!RfOn, Ps!EnableNic
<1>5. ASSUME NEW t \in Ps!Threads, Ps!RfOff(t)
      PROVE  MatchInv'
  <2>1. call' \in {"stop_wait", "stop_hw"} => ~hal'
    BY <1>5 DEF Ps!RfOff, Ps!DisableNic, Ps!CardDisable
  <2>2. ASSUME ~broken' PROVE FlagOwner'
    BY <1>5, <2>2 DEF Ps!RfOff, Ps!DisableNic, Ps!CardDisable
  <2>3. ASSUME ~broken' PROVE ReasonsAgree'
    BY <1>5, <2>3 DEF Ps!RfOff, Ps!DisableNic, Ps!CardDisable
  <2>4. ASSUME ~broken' PROVE AdapterRuns'
    BY <1>5, <2>4 DEF Ps!RfOff, Ps!DisableNic, Ps!CardDisable
  <2> QED BY <1>0, <2>1, <2>2, <2>3, <2>4
<1>6. ASSUME NEW t \in Ps!Threads, Ps!RfSleep(t)
      PROVE  MatchInv'
  BY <1>0, <1>6 DEF Ps!RfSleep
<1>7. ASSUME NEW t \in Ps!Threads, Ps!SetRfLeave(t)
      PROVE  MatchInv'
  <2>1. call' \in {"stop_wait", "stop_hw"} => ~hal'
    BY <1>7 DEF Ps!SetRfLeave, Ps!Returned
  <2>2. ASSUME ~broken' PROVE FlagOwner'
    BY <1>7, <2>2 DEF Ps!SetRfLeave, Ps!Returned
  <2>3. ASSUME ~broken' PROVE ReasonsAgree'
    BY <1>7, <2>3 DEF Ps!SetRfLeave, Ps!Returned
  <2>4. ASSUME ~broken' PROVE AdapterRuns'
    BY <1>7, <2>4 DEF Ps!SetRfLeave, Ps!Returned
  <2> QED BY <1>0, <2>1, <2>2, <2>3, <2>4
<1>8. ASSUME NEW t \in Ps!Threads, Ps!SetRfStep(t)
      PROVE  MatchInv'
  BY <1>1, <1>2, <1>3, <1>4, <1>5, <1>6, <1>7, <1>8 DEF Ps!SetRfStep
\* The works
<1>9. CASE Ps!NicOffRun
  BY <1>0, <1>9 DEF Ps!NicOffRun
<1>10. CASE Ps!PsWorkRun
  BY <1>0, <1>10 DEF Ps!PsWorkRun
<1>11. CASE Ps!PsWorkReturn
  BY <1>0, <1>11 DEF Ps!PsWorkReturn
<1>12. CASE Ps!WakeRun
  BY <1>0, <1>12 DEF Ps!WakeRun
<1>13. ASSUME NEW t \in Ps!Threads \ {"off"}, Ps!TakeLpsLock(t)
      PROVE  MatchInv'
  BY <1>0, <1>13 DEF Ps!TakeLpsLock
\* Operations that call rtl_ips_nic_on
<1>14. ASSUME Ps!NicOn, UNCHANGED hal, call' \notin {"stop_wait", "stop_hw"}, stage_of["stk"] = "rest"
       PROVE  MatchInv'
  BY <1>0, <1>14 DEF Ps!NicOn
\* Operations that leave the radio, the threads and hal alone
<1>15. ASSUME UNCHANGED <<rf, reason, inprog, halted, nic, broken, hal, by, stage_of>>,
              call # "stop_hw", call' \notin {"stop_wait", "stop_hw"}
       PROVE  MatchInv'
  BY <1>0, <1>15
<1>16. ASSUME NEW o, Ps!Begin(o), o \notin {"stop_wait", "stop_hw"}, UNCHANGED hal,
              Ps!NicOn \/ UNCHANGED <<rf, reason, inprog, halted, nic, broken, by, stage_of>>
       PROVE  MatchInv'
  BY <1>14, <1>15, <1>16 DEF Ps!Begin, Ps!Free, Ps!StackAt
<1>17. CASE \/ Ps!AddInterfaceEnd \/ Ps!ConfigAll \/ Ps!ConfigEnd \/ Ps!ConfigPsOn \/ Ps!ConfigPsOffEnd
            \/ Ps!TxAuthEnd \/ Ps!SetKeyEnd
  BY <1>15, <1>17
    DEF Ps!AddInterfaceEnd, Ps!ConfigAll, Ps!ConfigEnd, Ps!ConfigPsOn,
      Ps!ConfigPsOffEnd, Ps!TxAuthEnd, Ps!SetKeyEnd, Ps!StackAt, Ps!NoRadio
<1>18. CASE Ps!ConfigPsOff
  BY <1>0, <1>18 DEF Ps!ConfigPsOff, Ps!StackAt
<1>19. CASE Ps!OpStopDeinit
  <2>1. call' \in {"stop_wait", "stop_hw"} => ~hal'
    BY <1>19 DEF Ps!OpStopDeinit, Ps!StackAt, Ps!NoRadio
  <2>2. ASSUME ~broken' PROVE FlagOwner'
    BY <1>19, <2>2 DEF Ps!OpStopDeinit, Ps!StackAt, Ps!NoRadio
  <2>3. ASSUME ~broken' PROVE ReasonsAgree'
    BY <1>19, <2>3 DEF Ps!OpStopDeinit, Ps!StackAt, Ps!NoRadio
  <2>4. ASSUME ~broken' PROVE AdapterRuns'
    BY <1>19, <2>4 DEF Ps!OpStopDeinit, Ps!StackAt, Ps!NoRadio
  <2> QED BY <1>0, <2>1, <2>2, <2>3, <2>4
<1>20. CASE Ps!OpStopTake
  BY <1>0, <1>20 DEF Ps!OpStopTake, Ps!StackAt
<1>21. CASE Ps!OpStopDisable
  BY <1>0, <1>21 DEF Ps!OpStopDisable, Ps!StackAt, Ps!CardDisable
<1>22. CASE Ps!OpStart
  BY <1>0, <1>22 DEF Ps!OpStart, Ps!Free, Ps!StackAt
<1>23. CASE Ps!AddInterface \/ Ps!ConfigBusy \/ Ps!TxAuth \/ Ps!SetKey \/ Ps!ScanStart
  BY <1>16, <1>23
    DEF Ps!AddInterface, Ps!ConfigBusy, Ps!TxAuth, Ps!SetKey, Ps!ScanStart
<1>24. CASE Ps!Config \/ Ps!ConfigPs \/ Ps!OpStop
  BY <1>16, <1>24
    DEF Ps!Config, Ps!ConfigPs, Ps!OpStop, Ps!NicOnIfOff, Ps!NoRadio
<1>25. CASE \/ Ps!ConfigSkipped \/ Ps!ConfigIdle \/ Ps!AuthFails \/ Ps!Assoc \/ Ps!Unassoc
            \/ Ps!ScanSkipped \/ Ps!ScanComplete \/ Ps!RemoveInterface
  BY <1>15, <1>25
    DEF Ps!ConfigSkipped, Ps!ConfigIdle, Ps!AuthFails, Ps!Assoc, Ps!Unassoc,
      Ps!ScanSkipped, Ps!ScanComplete, Ps!RemoveInterface, Ps!Free,
      Ps!StackAt, Ps!NoRadio
<1>26. CASE Ps!Beacon
  BY <1>0, <1>26 DEF Ps!Beacon, Ps!NoRadio
<1>27. CASE UNCHANGED Ps!vars
  BY <1>0, <1>27 DEF Ps!vars
<1> QED
  BY <1>8, <1>9, <1>10, <1>11, <1>12, <1>13, <1>17, <1>18, <1>19, <1>20,
      <1>21, <1>22, <1>23, <1>24, <1>25, <1>26, <1>27
    DEF Ps!Next, Ps!OffStep, Ps!PsStep, Ps!WakeStep, Ps!StackContinues,
      Ps!StackBegins

\* The invariant implies the property.
LEMMA MatchImplies == MatchInv => RadioMatches
BY DEF MatchInv, FlagOwner, ReasonsAgree, AdapterRuns, Changing,
    RadioMatches, Ps!Threads, PsTypes

\* Whenever no change is in progress the recorded state of the radio agrees
\* with the reasons, and a radio that is not off belongs to an adapter that
\* runs, whatever the works and the stack overtook, unless rtl_pci_stop took
\* the flag by force or hw_init failed.
THEOREM RadioAlwaysMatches == Ps!Spec => []RadioMatches
<1>1. Ps!Init => MatchInv
  BY MatchInit
<1>2. MatchInv /\ [Ps!Next]_Ps!vars => MatchInv'
  BY MatchNext
<1> QED BY <1>1, <1>2, MatchImplies, PTL DEF Ps!Spec

(***************************************************************************)
(* The stack keeps its radio                                               *)
(***************************************************************************)
\* The initial states.
LEMMA KeepsInit == Ps!Init => KeepsInv
BY DEF Ps!Init, KeepsInv, PsTypes, LpsOwner, StackOps, OffCalm, StackTurnsOn,
    PsCalm, AssocFlag, Changing, Called, Ps!Threads, Ps!Stages, Ps!Reasons,
    Ps!RfStates

\* Every step preserves the invariant.
LEMMA KeepsNext ==
  ASSUME KeepsInv, [Ps!Next]_Ps!vars
  PROVE  KeepsInv'
<1>0. PsTypes'
  BY TypesNext DEF KeepsInv
<1> USE DEF KeepsInv, PsTypes, LpsOwner, StackOps, OffCalm, StackTurnsOn,
    PsCalm, AssocFlag, Calm, Changing, Called, Ps!Threads, Ps!Stages,
    Ps!Reasons, Ps!RfStates, Ps!Works, Ps!Nobody, Ps!At, Ps!Goto, Ps!To,
    Ps!By, Ps!mac, Ps!lps, Ps!stack, Ps!threads, Ps!radio, Ps!history
<1>1. ASSUME NEW t \in Ps!Threads, Ps!SetRfEnter(t)
      PROVE  KeepsInv'
  <2>1. LpsOwner'
    BY <1>1 DEF Ps!SetRfEnter
  <2>2. StackOps'
    BY <1>1 DEF Ps!SetRfEnter
  <2>3. ASSUME Calm' PROVE OffCalm'
    BY <1>1, <2>3 DEF Ps!SetRfEnter
  <2>4. ASSUME Calm' PROVE StackTurnsOn'
    BY <1>1, <2>4 DEF Ps!SetRfEnter
  <2>5. ASSUME Calm' PROVE PsCalm'
    <3>1. CASE t = "off"
      BY <1>1, <2>5, <3>1 DEF Ps!SetRfEnter
    <3>2. CASE t = "stk"
      BY <1>1, <2>5, <3>2 DEF Ps!SetRfEnter
    <3>3. CASE t = "ps"
      BY <1>1, <2>5, <3>3 DEF Ps!SetRfEnter
    <3>4. CASE t = "wake"
      BY <1>1, <2>5, <3>4 DEF Ps!SetRfEnter
    <3> QED BY <3>1, <3>2, <3>3, <3>4
  <2>6. ASSUME Calm' PROVE AssocFlag'
    BY <1>1, <2>6 DEF Ps!SetRfEnter
  <2> QED BY <1>0, <2>1, <2>2, <2>3, <2>4, <2>5, <2>6
<1>2. ASSUME NEW t \in Ps!Threads, Ps!SetRfTimeout(t)
      PROVE  KeepsInv'
  <2>1. LpsOwner'
    BY <1>2 DEF Ps!SetRfTimeout, Ps!Returned, Ps!LongChange, Ps!PollHolds
  <2>2. StackOps'
    BY <1>2 DEF Ps!SetRfTimeout, Ps!Returned, Ps!LongChange, Ps!PollHolds
  <2>3. ASSUME Calm' PROVE OffCalm'
    BY <1>2, <2>3 DEF Ps!SetRfTimeout, Ps!Returned, Ps!LongChange, Ps!PollHolds
  <2>4. ASSUME Calm' PROVE StackTurnsOn'
    BY <1>2, <2>4 DEF Ps!SetRfTimeout, Ps!Returned, Ps!LongChange, Ps!PollHolds
  <2>5. ASSUME Calm' PROVE PsCalm'
    BY <1>2, <2>5 DEF Ps!SetRfTimeout, Ps!Returned, Ps!LongChange, Ps!PollHolds
  <2>6. ASSUME Calm' PROVE AssocFlag'
    BY <1>2, <2>6 DEF Ps!SetRfTimeout, Ps!Returned, Ps!LongChange, Ps!PollHolds
  <2> QED BY <1>0, <2>1, <2>2, <2>3, <2>4, <2>5, <2>6
<1>3. ASSUME NEW t \in Ps!Threads, Ps!RfUnchanged(t)
      PROVE  KeepsInv'
  BY <1>0, <1>3 DEF Ps!RfUnchanged
<1>4. ASSUME NEW t \in Ps!Threads, Ps!RfOn(t)
      PROVE  KeepsInv'
  BY <1>0, <1>4 DEF Ps!RfOn, Ps!EnableNic
<1>5. ASSUME NEW t \in Ps!Threads, Ps!RfOff(t)
      PROVE  KeepsInv'
  <2>1. LpsOwner'
    BY <1>5 DEF Ps!RfOff, Ps!DisableNic, Ps!CardDisable, Ps!CancelWorks
  <2>2. StackOps'
    BY <1>5 DEF Ps!RfOff, Ps!DisableNic, Ps!CardDisable, Ps!CancelWorks
  <2>3. ASSUME Calm' PROVE OffCalm'
    BY <1>5, <2>3 DEF Ps!RfOff, Ps!DisableNic, Ps!CardDisable, Ps!CancelWorks
  <2>4. ASSUME Calm' PROVE StackTurnsOn'
    BY <1>5, <2>4 DEF Ps!RfOff, Ps!DisableNic, Ps!CardDisable, Ps!CancelWorks
  <2>5. ASSUME Calm' PROVE PsCalm'
    BY <1>5, <2>5 DEF Ps!RfOff, Ps!DisableNic, Ps!CardDisable, Ps!CancelWorks
  <2>6. ASSUME Calm' PROVE AssocFlag'
    BY <1>5, <2>6 DEF Ps!RfOff, Ps!DisableNic, Ps!CardDisable, Ps!CancelWorks
  <2> QED BY <1>0, <2>1, <2>2, <2>3, <2>4, <2>5, <2>6
<1>6. ASSUME NEW t \in Ps!Threads, Ps!RfSleep(t)
      PROVE  KeepsInv'
  BY <1>0, <1>6 DEF Ps!RfSleep
<1>7. ASSUME NEW t \in Ps!Threads, Ps!SetRfLeave(t)
      PROVE  KeepsInv'
  <2>1. LpsOwner'
    BY <1>7 DEF Ps!SetRfLeave, Ps!Returned
  <2>2. StackOps'
    BY <1>7 DEF Ps!SetRfLeave, Ps!Returned
  <2>3. ASSUME Calm' PROVE OffCalm'
    BY <1>7, <2>3 DEF Ps!SetRfLeave, Ps!Returned
  <2>4. ASSUME Calm' PROVE StackTurnsOn'
    BY <1>7, <2>4 DEF Ps!SetRfLeave, Ps!Returned
  <2>5. ASSUME Calm' PROVE PsCalm'
    BY <1>7, <2>5 DEF Ps!SetRfLeave, Ps!Returned
  <2>6. ASSUME Calm' PROVE AssocFlag'
    BY <1>7, <2>6 DEF Ps!SetRfLeave, Ps!Returned
  <2> QED BY <1>0, <2>1, <2>2, <2>3, <2>4, <2>5, <2>6
<1>8. CASE Ps!NicOffRun
  <2>1. LpsOwner'
    BY <1>8 DEF Ps!NicOffRun
  <2>2. StackOps'
    BY <1>8 DEF Ps!NicOffRun
  <2>3. ASSUME Calm' PROVE OffCalm'
    BY <1>8, <2>3 DEF Ps!NicOffRun
  <2>4. ASSUME Calm' PROVE StackTurnsOn'
    BY <1>8, <2>4 DEF Ps!NicOffRun
  <2>5. ASSUME Calm' PROVE PsCalm'
    BY <1>8, <2>5 DEF Ps!NicOffRun
  <2>6. ASSUME Calm' PROVE AssocFlag'
    BY <1>8, <2>6 DEF Ps!NicOffRun
  <2> QED BY <1>0, <2>1, <2>2, <2>3, <2>4, <2>5, <2>6
<1>9. CASE Ps!PsWorkRun
  BY <1>0, <1>9 DEF Ps!PsWorkRun
<1>10. CASE Ps!PsWorkReturn
  BY <1>0, <1>10 DEF Ps!PsWorkReturn
<1>11. CASE Ps!WakeRun
  BY <1>0, <1>11 DEF Ps!WakeRun
<1>12. ASSUME NEW t \in Ps!Threads, Ps!TakeLpsLock(t)
      PROVE  KeepsInv'
  BY <1>0, <1>12 DEF Ps!TakeLpsLock
<1>13. CASE Ps!AddInterfaceEnd
  BY <1>0, <1>13 DEF Ps!AddInterfaceEnd, Ps!StackAt, Ps!NoRadio
<1>14. CASE Ps!ConfigAll
  BY <1>0, <1>14 DEF Ps!ConfigAll, Ps!StackAt, Ps!NoRadio
<1>15. CASE Ps!ConfigEnd
  BY <1>0, <1>15 DEF Ps!ConfigEnd, Ps!StackAt, Ps!NoRadio
<1>16. CASE Ps!ConfigPsOn
  BY <1>0, <1>16 DEF Ps!ConfigPsOn, Ps!StackAt, Ps!NoRadio
<1>17. CASE Ps!ConfigPsOff
  <2>1. LpsOwner'
    BY <1>17 DEF Ps!ConfigPsOff, Ps!StackAt
  <2>2. StackOps'
    BY <1>17 DEF Ps!ConfigPsOff, Ps!StackAt
  <2>3. ASSUME Calm' PROVE OffCalm'
    BY <1>17, <2>3 DEF Ps!ConfigPsOff, Ps!StackAt
  <2>4. ASSUME Calm' PROVE StackTurnsOn'
    BY <1>17, <2>4 DEF Ps!ConfigPsOff, Ps!StackAt
  <2>5. ASSUME Calm' PROVE PsCalm'
    BY <1>17, <2>5 DEF Ps!ConfigPsOff, Ps!StackAt
  <2>6. ASSUME Calm' PROVE AssocFlag'
    BY <1>17, <2>6 DEF Ps!ConfigPsOff, Ps!StackAt
  <2> QED BY <1>0, <2>1, <2>2, <2>3, <2>4, <2>5, <2>6
<1>18. CASE Ps!ConfigPsOffEnd
  BY <1>0, <1>18 DEF Ps!ConfigPsOffEnd, Ps!StackAt, Ps!NoRadio
<1>19. CASE Ps!TxAuthEnd
  BY <1>0, <1>19 DEF Ps!TxAuthEnd, Ps!StackAt, Ps!NoRadio
<1>20. CASE Ps!SetKeyEnd
  BY <1>0, <1>20 DEF Ps!SetKeyEnd, Ps!StackAt, Ps!NoRadio
<1>21. CASE Ps!OpStopDeinit
  <2>1. LpsOwner'
    BY <1>21 DEF Ps!OpStopDeinit, Ps!CancelWorks, Ps!StackAt, Ps!NoRadio
  <2>2. StackOps'
    BY <1>21 DEF Ps!OpStopDeinit, Ps!CancelWorks, Ps!StackAt, Ps!NoRadio
  <2>3. ASSUME Calm' PROVE OffCalm'
    BY <1>21, <2>3 DEF Ps!OpStopDeinit, Ps!CancelWorks, Ps!StackAt, Ps!NoRadio
  <2>4. ASSUME Calm' PROVE StackTurnsOn'
    BY <1>21, <2>4 DEF Ps!OpStopDeinit, Ps!CancelWorks, Ps!StackAt, Ps!NoRadio
  <2>5. ASSUME Calm' PROVE PsCalm'
    BY <1>21, <2>5 DEF Ps!OpStopDeinit, Ps!CancelWorks, Ps!StackAt, Ps!NoRadio
  <2>6. ASSUME Calm' PROVE AssocFlag'
    BY <1>21, <2>6 DEF Ps!OpStopDeinit, Ps!CancelWorks, Ps!StackAt, Ps!NoRadio
  <2> QED BY <1>0, <2>1, <2>2, <2>3, <2>4, <2>5, <2>6
<1>22. CASE Ps!OpStopTake
  BY <1>0, <1>22 DEF Ps!OpStopTake, Ps!LongChange, Ps!StackAt
<1>23. CASE Ps!OpStopDisable
  <2>1. LpsOwner'
    BY <1>23 DEF Ps!OpStopDisable, Ps!CardDisable, Ps!StackAt
  <2>2. StackOps'
    BY <1>23 DEF Ps!OpStopDisable, Ps!CardDisable, Ps!StackAt
  <2>3. ASSUME Calm' PROVE OffCalm'
    BY <1>23, <2>3 DEF Ps!OpStopDisable, Ps!CardDisable, Ps!StackAt
  <2>4. ASSUME Calm' PROVE StackTurnsOn'
    BY <1>23, <2>4 DEF Ps!OpStopDisable, Ps!CardDisable, Ps!StackAt
  <2>5. ASSUME Calm' PROVE PsCalm'
    BY <1>23, <2>5 DEF Ps!OpStopDisable, Ps!CardDisable, Ps!StackAt
  <2>6. ASSUME Calm' PROVE AssocFlag'
    BY <1>23, <2>6 DEF Ps!OpStopDisable, Ps!CardDisable, Ps!StackAt
  <2> QED BY <1>0, <2>1, <2>2, <2>3, <2>4, <2>5, <2>6
<1>24. CASE Ps!OpStart
  BY <1>0, <1>24 DEF Ps!OpStart, Ps!Free, Ps!StackAt
<1>25. CASE Ps!AddInterface
  <2>1. LpsOwner'
    BY <1>25 DEF Ps!AddInterface, Ps!NicOn, Ps!Begin, Ps!Free, Ps!StackAt
  <2>2. StackOps'
    BY <1>25 DEF Ps!AddInterface, Ps!NicOn, Ps!Begin, Ps!Free, Ps!StackAt
  <2>3. ASSUME Calm' PROVE OffCalm'
    BY <1>25, <2>3 DEF Ps!AddInterface, Ps!NicOn, Ps!Begin, Ps!Free, Ps!StackAt
  <2>4. ASSUME Calm' PROVE StackTurnsOn'
    BY <1>25, <2>4 DEF Ps!AddInterface, Ps!NicOn, Ps!Begin, Ps!Free, Ps!StackAt
  <2>5. ASSUME Calm' PROVE PsCalm'
    BY <1>25, <2>5 DEF Ps!AddInterface, Ps!NicOn, Ps!Begin, Ps!Free, Ps!StackAt
  <2>6. ASSUME Calm' PROVE AssocFlag'
    BY <1>25, <2>6 DEF Ps!AddInterface, Ps!NicOn, Ps!Begin, Ps!Free, Ps!StackAt
  <2> QED BY <1>0, <2>1, <2>2, <2>3, <2>4, <2>5, <2>6
<1>26. CASE Ps!ConfigSkipped
  <2>1. LpsOwner'
    BY <1>26 DEF Ps!ConfigSkipped, Ps!Free, Ps!StackAt
  <2>2. StackOps'
    BY <1>26 DEF Ps!ConfigSkipped, Ps!Free, Ps!StackAt
  <2>3. ASSUME Calm' PROVE OffCalm'
    BY <1>26, <2>3 DEF Ps!ConfigSkipped, Ps!Free, Ps!StackAt
  <2>4. ASSUME Calm' PROVE StackTurnsOn'
    BY <1>26, <2>4 DEF Ps!ConfigSkipped, Ps!Free, Ps!StackAt
  <2>5. ASSUME Calm' PROVE PsCalm'
    BY <1>26, <2>5 DEF Ps!ConfigSkipped, Ps!Free, Ps!StackAt
  <2>6. ASSUME Calm' PROVE AssocFlag'
    BY <1>26, <2>6 DEF Ps!ConfigSkipped, Ps!Free, Ps!StackAt
  <2> QED BY <1>0, <2>1, <2>2, <2>3, <2>4, <2>5, <2>6
<1>27. CASE Ps!ConfigIdle
  BY <1>0, <1>27 DEF Ps!ConfigIdle, Ps!Free, Ps!StackAt, Ps!NoRadio
<1>28. CASE Ps!ConfigBusy
  <2>1. LpsOwner'
    BY <1>28 DEF Ps!ConfigBusy, Ps!NicOn, Ps!Begin, Ps!Free, Ps!StackAt
  <2>2. StackOps'
    BY <1>28 DEF Ps!ConfigBusy, Ps!NicOn, Ps!Begin, Ps!Free, Ps!StackAt
  <2>3. ASSUME Calm' PROVE OffCalm'
    BY <1>28, <2>3 DEF Ps!ConfigBusy, Ps!NicOn, Ps!Begin, Ps!Free, Ps!StackAt
  <2>4. ASSUME Calm' PROVE StackTurnsOn'
    BY <1>28, <2>4 DEF Ps!ConfigBusy, Ps!NicOn, Ps!Begin, Ps!Free, Ps!StackAt
  <2>5. ASSUME Calm' PROVE PsCalm'
    BY <1>28, <2>5 DEF Ps!ConfigBusy, Ps!NicOn, Ps!Begin, Ps!Free, Ps!StackAt
  <2>6. ASSUME Calm' PROVE AssocFlag'
    BY <1>28, <2>6 DEF Ps!ConfigBusy, Ps!NicOn, Ps!Begin, Ps!Free, Ps!StackAt
  <2> QED BY <1>0, <2>1, <2>2, <2>3, <2>4, <2>5, <2>6
<1>29. CASE Ps!TxAuth
  <2>1. LpsOwner'
    BY <1>29 DEF Ps!TxAuth, Ps!NicOn, Ps!Begin, Ps!Free, Ps!StackAt
  <2>2. StackOps'
    BY <1>29 DEF Ps!TxAuth, Ps!NicOn, Ps!Begin, Ps!Free, Ps!StackAt
  <2>3. ASSUME Calm' PROVE OffCalm'
    BY <1>29, <2>3 DEF Ps!TxAuth, Ps!NicOn, Ps!Begin, Ps!Free, Ps!StackAt
  <2>4. ASSUME Calm' PROVE StackTurnsOn'
    BY <1>29, <2>4 DEF Ps!TxAuth, Ps!NicOn, Ps!Begin, Ps!Free, Ps!StackAt
  <2>5. ASSUME Calm' PROVE PsCalm'
    BY <1>29, <2>5 DEF Ps!TxAuth, Ps!NicOn, Ps!Begin, Ps!Free, Ps!StackAt
  <2>6. ASSUME Calm' PROVE AssocFlag'
    BY <1>29, <2>6 DEF Ps!TxAuth, Ps!NicOn, Ps!Begin, Ps!Free, Ps!StackAt
  <2> QED BY <1>0, <2>1, <2>2, <2>3, <2>4, <2>5, <2>6
<1>30. CASE Ps!AuthFails
  BY <1>0, <1>30 DEF Ps!AuthFails, Ps!Free, Ps!StackAt, Ps!NoRadio
<1>31. CASE Ps!Assoc
  BY <1>0, <1>31 DEF Ps!Assoc, Ps!Free, Ps!StackAt, Ps!NoRadio
<1>32. CASE Ps!Unassoc
  BY <1>0, <1>32 DEF Ps!Unassoc, Ps!Free, Ps!StackAt, Ps!NoRadio
<1>33. CASE Ps!ScanSkipped
  BY <1>0, <1>33 DEF Ps!ScanSkipped, Ps!Free, Ps!StackAt, Ps!NoRadio
<1>34. CASE Ps!ScanStart
  <2>1. LpsOwner'
    BY <1>34 DEF Ps!ScanStart, Ps!NicOn, Ps!Begin, Ps!Free, Ps!StackAt
  <2>2. StackOps'
    BY <1>34 DEF Ps!ScanStart, Ps!NicOn, Ps!Begin, Ps!Free, Ps!StackAt
  <2>3. ASSUME Calm' PROVE OffCalm'
    BY <1>34, <2>3 DEF Ps!ScanStart, Ps!NicOn, Ps!Begin, Ps!Free, Ps!StackAt
  <2>4. ASSUME Calm' PROVE StackTurnsOn'
    BY <1>34, <2>4 DEF Ps!ScanStart, Ps!NicOn, Ps!Begin, Ps!Free, Ps!StackAt
  <2>5. ASSUME Calm' PROVE PsCalm'
    BY <1>34, <2>5 DEF Ps!ScanStart, Ps!NicOn, Ps!Begin, Ps!Free, Ps!StackAt
  <2>6. ASSUME Calm' PROVE AssocFlag'
    BY <1>34, <2>6 DEF Ps!ScanStart, Ps!NicOn, Ps!Begin, Ps!Free, Ps!StackAt
  <2> QED BY <1>0, <2>1, <2>2, <2>3, <2>4, <2>5, <2>6
<1>35. CASE Ps!ScanComplete
  BY <1>0, <1>35 DEF Ps!ScanComplete, Ps!Free, Ps!StackAt, Ps!NoRadio
<1>36. CASE Ps!SetKey
  <2>1. LpsOwner'
    BY <1>36 DEF Ps!SetKey, Ps!NicOn, Ps!Begin, Ps!Free, Ps!StackAt
  <2>2. StackOps'
    BY <1>36 DEF Ps!SetKey, Ps!NicOn, Ps!Begin, Ps!Free, Ps!StackAt
  <2>3. ASSUME Calm' PROVE OffCalm'
    BY <1>36, <2>3 DEF Ps!SetKey, Ps!NicOn, Ps!Begin, Ps!Free, Ps!StackAt
  <2>4. ASSUME Calm' PROVE StackTurnsOn'
    BY <1>36, <2>4 DEF Ps!SetKey, Ps!NicOn, Ps!Begin, Ps!Free, Ps!StackAt
  <2>5. ASSUME Calm' PROVE PsCalm'
    BY <1>36, <2>5 DEF Ps!SetKey, Ps!NicOn, Ps!Begin, Ps!Free, Ps!StackAt
  <2>6. ASSUME Calm' PROVE AssocFlag'
    BY <1>36, <2>6 DEF Ps!SetKey, Ps!NicOn, Ps!Begin, Ps!Free, Ps!StackAt
  <2> QED BY <1>0, <2>1, <2>2, <2>3, <2>4, <2>5, <2>6
<1>37. CASE Ps!RemoveInterface
  BY <1>0, <1>37 DEF Ps!RemoveInterface, Ps!Free, Ps!StackAt, Ps!NoRadio
<1>38. CASE Ps!Config
  <2>1. LpsOwner'
    BY <1>38
      DEF Ps!Config, Ps!NicOnIfOff, Ps!NicOn, Ps!Begin, Ps!Free, Ps!StackAt,
        Ps!NoRadio
  <2>2. StackOps'
    BY <1>38
      DEF Ps!Config, Ps!NicOnIfOff, Ps!NicOn, Ps!Begin, Ps!Free, Ps!StackAt,
        Ps!NoRadio
  <2>3. ASSUME Calm' PROVE OffCalm'
    BY <1>38, <2>3
      DEF Ps!Config, Ps!NicOnIfOff, Ps!NicOn, Ps!Begin, Ps!Free, Ps!StackAt,
        Ps!NoRadio
  <2>4. ASSUME Calm' PROVE StackTurnsOn'
    BY <1>38, <2>4
      DEF Ps!Config, Ps!NicOnIfOff, Ps!NicOn, Ps!Begin, Ps!Free, Ps!StackAt,
        Ps!NoRadio
  <2>5. ASSUME Calm' PROVE PsCalm'
    BY <1>38, <2>5
      DEF Ps!Config, Ps!NicOnIfOff, Ps!NicOn, Ps!Begin, Ps!Free, Ps!StackAt,
        Ps!NoRadio
  <2>6. ASSUME Calm' PROVE AssocFlag'
    BY <1>38, <2>6
      DEF Ps!Config, Ps!NicOnIfOff, Ps!NicOn, Ps!Begin, Ps!Free, Ps!StackAt,
        Ps!NoRadio
  <2> QED BY <1>0, <2>1, <2>2, <2>3, <2>4, <2>5, <2>6
<1>39. CASE Ps!ConfigPs
  <2>1. LpsOwner'
    BY <1>39
      DEF Ps!ConfigPs, Ps!NicOnIfOff, Ps!NicOn, Ps!Begin, Ps!Free, Ps!StackAt,
        Ps!NoRadio
  <2>2. StackOps'
    BY <1>39
      DEF Ps!ConfigPs, Ps!NicOnIfOff, Ps!NicOn, Ps!Begin, Ps!Free, Ps!StackAt,
        Ps!NoRadio
  <2>3. ASSUME Calm' PROVE OffCalm'
    BY <1>39, <2>3
      DEF Ps!ConfigPs, Ps!NicOnIfOff, Ps!NicOn, Ps!Begin, Ps!Free, Ps!StackAt,
        Ps!NoRadio
  <2>4. ASSUME Calm' PROVE StackTurnsOn'
    BY <1>39, <2>4
      DEF Ps!ConfigPs, Ps!NicOnIfOff, Ps!NicOn, Ps!Begin, Ps!Free, Ps!StackAt,
        Ps!NoRadio
  <2>5. ASSUME Calm' PROVE PsCalm'
    BY <1>39, <2>5
      DEF Ps!ConfigPs, Ps!NicOnIfOff, Ps!NicOn, Ps!Begin, Ps!Free, Ps!StackAt,
        Ps!NoRadio
  <2>6. ASSUME Calm' PROVE AssocFlag'
    BY <1>39, <2>6
      DEF Ps!ConfigPs, Ps!NicOnIfOff, Ps!NicOn, Ps!Begin, Ps!Free, Ps!StackAt,
        Ps!NoRadio
  <2> QED BY <1>0, <2>1, <2>2, <2>3, <2>4, <2>5, <2>6
<1>40. CASE Ps!OpStop
  <2>1. LpsOwner'
    BY <1>40
      DEF Ps!OpStop, Ps!NicOnIfOff, Ps!NicOn, Ps!Begin, Ps!Free, Ps!StackAt,
        Ps!NoRadio
  <2>2. StackOps'
    BY <1>40
      DEF Ps!OpStop, Ps!NicOnIfOff, Ps!NicOn, Ps!Begin, Ps!Free, Ps!StackAt,
        Ps!NoRadio
  <2>3. ASSUME Calm' PROVE OffCalm'
    BY <1>40, <2>3
      DEF Ps!OpStop, Ps!NicOnIfOff, Ps!NicOn, Ps!Begin, Ps!Free, Ps!StackAt,
        Ps!NoRadio
  <2>4. ASSUME Calm' PROVE StackTurnsOn'
    BY <1>40, <2>4
      DEF Ps!OpStop, Ps!NicOnIfOff, Ps!NicOn, Ps!Begin, Ps!Free, Ps!StackAt,
        Ps!NoRadio
  <2>5. ASSUME Calm' PROVE PsCalm'
    BY <1>40, <2>5
      DEF Ps!OpStop, Ps!NicOnIfOff, Ps!NicOn, Ps!Begin, Ps!Free, Ps!StackAt,
        Ps!NoRadio
  <2>6. ASSUME Calm' PROVE AssocFlag'
    BY <1>40, <2>6
      DEF Ps!OpStop, Ps!NicOnIfOff, Ps!NicOn, Ps!Begin, Ps!Free, Ps!StackAt,
        Ps!NoRadio
  <2> QED BY <1>0, <2>1, <2>2, <2>3, <2>4, <2>5, <2>6
<1>41. CASE Ps!Beacon
  BY <1>0, <1>41 DEF Ps!Beacon, Ps!NoRadio
<1>42. CASE UNCHANGED Ps!vars
  BY <1>0, <1>42 DEF Ps!vars
<1> HIDE DEF KeepsInv
<1>s. ASSUME NEW t \in Ps!Threads, Ps!SetRfStep(t)
      PROVE  KeepsInv'
  BY <1>1, <1>2, <1>3, <1>4, <1>5, <1>6, <1>7, <1>s DEF Ps!SetRfStep
<1> QED
  BY <1>s, <1>8, <1>9, <1>10, <1>11, <1>12, <1>13, <1>14, <1>15, <1>16, <1>17,
      <1>18, <1>19, <1>20, <1>21, <1>22, <1>23, <1>24, <1>25, <1>26, <1>27,
      <1>28, <1>29, <1>30, <1>31, <1>32, <1>33, <1>34, <1>35, <1>36, <1>37,
      <1>38, <1>39, <1>40, <1>41, <1>42
    DEF Ps!Next, Ps!OffStep, Ps!PsStep, Ps!WakeStep, Ps!StackContinues,
      Ps!StackBegins

\* The invariant implies the property.
LEMMA KeepsImplies == KeepsInv => WorkKeepsRadio
BY DEF KeepsInv, Calm, StackTurnsOn, WorkKeepsRadio, StackAt, At,
    StackOps

\* Once the interface is not idle, each call of mac80211 returns with a radio
\* that is not off, unless one of the two races was seen.
THEOREM WorkAlwaysKeepsRadio == Ps!Spec => []WorkKeepsRadio
<1>1. Ps!Init => KeepsInv
  BY KeepsInit
<1>2. KeepsInv /\ [Ps!Next]_Ps!vars => KeepsInv'
  BY KeepsNext
<1> QED BY <1>1, <1>2, KeepsImplies, PTL DEF Ps!Spec
=============================================================================
