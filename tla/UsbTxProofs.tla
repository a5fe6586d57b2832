---------------------------- MODULE UsbTxProofs ----------------------------
(***************************************************************************)
(* Proofs about UsbTx for every number of contexts, frames and receive     *)
(* URBs and every window size that satisfy the module's assumptions: its   *)
(* safety properties, and that it implements TxWindow.                     *)
(***************************************************************************)
EXTENDS UsbTx, FiniteSetTheorems, TLAPS

\* The sets that the window counts are finite.
LEMMA FiniteCounts ==
  ASSUME TypeOK
  PROVE  /\ IsFiniteSet(tx_flight) /\ Cardinality(tx_flight) \in Nat
         /\ IsFiniteSet(Holding) /\ Cardinality(Holding) \in Nat
         /\ IsFiniteSet(Admitted) /\ Cardinality(Admitted) \in Nat
         /\ Cardinality(Admitted) <= Cardinality(Holding)
         /\ Cardinality(Ctx) \in Nat
<1>1. IsFiniteSet(tx_flight)
  BY FramesAssumption, FS_Subset DEF TypeOK
<1>2. Holding \in SUBSET Ctx
  BY DEF Holding
<1>3. IsFiniteSet(Holding)
  BY <1>2, CtxAssumption, FS_Subset
<1>4. Admitted \in SUBSET Holding
  BY DEF Holding, Admitted
<1>5. IsFiniteSet(Admitted) /\ Cardinality(Admitted) <= Cardinality(Holding)
  BY <1>3, <1>4, FS_Subset
<1>6. QED
  BY <1>1, <1>3, <1>5, CtxAssumption, FS_CardinalityType

\* Initially nothing is counted.
LEMMA InitIInv == Init => IInv
<1> SUFFICES ASSUME Init PROVE IInv
  OBVIOUS
<1>1. TypeOK
  BY FramesAssumption DEF Init, TypeOK, PCs
<1>2. Holding = {} /\ Admitted = {} /\ tx_flight = {}
  BY DEF Init, Holding, Admitted
<1>3. Accounting /\ WindowBound
  BY <1>2, FS_EmptySet, CtxAssumption DEF Init, Accounting, WindowBound
<1>4. OneOwner
  BY FramesAssumption DEF Init, OneOwner, Queued, InHand
<1>5. HandsMatch
  BY FramesAssumption DEF Init, HandsMatch
<1>6. NoStall /\ RxPoolIntact
  BY DEF Init, NoStall, RxPoolIntact
<1>7. QED
  BY <1>1, <1>3, <1>4, <1>5, <1>6 DEF IInv

\* Taking the oldest frame off the queue shifts the others by one place.
LEMMA QueueHead ==
  ASSUME NEW q \in Seq(Frames), q # << >>
  PROVE  /\ Head(q) = q[1] /\ Head(q) \in Frames /\ 1 \in 1..Len(q)
         /\ Tail(q) \in Seq(Frames) /\ Len(Tail(q)) = Len(q) - 1
         /\ \A i \in 1..Len(Tail(q)) : Tail(q)[i] = q[i + 1] /\ i + 1 \in 1..Len(q)
         /\ Len(q) \in Nat
  OBVIOUS

\* Appending a frame leaves the older ones in place.
LEMMA QueueAppend ==
  ASSUME NEW q \in Seq(Frames), NEW f \in Frames
  PROVE  /\ Append(q, f) \in Seq(Frames) /\ Len(Append(q, f)) = Len(q) + 1
         /\ \A i \in 1..Len(q) : Append(q, f)[i] = q[i]
         /\ Append(q, f)[Len(q) + 1] = f
         /\ Len(q) \in Nat
  OBVIOUS

\* What a USB status can do to the device state: leave it or kill it.
LEMMA StatusStep ==
  ASSUME TypeOK, NEW err \in BOOLEAN
  PROVE  /\ AfterUsbStatus(err) \in {state, "dead"}
         /\ AfterUsbStatus(err) \in {"alive", "dead", "unload"}
  BY DEF AfterUsbStatus, TypeOK

\* Every status the model offers is a Boolean.
LEMMA StatusesBoolean == Statuses \subseteq BOOLEAN
  BY DEF Statuses

\* The counters of the window depend on pc and tx_flight only.
LEMMA CountsUnchanged ==
  ASSUME Accounting, WindowBound, UNCHANGED <<pc, tx_flight, tx_pending>>
  PROVE  Accounting' /\ WindowBound'
  BY DEF Accounting, WindowBound, Holding, Admitted

\* Ownership depends on these four variables and the queue only.
LEMMA OwnersUnchanged ==
  ASSUME OneOwner, UNCHANGED <<skb, fresh, freed, tx_flight, tx_wait>>
  PROVE  OneOwner'
  BY DEF OneOwner, Queued, InHand

\* A context frees the frame it has in hand: the frame's only owner lets go.
LEMMA HandFreed ==
  ASSUME IInv, NEW c \in Ctx, skb[c] \in Frames,
         freed' = [freed EXCEPT ![skb[c]] = @ + 1],
         skb' = [skb EXCEPT ![c] = NoFrame],
         UNCHANGED <<tx_wait, tx_flight, fresh>>
  PROVE  OneOwner'
<1> USE FramesAssumption DEF IInv
<1>1. InHand(skb[c]) /\ freed[skb[c]] = 0
  BY DEF InHand, OneOwner
<1>2. \A f : Queued(f)' <=> Queued(f)
  BY DEF Queued
<1>3. \A f \in Frames : InHand(f)' <=> InHand(f) /\ f # skb[c]
  BY DEF InHand, OneOwner, TypeOK
<1>4. \A a, b \in Ctx : skb'[a] = skb'[b] /\ skb'[a] # NoFrame => a = b
  BY DEF OneOwner, TypeOK
<1>5. /\ freed'[skb[c]] = 1
      /\ \A f \in Frames : f # skb[c] => freed'[f] = freed[f]
  BY <1>1 DEF TypeOK
<1>6. QED
  BY <1>1, <1>2, <1>3, <1>4, <1>5 DEF OneOwner

\* The type invariant is inductive with the help of HandsMatch.
LEMMA TypeStep ==
  ASSUME IInv, [Next]_vars
  PROVE  TypeOK'
<1> USE FramesAssumption DEF IInv
<1>1. CASE UNCHANGED vars
  BY <1>1 DEF vars, txvars, TypeOK
<1>2. ASSUME NEW c \in Senders, NEW f \in Frames, UsbTxEnter(c, f)
      PROVE  TypeOK'
  BY <1>2 DEF UsbTxEnter, TypeOK, PCs, Ctx
<1>3. ASSUME NEW c \in Giveback, NEW f \in Frames, TxCbEnter(c, f)
      PROVE  TypeOK'
  <2>1. tx_pending - 1 \in Nat
    <3>1. Cardinality(tx_flight) \in Nat /\ Cardinality(Holding) \in Nat
      BY FiniteCounts
    <3>2. Cardinality(tx_flight) # 0
      BY <1>3, FiniteCounts, FS_EmptySet DEF TxCbEnter
    <3>3. QED
      BY <3>1, <3>2 DEF Accounting
  <2>2. QED
    BY <1>3, <2>1 DEF TxCbEnter, TypeOK, PCs, Ctx
<1>4. ASSUME NEW c \in Ctx, Schedule(c)
      PROVE  TypeOK'
  <2>1. CASE UsbTxAnchor(c)
    <3>1. skb[c] \in Frames
      BY <2>1 DEF UsbTxAnchor, HandsMatch
    <3>2. QED
      BY <2>1, <3>1 DEF UsbTxAnchor, TypeOK, PCs
  <2>2. CASE ScheduleInc(c)
    BY <2>2 DEF ScheduleInc, TypeOK, PCs
  <2>3. CASE ScheduleGet(c)
    <3>1. CASE tx_wait = << >>
      BY <2>3, <3>1 DEF ScheduleGet, TypeOK, PCs
    <3>2. CASE tx_wait # << >>
      BY <2>3, <3>2, QueueHead DEF ScheduleGet, TypeOK, PCs
    <3>3. QED
      BY <3>1, <3>2
  <2>4. CASE ScheduleSubmit(c)
    BY <2>4 DEF ScheduleSubmit, TypeOK, PCs, HandsMatch
  <2>5. CASE ScheduleSubmitError(c)
    BY <2>5 DEF ScheduleSubmitError, TypeOK, PCs, HandsMatch
  <2>6. CASE ScheduleDec(c)
    <3>1. tx_pending - 1 \in Nat
      <4>1. c \in Holding
        BY <2>6 DEF ScheduleDec, Holding
      <4>2. Cardinality(Holding) # 0
        BY <4>1, FiniteCounts, FS_EmptySet
      <4>3. QED
        BY <4>2, FiniteCounts DEF Accounting
    <3>2. QED
      BY <2>6, <3>1 DEF ScheduleDec, TypeOK, PCs
  <2>7. CASE TxCbFree(c)
    <3>1. state' \in {"alive", "dead", "unload"}
      BY <2>7, StatusStep, StatusesBoolean DEF TxCbFree
    <3>2. QED
      BY <2>7, <3>1 DEF TxCbFree, TypeOK, PCs, HandsMatch
  <2>8. QED
    BY <1>4, <2>1, <2>2, <2>3, <2>4, <2>5, <2>6, <2>7 DEF Schedule
<1>5. ASSUME NEW u \in RxUrbs, RxCb(u) \/ RxResubmit(u) \/ RxResubmitError(u)
      PROVE  TypeOK'
  <2>1. CASE RxCb(u)
    <3>1. state' \in {"alive", "dead", "unload"}
      BY <2>1, StatusStep, StatusesBoolean DEF RxCb
    <3>2. rx' \in [RxUrbs -> {"flight", "resubmit", "gone"}]
      BY <2>1 DEF RxCb, TypeOK
    <3>3. QED
      BY <2>1, <3>1, <3>2 DEF RxCb, TypeOK, txvars
  <2>2. CASE RxResubmit(u)
    BY <2>2 DEF RxResubmit, TypeOK, txvars
  <2>3. CASE RxResubmitError(u)
    BY <2>3 DEF RxResubmitError, TypeOK, txvars
  <2>4. QED
    BY <1>5, <2>1, <2>2, <2>3
<1>6. CASE Unbind \/ SetUnload \/ Unregistered \/ Poison
  BY <1>6 DEF Unbind, SetUnload, Unregistered, Poison, TypeOK, txvars
<1>7. CASE Drain
  BY <1>7 DEF Drain, TypeOK
<1>8. QED
  BY <1>1, <1>2, <1>3, <1>4, <1>5, <1>6, <1>7
     DEF Next, Disconnect, Finished

\* Program counters and frames in hand keep matching.
LEMMA HandsStep ==
  ASSUME IInv, [Next]_vars
  PROVE  HandsMatch'
<1> USE FramesAssumption DEF IInv
<1>1. CASE UNCHANGED vars
  BY <1>1 DEF vars, txvars, HandsMatch
<1>2. ASSUME NEW c \in Senders, NEW f \in Frames, UsbTxEnter(c, f)
      PROVE  HandsMatch'
  BY <1>2, CtxAssumption DEF UsbTxEnter, HandsMatch, TypeOK, Ctx
<1>3. ASSUME NEW c \in Giveback, NEW f \in Frames, TxCbEnter(c, f)
      PROVE  HandsMatch'
  BY <1>3, CtxAssumption DEF TxCbEnter, HandsMatch, TypeOK, Ctx
<1>4. ASSUME NEW c \in Ctx, Schedule(c)
      PROVE  HandsMatch'
  <2>1. CASE UsbTxAnchor(c)
    BY <2>1 DEF UsbTxAnchor, HandsMatch, TypeOK, Ctx
  <2>2. CASE ScheduleInc(c)
    BY <2>2 DEF ScheduleInc, HandsMatch, TypeOK, Ctx
  <2>3. CASE ScheduleGet(c)
    <3>1. CASE tx_wait = << >>
      BY <2>3, <3>1 DEF ScheduleGet, HandsMatch, TypeOK, Ctx
    <3>2. CASE tx_wait # << >>
      <4>1. Head(tx_wait) \in Frames
        BY <3>2, QueueHead DEF TypeOK
      <4>2. QED
        BY <2>3, <3>2, <4>1 DEF ScheduleGet, HandsMatch, TypeOK, Ctx
    <3>3. QED
      BY <3>1, <3>2
  <2>4. CASE ScheduleSubmit(c)
    BY <2>4 DEF ScheduleSubmit, HandsMatch, TypeOK, Ctx, poisoned
  <2>5. CASE ScheduleSubmitError(c)
    BY <2>5 DEF ScheduleSubmitError, HandsMatch, TypeOK, Ctx
  <2>6. CASE ScheduleDec(c)
    BY <2>6 DEF ScheduleDec, HandsMatch, TypeOK, Ctx
  <2>7. CASE TxCbFree(c)
    BY <2>7 DEF TxCbFree, HandsMatch, TypeOK, Ctx
  <2>8. QED
    BY <1>4, <2>1, <2>2, <2>3, <2>4, <2>5, <2>6, <2>7 DEF Schedule
<1>5. ASSUME NEW u \in RxUrbs, RxCb(u) \/ RxResubmit(u) \/ RxResubmitError(u)
      PROVE  HandsMatch'
  BY <1>5 DEF RxCb, RxResubmit, RxResubmitError, HandsMatch, txvars
<1>6. CASE Unbind \/ SetUnload \/ Unregistered \/ Poison
  BY <1>6 DEF Unbind, SetUnload, Unregistered, Poison, HandsMatch, txvars
<1>7. CASE Drain
  BY <1>7 DEF Drain, HandsMatch
<1>8. QED
  BY <1>1, <1>2, <1>3, <1>4, <1>5, <1>6, <1>7
     DEF Next, Disconnect, Finished

\* Every frame keeps exactly one owner.
LEMMA OwnerStep ==
  ASSUME IInv, [Next]_vars
  PROVE  OneOwner'
<1> USE FramesAssumption DEF IInv
<1>1. CASE UNCHANGED vars
  BY <1>1, OwnersUnchanged DEF vars, txvars
<1>2. ASSUME NEW c \in Senders, NEW f \in Frames, UsbTxEnter(c, f)
      PROVE  OneOwner'
  <2>0. /\ c \in Ctx /\ f \in fresh /\ fresh' = fresh \ {f}
        /\ UNCHANGED <<tx_wait, tx_flight>> /\ freed[f] = 0 /\ ~InHand(f)
    BY <1>2 DEF UsbTxEnter, Ctx, OneOwner
  <2>1. \A g : Queued(g)' <=> Queued(g)
    BY <2>0 DEF Queued
  <2>2. CASE skb' = [skb EXCEPT ![c] = f] /\ UNCHANGED freed
    <3>1. skb[c] \notin Frames
      BY <1>2, <2>0 DEF UsbTxEnter, HandsMatch
    <3>2. \A g \in Frames : InHand(g)' <=> InHand(g) \/ g = f
      BY <2>0, <2>2, <3>1 DEF InHand, TypeOK
    <3>3. \A a, b \in Ctx : skb'[a] = skb'[b] /\ skb'[a] # NoFrame => a = b
      BY <2>0, <2>2 DEF OneOwner, InHand, TypeOK
    <3>4. QED
      BY <2>0, <2>1, <2>2, <3>2, <3>3 DEF OneOwner
  <2>3. CASE freed' = [freed EXCEPT ![f] = @ + 1] /\ UNCHANGED skb
    <3>1. \A g : InHand(g)' <=> InHand(g)
      BY <2>3 DEF InHand
    <3>2. freed'[f] = 1 /\ \A g \in Frames : g # f => freed'[g] = freed[g]
      BY <2>0, <2>3 DEF TypeOK
    <3>3. QED
      BY <2>0, <2>1, <2>3, <3>1, <3>2 DEF OneOwner
  <2>4. QED
    BY <1>2, <2>2, <2>3 DEF UsbTxEnter
<1>3. ASSUME NEW c \in Giveback, NEW f \in Frames, TxCbEnter(c, f)
      PROVE  OneOwner'
  BY <1>3 DEF TxCbEnter, OneOwner, Queued, InHand, HandsMatch, TypeOK, Ctx
<1>4. ASSUME NEW c \in Ctx, Schedule(c)
      PROVE  OneOwner'
  <2>1. CASE UsbTxAnchor(c)
    <3>1. skb[c] \in Frames
      BY <2>1 DEF UsbTxAnchor, HandsMatch
    <3>2. tx_wait \in Seq(Frames) /\ ~Queued(skb[c])
      BY <3>1 DEF OneOwner, InHand, TypeOK
    <3>3. \A f : Queued(f)' <=> Queued(f) \/ f = skb[c]
      BY <2>1, <3>1, <3>2, QueueAppend DEF UsbTxAnchor, Queued
    <3>4. \A i, j \in 1..Len(tx_wait') : tx_wait'[i] = tx_wait'[j] => i = j
      BY <2>1, <3>1, <3>2, QueueAppend DEF UsbTxAnchor, Queued, OneOwner
    <3>5. \A f \in Frames : InHand(f)' <=> InHand(f) /\ f # skb[c]
      BY <2>1, <3>1 DEF UsbTxAnchor, InHand, OneOwner, TypeOK
    <3>6. \A a, b \in Ctx : skb'[a] = skb'[b] /\ skb'[a] # NoFrame => a = b
      BY <2>1 DEF UsbTxAnchor, OneOwner, TypeOK
    <3>7. InHand(skb[c])
      BY DEF InHand
    <3>8. QED
      BY <2>1, <3>1, <3>2, <3>3, <3>4, <3>5, <3>6, <3>7
         DEF UsbTxAnchor, OneOwner
  <2>2. CASE ScheduleInc(c)
    BY <2>2, OwnersUnchanged DEF ScheduleInc
  <2>3. CASE ScheduleGet(c)
    <3>1. CASE tx_wait = << >>
      BY <2>3, <3>1, OwnersUnchanged DEF ScheduleGet
    <3>2. CASE tx_wait # << >>
      <4> DEFINE h == Head(tx_wait)
      <4>1. tx_wait \in Seq(Frames) /\ h \in Frames /\ h = tx_wait[1] /\ Queued(h)
        BY <3>2, QueueHead DEF TypeOK, Queued
      <4>2. tx_wait' = Tail(tx_wait) /\ skb' = [skb EXCEPT ![c] = h]
        BY <2>3, <3>2 DEF ScheduleGet
      <4>3. skb[c] \notin Frames
        BY <2>3 DEF ScheduleGet, HandsMatch
      <4>4. \A i, j \in 1..Len(tx_wait') : tx_wait'[i] = tx_wait'[j] => i = j
        BY <3>2, <4>1, <4>2, QueueHead DEF OneOwner
      <4>5. \A f \in Frames : Queued(f)' <=> Queued(f) /\ f # h
        <5>1. ASSUME NEW f \in Frames, Queued(f), f # h PROVE Queued(f)'
          <6>1. PICK i \in 1..Len(tx_wait) : tx_wait[i] = f
            BY <5>1 DEF Queued
          <6>2. i # 1
            BY <5>1, <6>1, <4>1
          <6>3. i - 1 \in 1..Len(Tail(tx_wait)) /\ Tail(tx_wait)[i - 1] = f
            BY <6>1, <6>2, <3>2, <4>1, QueueHead
          <6>4. QED
            BY <6>3, <4>2 DEF Queued
        <5>2. ASSUME NEW f \in Frames, Queued(f)' PROVE Queued(f) /\ f # h
          <6>1. PICK i \in 1..Len(Tail(tx_wait)) : Tail(tx_wait)[i] = f
            BY <5>2, <4>2 DEF Queued
          <6>2. i + 1 \in 1..Len(tx_wait) /\ tx_wait[i + 1] = f /\ i + 1 # 1
            BY <6>1, <3>2, <4>1, QueueHead
          <6>3. QED
            BY <6>2, <4>1, <3>2, QueueHead DEF Queued, OneOwner
        <5>3. QED
          BY <5>1, <5>2
      <4>6. \A f \in Frames : InHand(f)' <=> InHand(f) \/ f = h
        BY <4>1, <4>2, <4>3 DEF InHand, TypeOK
      <4>7. \A a, b \in Ctx : skb'[a] = skb'[b] /\ skb'[a] # NoFrame => a = b
        BY <4>1, <4>2 DEF OneOwner, InHand, TypeOK
      <4>8. QED
        BY <2>3, <4>1, <4>4, <4>5, <4>6, <4>7 DEF ScheduleGet, OneOwner
    <3>3. QED
      BY <3>1, <3>2
  <2>4. CASE ScheduleSubmit(c)
    BY <2>4 DEF ScheduleSubmit, OneOwner, Queued, InHand, HandsMatch, TypeOK
  <2>5. CASE ScheduleSubmitError(c)
    BY <2>5, HandFreed DEF ScheduleSubmitError, HandsMatch
  <2>6. CASE ScheduleDec(c)
    BY <2>6, OwnersUnchanged DEF ScheduleDec
  <2>7. CASE TxCbFree(c)
    BY <2>7, HandFreed DEF TxCbFree, HandsMatch
  <2>8. QED
    BY <1>4, <2>1, <2>2, <2>3, <2>4, <2>5, <2>6, <2>7 DEF Schedule
<1>5. ASSUME NEW u \in RxUrbs, RxCb(u) \/ RxResubmit(u) \/ RxResubmitError(u)
      PROVE  OneOwner'
  BY <1>5, OwnersUnchanged DEF RxCb, RxResubmit, RxResubmitError, txvars
<1>6. CASE Unbind \/ SetUnload \/ Unregistered \/ Poison
  BY <1>6, OwnersUnchanged DEF Unbind, SetUnload, Unregistered, Poison, txvars
<1>7. CASE Drain
  <2>1. \A f : ~Queued(f)'
    BY <1>7 DEF Drain, Queued
  <2>2. \A f : InHand(f)' <=> InHand(f)
    BY <1>7 DEF Drain, InHand
  <2>3. QED
    BY <1>7, <2>1, <2>2 DEF Drain, OneOwner, TypeOK
<1>8. QED
  BY <1>1, <1>2, <1>3, <1>4, <1>5, <1>6, <1>7
     DEF Next, Disconnect, Finished

\* A context that takes a slot is counted once more.
LEMMA SlotTaken ==
  ASSUME IInv, NEW c \in Ctx, ScheduleInc(c)
  PROVE  /\ Cardinality(Holding') = Cardinality(Holding) + 1
         /\ pc'[c] = "get" => Cardinality(Admitted') = Cardinality(Admitted) + 1
         /\ pc'[c] = "dec" => Admitted' = Admitted
<1>1. Holding' = Holding \cup {c} /\ c \notin Holding
  BY DEF ScheduleInc, Holding, IInv, TypeOK
<1>2. pc'[c] = "get" => Admitted' = Admitted \cup {c} /\ c \notin Admitted
  BY DEF ScheduleInc, Admitted, IInv, TypeOK
<1>3. pc'[c] = "dec" => Admitted' = Admitted
  BY DEF ScheduleInc, Admitted, IInv, TypeOK
<1>4. QED
  BY <1>1, <1>2, <1>3, FiniteCounts, FS_AddElement DEF IInv

\* The counters stay exact and the window stays within its limit.
LEMMA CountStep ==
  ASSUME IInv, [Next]_vars
  PROVE  Accounting' /\ WindowBound'
<1> USE DEF IInv
<1>0. /\ IsFiniteSet(tx_flight) /\ Cardinality(tx_flight) \in Nat
      /\ IsFiniteSet(Holding) /\ Cardinality(Holding) \in Nat
      /\ IsFiniteSet(Admitted) /\ Cardinality(Admitted) \in Nat
      /\ Cardinality(Admitted) <= Cardinality(Holding)
      /\ MaxTxUrbs \in Nat /\ tx_pending \in Nat
  BY FiniteCounts, CtxAssumption DEF TypeOK
<1>1. CASE UNCHANGED vars
  BY <1>1, CountsUnchanged DEF vars, txvars
<1>2. ASSUME NEW c \in Senders, NEW f \in Frames, UsbTxEnter(c, f)
      PROVE  Accounting' /\ WindowBound'
  <2>1. Holding' = Holding /\ Admitted' = Admitted
    BY <1>2 DEF UsbTxEnter, Holding, Admitted, TypeOK, Ctx
  <2>2. QED
    BY <1>2, <2>1 DEF UsbTxEnter, Accounting, WindowBound
<1>3. ASSUME NEW c \in Giveback, NEW f \in Frames, TxCbEnter(c, f)
      PROVE  Accounting' /\ WindowBound'
  <2>1. Holding' = Holding /\ Admitted' = Admitted
    BY <1>3 DEF TxCbEnter, Holding, Admitted, TypeOK, Ctx
  <2>2. Cardinality(tx_flight') = Cardinality(tx_flight) - 1
    BY <1>3, <1>0, FS_RemoveElement DEF TxCbEnter
  <2>3. QED
    BY <1>0, <1>3, <2>1, <2>2 DEF TxCbEnter, Accounting, WindowBound
<1>4. ASSUME NEW c \in Ctx, Schedule(c)
      PROVE  Accounting' /\ WindowBound'
  <2>1. CASE UsbTxAnchor(c)
    <3>1. Holding' = Holding /\ Admitted' = Admitted
      BY <2>1 DEF UsbTxAnchor, Holding, Admitted, TypeOK
    <3>2. QED
      BY <2>1, <3>1 DEF UsbTxAnchor, Accounting, WindowBound
  <2>2. CASE ScheduleInc(c)
    <3>1. CASE tx_pending + 1 > MaxTxUrbs
      <4>1. pc'[c] = "dec" /\ tx_pending' = tx_pending + 1 /\ UNCHANGED tx_flight
        BY <2>2, <3>1 DEF ScheduleInc, TypeOK
      <4>2. QED
        BY <1>0, <2>2, <4>1, SlotTaken DEF Accounting, WindowBound
    <3>2. CASE ~(tx_pending + 1 > MaxTxUrbs)
      <4>1. pc'[c] = "get" /\ tx_pending' = tx_pending + 1 /\ UNCHANGED tx_flight
        BY <2>2, <3>2 DEF ScheduleInc, TypeOK
      <4>2. QED
        BY <1>0, <2>2, <3>2, <4>1, SlotTaken DEF Accounting, WindowBound
    <3>3. QED
      BY <3>1, <3>2
  <2>3. CASE ScheduleGet(c)
    <3>1. Holding' = Holding /\ UNCHANGED <<tx_flight, tx_pending>>
      BY <2>3 DEF ScheduleGet, Holding, TypeOK
    <3>2. Admitted' \in SUBSET Admitted
      BY <2>3 DEF ScheduleGet, Admitted, TypeOK
    <3>3. Cardinality(Admitted') <= Cardinality(Admitted)
          /\ Cardinality(Admitted') \in Nat
      BY <1>0, <3>2, FS_Subset, FS_CardinalityType
    <3>4. QED
      BY <1>0, <3>1, <3>3 DEF Accounting, WindowBound
  <2>4. CASE ScheduleSubmit(c)
    <3>1. Holding' = Holding \ {c} /\ c \in Holding
      BY <2>4 DEF ScheduleSubmit, Holding, TypeOK
    <3>2. Admitted' = Admitted \ {c} /\ c \in Admitted
      BY <2>4 DEF ScheduleSubmit, Admitted, TypeOK
    <3>3. skb[c] \in Frames /\ skb[c] \notin tx_flight
      BY <2>4 DEF ScheduleSubmit, HandsMatch, OneOwner, InHand
    <3>4. Cardinality(tx_flight') = Cardinality(tx_flight) + 1
      BY <1>0, <2>4, <3>3, FS_AddElement DEF ScheduleSubmit
    <3>5. /\ Cardinality(Holding') = Cardinality(Holding) - 1
          /\ Cardinality(Admitted') = Cardinality(Admitted) - 1
      BY <1>0, <3>1, <3>2, FS_RemoveElement
    <3>6. QED
      BY <1>0, <2>4, <3>4, <3>5 DEF ScheduleSubmit, Accounting, WindowBound
  <2>5. CASE ScheduleSubmitError(c)
    <3>1. Holding' = Holding /\ UNCHANGED <<tx_flight, tx_pending>>
      BY <2>5 DEF ScheduleSubmitError, Holding, TypeOK
    <3>2. Admitted' \in SUBSET Admitted
      BY <2>5 DEF ScheduleSubmitError, Admitted, TypeOK
    <3>3. Cardinality(Admitted') <= Cardinality(Admitted)
          /\ Cardinality(Admitted') \in Nat
      BY <1>0, <3>2, FS_Subset, FS_CardinalityType
    <3>4. QED
      BY <1>0, <3>1, <3>3 DEF Accounting, WindowBound
  <2>6. CASE ScheduleDec(c)
    <3>1. Holding' = Holding \ {c} /\ c \in Holding
      BY <2>6 DEF ScheduleDec, Holding, TypeOK
    <3>2. Admitted' = Admitted
      BY <2>6 DEF ScheduleDec, Admitted, TypeOK
    <3>3. Cardinality(Holding') = Cardinality(Holding) - 1
      BY <1>0, <3>1, FS_RemoveElement
    <3>4. QED
      BY <1>0, <2>6, <3>2, <3>3 DEF ScheduleDec, Accounting, WindowBound
  <2>7. CASE TxCbFree(c)
    <3>1. Holding' = Holding /\ Admitted' = Admitted
      BY <2>7 DEF TxCbFree, Holding, Admitted, TypeOK
    <3>2. QED
      BY <2>7, <3>1 DEF TxCbFree, Accounting, WindowBound
  <2>8. QED
    BY <1>4, <2>1, <2>2, <2>3, <2>4, <2>5, <2>6, <2>7 DEF Schedule
<1>5. ASSUME NEW u \in RxUrbs, RxCb(u) \/ RxResubmit(u) \/ RxResubmitError(u)
      PROVE  Accounting' /\ WindowBound'
  BY <1>5, CountsUnchanged DEF RxCb, RxResubmit, RxResubmitError, txvars
<1>6. CASE Disconnect
  BY <1>6, CountsUnchanged
     DEF Disconnect, Unbind, SetUnload, Unregistered, Poison, Drain, txvars
<1>7. QED
  BY <1>1, <1>2, <1>3, <1>4, <1>5, <1>6 DEF Next, Finished

\* A context turned away by the limit leaves somebody behind who will look at
\* the queue again: only if there were more contexts than slots could all the
\* slots be held by contexts that are about to give them back.
LEMMA RejectionIsSafe ==
  ASSUME IInv, NEW c \in Ctx, pc[c] = "inc", tx_pending + 1 > MaxTxUrbs
  PROVE  tx_flight # {} \/ \E d \in Ctx : d # c /\ pc[d] \in {"get", "submit"}
<1> SUFFICES ASSUME tx_flight = {},
                    \A d \in Ctx : d # c => pc[d] \notin {"get", "submit"}
             PROVE  FALSE
  OBVIOUS
<1>1. Holding \in SUBSET (Ctx \ {c})
  BY DEF Holding
<1>2. /\ IsFiniteSet(Ctx \ {c})
      /\ Cardinality(Ctx \ {c}) = Cardinality(Ctx) - 1
  BY CtxAssumption, FS_RemoveElement
<1>3. Cardinality(Holding) <= Cardinality(Ctx \ {c})
  BY <1>1, <1>2, FS_Subset
<1>4. Cardinality(tx_flight) = 0
  BY FS_EmptySet
<1>5. tx_pending = Cardinality(Holding) /\ Cardinality(Holding) \in Nat
  BY <1>4, FiniteCounts DEF IInv, Accounting
<1>6. QED
  BY <1>2, <1>3, <1>5, FiniteCounts, CtxAssumption DEF IInv

\* No step loses the last wake-up of a waiting frame.
LEMMA StallStep ==
  ASSUME IInv, [Next]_vars
  PROVE  NoStall'
<1> USE DEF IInv
<1>1. CASE UNCHANGED vars
  BY <1>1 DEF vars, txvars, NoStall
<1>2. ASSUME NEW c \in Senders, NEW f \in Frames, UsbTxEnter(c, f)
      PROVE  NoStall'
  BY <1>2 DEF UsbTxEnter, NoStall, TypeOK, Ctx
<1>3. ASSUME NEW c \in Giveback, NEW f \in Frames, TxCbEnter(c, f)
      PROVE  NoStall'
  BY <1>3 DEF TxCbEnter, NoStall, TypeOK, Ctx
<1>4. ASSUME NEW c \in Ctx, Schedule(c)
      PROVE  NoStall'
  <2>1. CASE UsbTxAnchor(c)
    BY <2>1 DEF UsbTxAnchor, NoStall, TypeOK
  <2>2. CASE ScheduleInc(c)
    <3>1. CASE tx_pending + 1 > MaxTxUrbs
      BY <2>2, <3>1, RejectionIsSafe DEF ScheduleInc, NoStall, TypeOK
    <3>2. CASE ~(tx_pending + 1 > MaxTxUrbs)
      BY <2>2, <3>2 DEF ScheduleInc, NoStall, TypeOK
    <3>3. QED
      BY <3>1, <3>2
  <2>3. CASE ScheduleGet(c)
    <3>1. CASE tx_wait = << >>
      BY <2>3, <3>1 DEF ScheduleGet, NoStall
    <3>2. CASE tx_wait # << >>
      BY <2>3, <3>2 DEF ScheduleGet, NoStall, TypeOK
    <3>3. QED
      BY <3>1, <3>2
  <2>4. CASE ScheduleSubmit(c)
    BY <2>4 DEF ScheduleSubmit, NoStall, TypeOK
  <2>5. CASE ScheduleSubmitError(c)
    BY <2>5 DEF ScheduleSubmitError, NoStall
  <2>6. CASE ScheduleDec(c)
    BY <2>6 DEF ScheduleDec, NoStall, TypeOK
  <2>7. CASE TxCbFree(c)
    BY <2>7 DEF TxCbFree, NoStall, TypeOK
  <2>8. QED
    BY <1>4, <2>1, <2>2, <2>3, <2>4, <2>5, <2>6, <2>7 DEF Schedule
<1>5. ASSUME NEW u \in RxUrbs, RxCb(u) \/ RxResubmit(u) \/ RxResubmitError(u)
      PROVE  NoStall'
  <2>1. state' = "alive" => state = "alive"
    BY <1>5, StatusStep, StatusesBoolean
       DEF RxCb, RxResubmit, RxResubmitError, TypeOK
  <2>2. QED
    BY <1>5, <2>1 DEF RxCb, RxResubmit, RxResubmitError, txvars, NoStall
<1>6. CASE Unbind \/ SetUnload \/ Unregistered \/ Poison
  BY <1>6 DEF Unbind, SetUnload, Unregistered, Poison, txvars, NoStall
<1>7. CASE Drain
  BY <1>7 DEF Drain, NoStall
<1>8. QED
  BY <1>1, <1>2, <1>3, <1>4, <1>5, <1>6, <1>7
     DEF Next, Disconnect, Finished

\* A receive URB is only given up together with the device.
LEMMA RxStep ==
  ASSUME IInv, [Next]_vars
  PROVE  RxPoolIntact'
<1> USE DEF IInv
<1>1. CASE UNCHANGED vars
  BY <1>1 DEF vars, RxPoolIntact
<1>2. ASSUME UNCHANGED rx, state' = "alive" => state = "alive"
      PROVE  RxPoolIntact'
  BY <1>2 DEF RxPoolIntact
<1>3. ASSUME NEW c \in Ctx, TxCbFree(c)
      PROVE  RxPoolIntact'
  <2>1. state' = "alive" => state = "alive"
    BY <1>3, StatusStep, StatusesBoolean DEF TxCbFree, TypeOK
  <2>2. QED
    BY <1>2, <1>3, <2>1 DEF TxCbFree
<1>4. ASSUME NEW u \in RxUrbs, RxCb(u) \/ RxResubmit(u) \/ RxResubmitError(u)
      PROVE  RxPoolIntact'
  <2>1. CASE RxCb(u)
    <3>1. PICK err \in Statuses :
            /\ state' = AfterUsbStatus(err)
            /\ rx' = [rx EXCEPT ![u] =
                        IF AfterUsbStatus(err) = "alive" THEN "resubmit"
                                                         ELSE "gone"]
      BY <2>1 DEF RxCb
    <3>2. state' = "alive" => state = "alive"
      BY <3>1, StatusStep, StatusesBoolean DEF TypeOK
    <3>3. QED
      BY <3>1, <3>2 DEF RxPoolIntact, TypeOK
  <2>2. CASE RxResubmit(u)
    BY <2>2 DEF RxResubmit, RxPoolIntact, TypeOK
  <2>3. CASE RxResubmitError(u)
    BY <2>3 DEF RxResubmitError, RxPoolIntact
  <2>4. QED
    BY <1>4, <2>1, <2>2, <2>3
<1>5. ASSUME NEW c \in Ctx, Schedule(c), ~TxCbFree(c)
      PROVE  RxPoolIntact'
  BY <1>2, <1>5 DEF Schedule, UsbTxAnchor, ScheduleInc, ScheduleGet,
                    ScheduleSubmit, ScheduleSubmitError, ScheduleDec
<1>6. ASSUME NEW c \in Ctx, NEW f \in Frames, UsbTxEnter(c, f) \/ TxCbEnter(c, f)
      PROVE  RxPoolIntact'
  BY <1>2, <1>6 DEF UsbTxEnter, TxCbEnter
<1>7. CASE Disconnect
  BY <1>2, <1>7 DEF Disconnect, Unbind, SetUnload, Unregistered, Poison, Drain
<1>8. QED
  BY <1>1, <1>3, <1>4, <1>5, <1>6, <1>7 DEF Next, Finished, Ctx

\* The inductive invariant holds in every behaviour.
LEMMA Inductive == Spec => []IInv
<1>1. IInv /\ [Next]_vars => IInv'
  BY TypeStep, HandsStep, OwnerStep, CountStep, StallStep, RxStep DEF IInv
<1>2. QED
  BY InitIInv, <1>1, PTL DEF Spec

\* Type correctness.
THEOREM TypeCorrect == Spec => []TypeOK
  BY Inductive, PTL DEF IInv

\* tx_pending_urbs counts exactly the slots in use, whatever the interleaving
\* of senders and completions.
THEOREM WindowAccounting == Spec => []Accounting
  BY Inductive, PTL DEF IInv

\* Never more than RTL_USB_MAX_TX_URBS_NUM URBs are in flight.
THEOREM WindowIsBounded == Spec => []WindowBound
  BY Inductive, PTL DEF IInv

\* With no more contexts than slots, no interleaving of r92su_usb_tx,
\* r92su_tx_schedule and r92su_tx_usb_cb strands a waiting frame.
THEOREM NoLostWakeup == Spec => []NoStall
  BY Inductive, PTL DEF IInv

\* No skb is freed twice, sent twice or lost on any path.
THEOREM SkbOwnership == Spec => []OneOwner
  BY Inductive, PTL DEF IInv

\* The receiver keeps all its URBs as long as the device is believed alive.
THEOREM RxPool == Spec => []RxPoolIntact
  BY Inductive, PTL DEF IInv

\* When r92su_usb_disconnect frees the driver, nothing refers to it.
THEOREM Teardown == Spec => []CleanTeardown
<1>1. IInv => CleanTeardown
  <2> SUFFICES ASSUME IInv, disc = "freed" PROVE CleanTeardown
    BY DEF CleanTeardown
  <2>1. \A c \in Ctx : pc[c] = "idle"
    BY DEF IInv, HandsMatch, Ctx
  <2>2. tx_flight = {} /\ tx_wait = << >>
    BY DEF IInv, HandsMatch
  <2>3. Holding = {}
    BY <2>1 DEF Holding
  <2>4. tx_pending = 0
    BY <2>2, <2>3, FS_EmptySet DEF IInv, Accounting
  <2>5. \A f \in Frames \ fresh : freed[f] = 1
    <3>1. \A f : ~Queued(f)
      BY <2>2 DEF Queued
    <3>2. \A f \in Frames : ~InHand(f)
      BY <2>1 DEF InHand, IInv, HandsMatch
    <3>3. QED
      BY <2>2, <3>1, <3>2 DEF IInv, OneOwner
  <2>6. QED
    BY <2>1, <2>2, <2>4, <2>5 DEF CleanTeardown
<1>2. QED
  BY Inductive, <1>1, PTL

(***************************************************************************)
(* The refinement                                                          *)
(*                                                                         *)
(* The lock-free transmit path of r92su/usb.c implements the abstract      *)
(* transmit window, for every number of contexts and frames and every      *)
(* window size that satisfy the assumptions of UsbTx.  The argument is one *)
(* step of the window, or none, for each action of UsbTx; the inductive    *)
(* invariant supplies the room in the window when a URB is submitted       *)
(* (WindowBound) and the disjointness of the sets (OneOwner).              *)
(***************************************************************************)


\* What r92su_unregister establishes: the state has left "alive" before the
\* queue is drained, and nothing brings it back.
UnloadCloses ==
  disc \in {"unload", "unregistered", "poison", "freed"} => state # "alive"

\* A step leaves the state alone or takes the device out of "alive".
LEMMA StateStep ==
  ASSUME TypeOK, [Next]_vars
  PROVE  state' = state \/ state' # "alive"
<1>1. ASSUME NEW err \in Statuses, state' = AfterUsbStatus(err)
      PROVE  state' = state \/ state' # "alive"
  BY <1>1, StatusStep, StatusesBoolean
<1>2. ASSUME NEW c \in Ctx, TxCbFree(c)
      PROVE  state' = state \/ state' # "alive"
  BY <1>1, <1>2 DEF TxCbFree
<1>3. ASSUME NEW c \in Ctx, Schedule(c), ~TxCbFree(c)
      PROVE  state' = state \/ state' # "alive"
  BY <1>3 DEF Schedule, UsbTxAnchor, ScheduleInc, ScheduleGet,
              ScheduleSubmit, ScheduleSubmitError, ScheduleDec
<1>4. ASSUME NEW u \in RxUrbs, RxCb(u) \/ RxResubmit(u) \/ RxResubmitError(u)
      PROVE  state' = state \/ state' # "alive"
  BY <1>1, <1>4 DEF RxCb, RxResubmit, RxResubmitError
<1>5. CASE Disconnect
  BY <1>5 DEF Disconnect, Unbind, SetUnload, Unregistered, Poison, Drain
<1>6. QED
  BY <1>2, <1>3, <1>4, <1>5
     DEF Next, Finished, vars, UsbTxEnter, TxCbEnter, Ctx

\* Only SetUnload, which also sets the state, lets the teardown pass the
\* point after which UnloadCloses speaks.
LEMMA UnloadStep ==
  ASSUME TypeOK, UnloadCloses, [Next]_vars
  PROVE  UnloadCloses'
<1>1. CASE Disconnect
  BY <1>1 DEF Disconnect, Unbind, SetUnload, Unregistered, Poison, Drain,
              UnloadCloses
<1>2. CASE ~Disconnect
  <2>1. disc' = disc
    BY <1>2 DEF Next, vars, UsbTxEnter, TxCbEnter, Schedule, UsbTxAnchor,
         ScheduleInc, ScheduleGet, ScheduleSubmit, ScheduleSubmitError,
         ScheduleDec, TxCbFree, RxCb, RxResubmit, RxResubmitError, Finished
  <2>2. QED
    BY <2>1, StateStep DEF UnloadCloses
<1>3. QED
  BY <1>1, <1>2

\* The window counts with the same Cardinality as the transmit path.
LEMMA SameCardinality == \A S : TW!Cardinality(S) = Cardinality(S)
  BY DEF TW!Cardinality, Cardinality

\* The mapped sets, frame by frame.
LEMMA Members ==
  ASSUME TypeOK, HandsMatch
  PROVE  /\ \A f : f \in Waiting <=>
              \/ f \in Frames /\ Queued(f)
              \/ \E c \in Ctx : pc[c] \in {"anchor", "submit"} /\ skb[c] = f
         /\ \A f : f \in Done <=>
              \/ f \in Frames /\ freed[f] > 0
              \/ \E c \in Ctx : pc[c] = "free" /\ skb[c] = f
         /\ Waiting \subseteq Frames /\ Done \subseteq Frames
  BY DEF Waiting, Done, HeldAt, HandsMatch

\* The invariant in both states, which every step of the proof starts from.
Ready == IInv /\ IInv' /\ UnloadCloses

\* A step that moves no frame may close the window, or is no step of it.
LEMMA NoFrameMoves ==
  ASSUME Ready, [Next]_vars,
         Waiting' = Waiting, Done' = Done, tx_flight' = tx_flight
  PROVE  [TW!Next]_(TW!vars)
<1>1. CASE state' = state
  BY <1>1 DEF TW!vars
<1>2. CASE state' # "alive"
  BY <1>2 DEF TW!Close, TW!Next
<1>3. QED
  BY <1>1, <1>2, StateStep DEF Ready, IInv

\* r92su_usb_tx takes the frame, or refuses it.
LEMMA EnterStep ==
  ASSUME Ready, NEW c \in Senders, NEW f \in Frames, UsbTxEnter(c, f)
  PROVE  [TW!Next]_(TW!vars)
<1> USE DEF Ready, IInv
<1>1. /\ ~Queued(f) /\ ~InHand(f) /\ f \notin tx_flight /\ freed[f] = 0
      /\ c \in Ctx
  BY DEF UsbTxEnter, OneOwner, Ctx
<1>2. f \notin Waiting /\ f \notin Done
  BY <1>1, Members DEF InHand
<1>3. \A g : Queued(g)' <=> Queued(g)
  BY DEF UsbTxEnter, Queued
<1>4. CASE /\ state = "alive"
           /\ pc' = [pc EXCEPT ![c] = "anchor"]
           /\ skb' = [skb EXCEPT ![c] = f]
           /\ UNCHANGED freed
  <2>1. Waiting' = Waiting \cup {f}
    BY <1>1, <1>3, <1>4 DEF UsbTxEnter, Waiting, HeldAt, TypeOK
  <2>2. Done' = Done
    BY <1>1, <1>4 DEF UsbTxEnter, Done, HeldAt, TypeOK
  <2>3. TW!Take(f)
    BY <1>1, <1>2, <1>4, <2>1, <2>2 DEF UsbTxEnter, TW!Take, TW!New
  <2>4. QED
    BY <2>3 DEF TW!Next
<1>5. CASE /\ freed' = [freed EXCEPT ![f] = @ + 1]
           /\ UNCHANGED <<pc, skb>>
  <2>1. Waiting' = Waiting
    BY <1>3, <1>5 DEF Waiting, HeldAt
  <2>2. Done' = Done \cup {f}
    BY <1>1, <1>5 DEF Done, HeldAt, TypeOK
  <2>3. TW!Refuse(f)
    BY <1>1, <1>2, <2>1, <2>2 DEF UsbTxEnter, TW!Refuse, TW!New
  <2>4. QED
    BY <2>3 DEF TW!Next
<1>6. QED
  BY <1>4, <1>5 DEF UsbTxEnter

\* A completion returns a frame.
LEMMA ReturnStep ==
  ASSUME Ready, NEW c \in Giveback, NEW f \in Frames, TxCbEnter(c, f)
  PROVE  [TW!Next]_(TW!vars)
<1> USE DEF Ready, IInv
<1>1. c \in Ctx /\ pc[c] = "idle"
  BY DEF TxCbEnter, Ctx
<1>2. Waiting' = Waiting
  BY <1>1 DEF TxCbEnter, Waiting, HeldAt, Queued, TypeOK
<1>3. Done' = Done \cup {f}
  BY <1>1 DEF TxCbEnter, Done, HeldAt, TypeOK
<1>4. TW!Return(f)
  BY <1>2, <1>3 DEF TxCbEnter, TW!Return
<1>5. QED
  BY <1>4 DEF TW!Next

\* A URB that usb_submit_urb accepts: WindowBound says that there is room.
LEMMA SendStep ==
  ASSUME Ready, NEW c \in Ctx, ScheduleSubmit(c)
  PROVE  [TW!Next]_(TW!vars)
<1> USE DEF Ready, IInv
<1>1. pc[c] = "submit" /\ skb[c] \in Frames
  BY DEF ScheduleSubmit, HandsMatch
<1>2. skb[c] \in Waiting
  BY <1>1, Members
<1>3. ~Queued(skb[c]) /\ \A d \in Ctx : skb[d] = skb[c] => d = c
  BY <1>1, FramesAssumption DEF OneOwner, InHand
<1>4. \A g : Queued(g)' <=> Queued(g)
  BY DEF ScheduleSubmit, Queued
<1>5. Waiting' = Waiting \ {skb[c]}
  BY <1>1, <1>3, <1>4 DEF ScheduleSubmit, Waiting, HeldAt, TypeOK
<1>6. Done' = Done
  BY <1>1 DEF ScheduleSubmit, Done, HeldAt, TypeOK
<1>7. Cardinality(tx_flight) < MaxTxUrbs
  <2>1. c \in Admitted
    BY <1>1 DEF Admitted
  <2>2. Cardinality(Admitted) # 0
    BY <2>1, FiniteCounts, FS_EmptySet
  <2>3. QED
    BY <2>2, FiniteCounts, CtxAssumption DEF WindowBound
<1>8. TW!Send(skb[c])
  BY <1>2, <1>5, <1>6, <1>7, SameCardinality DEF ScheduleSubmit, TW!Send
<1>9. QED
  BY <1>1, <1>8 DEF TW!Next

\* A URB that usb_submit_urb refuses: the frame is lost with the device.
LEMMA FailStep ==
  ASSUME Ready, NEW c \in Ctx, ScheduleSubmitError(c)
  PROVE  [TW!Next]_(TW!vars)
<1> USE DEF Ready, IInv
<1>1. pc[c] = "submit" /\ skb[c] \in Frames
  BY DEF ScheduleSubmitError, HandsMatch
<1>2. skb[c] \in Waiting
  BY <1>1, Members
<1>3. ~Queued(skb[c]) /\ \A d \in Ctx : skb[d] = skb[c] => d = c
  BY <1>1, FramesAssumption DEF OneOwner, InHand
<1>4. \A g : Queued(g)' <=> Queued(g)
  BY DEF ScheduleSubmitError, Queued
<1>5. Waiting' = Waiting \ {skb[c]}
  BY <1>1, <1>3, <1>4 DEF ScheduleSubmitError, Waiting, HeldAt, TypeOK
<1>6. Done' = Done \cup {skb[c]}
  BY <1>1 DEF ScheduleSubmitError, Done, HeldAt, TypeOK
<1>7. TW!Fail(skb[c])
  BY <1>2, <1>5, <1>6 DEF ScheduleSubmitError, TW!Fail
<1>8. QED
  BY <1>1, <1>7 DEF TW!Next

\* The steps of r92su_tx_schedule and the callback that move no frame.
LEMMA InnerSteps ==
  ASSUME Ready, NEW c \in Ctx,
         \/ UsbTxAnchor(c) \/ ScheduleInc(c) \/ ScheduleGet(c)
         \/ ScheduleDec(c) \/ TxCbFree(c)
  PROVE  [TW!Next]_(TW!vars)
<1> USE DEF Ready, IInv
<1>0. [Next]_vars
  BY DEF Next, Schedule
<1>1. CASE UsbTxAnchor(c)
  <2>1. skb[c] \in Frames /\ pc[c] = "anchor"
    BY <1>1 DEF UsbTxAnchor, HandsMatch
  <2>2. \A g \in Frames : Queued(g)' <=> Queued(g) \/ g = skb[c]
    <3>1. tx_wait' = Append(tx_wait, skb[c]) /\ tx_wait \in Seq(Frames)
      BY <1>1 DEF UsbTxAnchor, TypeOK
    <3>2. /\ Len(tx_wait') = Len(tx_wait) + 1 /\ Len(tx_wait) \in Nat
          /\ \A i \in 1..Len(tx_wait) : tx_wait'[i] = tx_wait[i]
          /\ tx_wait'[Len(tx_wait) + 1] = skb[c]
      BY <2>1, <3>1, QueueAppend
    <3>3. \A i : i \in 1..Len(tx_wait') <=>
                  i \in 1..Len(tx_wait) \/ i = Len(tx_wait) + 1
      BY <3>2
    <3>4. QED
      BY <3>2, <3>3 DEF Queued
  <2>3. Waiting' = Waiting
    <3>1. HeldAt({"anchor", "submit"}) = HeldAt({"anchor", "submit"})' \cup {skb[c]}
      BY <1>1, <2>1 DEF UsbTxAnchor, HeldAt, TypeOK
    <3>2. QED
      BY <2>1, <2>2, <3>1 DEF Waiting
  <2>4. Done' = Done
    BY <1>1, <2>1 DEF UsbTxAnchor, Done, HeldAt, TypeOK
  <2>5. QED
    BY <1>0, <1>1, <2>3, <2>4, NoFrameMoves DEF UsbTxAnchor
<1>2. CASE ScheduleInc(c) \/ ScheduleDec(c)
  <2>1. Waiting' = Waiting /\ Done' = Done
    BY <1>2 DEF ScheduleInc, ScheduleDec, Waiting, Done, HeldAt, Queued, TypeOK
  <2>2. QED
    BY <1>0, <1>2, <2>1, NoFrameMoves DEF ScheduleInc, ScheduleDec
<1>3. CASE ScheduleGet(c)
  <2>1. Done' = Done
    <3>1. CASE tx_wait = << >>
      BY <1>3, <3>1 DEF ScheduleGet, Done, HeldAt, TypeOK
    <3>2. CASE tx_wait # << >>
      <4>1. /\ freed' = freed /\ pc[c] = "get"
            /\ skb' = [skb EXCEPT ![c] = Head(tx_wait)]
            /\ pc' = [pc EXCEPT ![c] = "submit"]
        BY <1>3, <3>2 DEF ScheduleGet
      <4>2. HeldAt({"free"})' = HeldAt({"free"})
        BY <4>1 DEF HeldAt, TypeOK
      <4>3. QED
        BY <4>1, <4>2 DEF Done
    <3>3. QED
      BY <3>1, <3>2
  <2>2. CASE tx_wait = << >>
    <3>1. Waiting' = Waiting
      BY <1>3, <2>2 DEF ScheduleGet, Waiting, HeldAt, Queued, TypeOK
    <3>2. QED
      BY <1>0, <1>3, <2>1, <3>1, NoFrameMoves DEF ScheduleGet
  <2>3. CASE tx_wait # << >>
    <3>1. /\ tx_wait' = Tail(tx_wait) /\ skb'[c] = Head(tx_wait)
          /\ Head(tx_wait) \in Frames /\ pc[c] = "get"
          /\ pc' = [pc EXCEPT ![c] = "submit"]
          /\ skb' = [skb EXCEPT ![c] = Head(tx_wait)]
      BY <1>3, <2>3, QueueHead DEF ScheduleGet, TypeOK
    <3>2. \A g \in Frames : Queued(g) <=> Queued(g)' \/ g = Head(tx_wait)
      <4>1. \A i \in 1..Len(tx_wait) : i = 1 \/ i - 1 \in 1..Len(Tail(tx_wait))
        BY <2>3, QueueHead DEF TypeOK
      <4>2. \A i \in 1..Len(tx_wait) : i = 1 \/ Tail(tx_wait)[i - 1] = tx_wait[i]
        BY <2>3, <4>1, QueueHead DEF TypeOK
      <4>3. ASSUME NEW g \in Frames, Queued(g)
            PROVE  Queued(g)' \/ g = Head(tx_wait)
        <5>1. PICK i \in 1..Len(tx_wait) : tx_wait[i] = g
          BY <4>3 DEF Queued
        <5>2. CASE i = 1
          BY <2>3, <5>1, <5>2, QueueHead DEF TypeOK
        <5>3. CASE i # 1
          BY <3>1, <4>1, <4>2, <5>1, <5>3 DEF Queued
        <5>4. QED
          BY <5>2, <5>3
      <4>4. ASSUME NEW g \in Frames, Queued(g)' \/ g = Head(tx_wait)
            PROVE  Queued(g)
        BY <2>3, <3>1, <4>4, QueueHead DEF Queued, TypeOK
      <4>5. QED
        BY <4>3, <4>4
    <3>3. HeldAt({"anchor", "submit"})' =
            HeldAt({"anchor", "submit"}) \cup {Head(tx_wait)}
      BY <3>1 DEF HeldAt, TypeOK
    <3>4. Waiting' = Waiting
      BY <3>1, <3>2, <3>3 DEF Waiting
    <3>5. QED
      BY <1>0, <1>3, <2>1, <3>4, NoFrameMoves DEF ScheduleGet
  <2>4. QED
    BY <2>2, <2>3
<1>4. CASE TxCbFree(c)
  <2>1. skb[c] \in Frames /\ pc[c] = "free"
    BY <1>4 DEF TxCbFree, HandsMatch
  <2>2. Waiting' = Waiting
    BY <1>4, <2>1 DEF TxCbFree, Waiting, HeldAt, Queued, TypeOK
  <2>3. HeldAt({"free"}) = HeldAt({"free"})' \cup {skb[c]}
    BY <1>4, <2>1 DEF TxCbFree, HeldAt, TypeOK
  <2>4. {f \in Frames : freed'[f] > 0} =
          {f \in Frames : freed[f] > 0} \cup {skb[c]}
    BY <1>4, <2>1 DEF TxCbFree, TypeOK
  <2>5. Done' = Done
    BY <2>3, <2>4 DEF Done
  <2>6. QED
    BY <1>0, <1>4, <2>2, <2>5, NoFrameMoves DEF TxCbFree
<1>5. QED
  BY <1>1, <1>2, <1>3, <1>4

\* The drain of the teardown throws the waiting frames away.
LEMMA FlushStep ==
  ASSUME Ready, Drain
  PROVE  [TW!Next]_(TW!vars)
<1> USE DEF Ready, IInv
<1>1. \A c \in Ctx : pc[c] = "idle"
  BY DEF Drain, HandsMatch, Ctx
<1>2. Waiting = {f \in Frames : Queued(f)} /\ Done = {f \in Frames : freed[f] > 0}
  BY <1>1 DEF Waiting, Done, HeldAt
<1>3. Waiting' = {}
  BY <1>1 DEF Drain, Waiting, HeldAt, Queued
<1>4. Done' = {f \in Frames : freed'[f] > 0}
  BY <1>1 DEF Drain, Done, HeldAt
<1>5. Done' = Done \cup Waiting
  BY <1>2, <1>4 DEF Drain, TypeOK
<1>6. TW!Flush
  BY <1>3, <1>5 DEF Drain, TW!Flush, UnloadCloses
<1>7. QED
  BY <1>6 DEF TW!Next

\* Every step of the transmit path is a step of the window, or none.
LEMMA RefinementStep ==
  ASSUME Ready, [Next]_vars
  PROVE  [TW!Next]_(TW!vars)
<1>1. ASSUME UNCHANGED txvars
      PROVE  [TW!Next]_(TW!vars)
  <2>1. Waiting' = Waiting /\ Done' = Done /\ tx_flight' = tx_flight
    BY <1>1 DEF txvars, Waiting, Done, HeldAt, Queued
  <2>2. QED
    BY <2>1, NoFrameMoves
<1>2. ASSUME NEW u \in RxUrbs, RxCb(u) \/ RxResubmit(u) \/ RxResubmitError(u)
      PROVE  UNCHANGED txvars
  BY <1>2 DEF RxCb, RxResubmit, RxResubmitError
<1>3. ASSUME Disconnect, ~Drain
      PROVE  UNCHANGED txvars
  BY <1>3 DEF Disconnect, Unbind, SetUnload, Unregistered, Poison
<1>4. QED
  BY <1>1, <1>2, <1>3, EnterStep, ReturnStep, SendStep, FailStep, InnerSteps,
     FlushStep DEF Next, Schedule, Disconnect, Finished, vars

\* Initially the window is open and empty.
LEMMA RefinementInit == Init => TW!Init
<1> SUFFICES ASSUME Init PROVE TW!Init
  OBVIOUS
<1>1. Waiting = {} /\ Done = {}
  BY DEF Init, Waiting, Done, HeldAt, Queued
<1>2. QED
  BY <1>1 DEF Init, TW!Init

\* The lock-free transmit path of r92su/usb.c implements the window: frames
\* move from waiting to out to done only, no more than
\* RTL_USB_MAX_TX_URBS_NUM are out, and nothing is thrown away while the
\* device lives.
THEOREM Refinement == Spec => ImplementsTxWindow
<1>1. Init => UnloadCloses
  BY DEF Init, UnloadCloses
<1>2. IInv /\ UnloadCloses /\ [Next]_vars => UnloadCloses'
  BY UnloadStep DEF IInv
<1>3. IInv /\ IInv' /\ UnloadCloses /\ [Next]_vars => [TW!Next]_(TW!vars)
  BY RefinementStep DEF Ready
<1>4. QED
  BY Inductive, RefinementInit, <1>1, <1>2, <1>3, PTL
     DEF Spec, ImplementsTxWindow, TW!Spec

=============================================================================
