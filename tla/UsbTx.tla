------------------------------- MODULE UsbTx -------------------------------
(***************************************************************************)
(* The USB transfer engine of the r92su driver (r92su/usb.c): the transmit *)
(* window (r92su_usb_tx, r92su_tx_schedule, r92su_tx_usb_cb), the pool of  *)
(* receive URBs (r92su_rx_usb_cb) and the teardown in                      *)
(* r92su_usb_disconnect.                                                   *)
(*                                                                         *)
(* No lock covers the transmit path.  Several contexts run                 *)
(* r92su_tx_schedule at once: the senders (the xmit queues of the netdev,  *)
(* one management frame, one firmware command under tx_cmd_lock) and the   *)
(* completion context of the host controller.  Each statement that touches *)
(* shared state is one action.                                             *)
(*                                                                         *)
(* The device state is reduced to what r92su_is_probing() and              *)
(* r92su_is_dead() tell apart.  The module starts after a successful probe *)
(* and no action brings a dead device back to life: that the MLME can do   *)
(* so (its unlocked r92su_set_state) is the subject of module Scan.        *)
(***************************************************************************)
EXTENDS Naturals, Sequences, FiniteSets

CONSTANTS
  Senders,      \* contexts that may be inside r92su_usb_tx
  Giveback,     \* contexts in which the host controller completes TX URBs
  Frames,       \* the skbs that are ever handed to the driver
  RxUrbs,       \* the receive URBs (RTL_USB_MAX_RX_URBS_NUM of them)
  MaxTxUrbs,    \* RTL_USB_MAX_TX_URBS_NUM
  NoFrame       \* a context without a frame in hand

Ctx == Senders \cup Giveback

\* The code's numbers: NUM_ACS = 4 xmit queues, one management frame
\* (nl80211 is serialised), one firmware command (tx_cmd_lock) and one
\* completion context make 7 contexts, for RTL_USB_MAX_TX_URBS_NUM = 8.
ASSUME CtxAssumption ==
  /\ IsFiniteSet(Ctx)
  /\ Senders \cap Giveback = {}
  /\ MaxTxUrbs \in Nat \ {0}
  /\ Cardinality(Ctx) <= MaxTxUrbs

ASSUME FramesAssumption == IsFiniteSet(Frames) /\ NoFrame \notin Frames

VARIABLES
  state,       \* "alive": >= R92SU_PROBE; "dead": R92SU_DEAD; "unload"
  tx_pending,  \* atomic_t tx_pending_urbs
  tx_wait,     \* anchor tx_wait: a FIFO of frames
  tx_flight,   \* frames whose URB the host controller owns
  pc,          \* where each context is in the code
  skb,         \* the frame each context owns
  fresh,       \* frames the stack has not sent yet
  freed,       \* how often each frame was given to kfree_skb
  rx,          \* state of each receive URB
  disc         \* progress of r92su_usb_disconnect

txvars == <<tx_pending, tx_wait, tx_flight, pc, skb, fresh, freed>>
vars == <<state, txvars, rx, disc>>

\* usb_poison_anchored_urbs was called on both anchors.
poisoned == disc \in {"poison", "freed"}

PCs == {"idle", "anchor", "inc", "get", "submit", "dec", "free"}

TypeOK ==
  /\ state \in {"alive", "dead", "unload"}
  /\ tx_pending \in Nat
  /\ tx_wait \in Seq(Frames)
  /\ tx_flight \in SUBSET Frames
  /\ pc \in [Ctx -> PCs]
  /\ skb \in [Ctx -> Frames \cup {NoFrame}]
  /\ fresh \in SUBSET Frames
  /\ freed \in [Frames -> Nat]
  /\ rx \in [RxUrbs -> {"flight", "resubmit", "gone"}]
  /\ disc \in {"bound", "unbinding", "unload", "unregistered", "poison",
               "freed"}

Init ==
  /\ state = "alive"
  /\ tx_pending = 0
  /\ tx_wait = << >>
  /\ tx_flight = {}
  /\ pc = [c \in Ctx |-> "idle"]
  /\ skb = [c \in Ctx |-> NoFrame]
  /\ fresh = Frames
  /\ freed = [f \in Frames |-> 0]
  /\ rx = [u \in RxUrbs |-> "flight"]
  /\ disc = "bound"

(***************************************************************************)
(* r92su_deal_with_usb_errors: an error of a live, bound device kills it.  *)
(* Every error code of the switch ends in r92su_mark_dead.                 *)
(***************************************************************************)
AfterUsbStatus(err) ==
  IF err /\ state # "dead" /\ disc = "bound" THEN "dead" ELSE state

\* A URB of a poisoned anchor completes, and is refused, with an error.
Statuses == IF poisoned THEN {TRUE} ELSE BOOLEAN

(***************************************************************************)
(* r92su_usb_tx                                                            *)
(***************************************************************************)

\* The state test and usb_alloc_urb; refused frames are freed at once.
UsbTxEnter(c, f) ==
  /\ disc \in {"bound", "unbinding", "unload"}
  /\ pc[c] = "idle"
  /\ f \in fresh
  /\ fresh' = fresh \ {f}
  /\ \/ /\ state = "alive"
        /\ pc' = [pc EXCEPT ![c] = "anchor"]
        /\ skb' = [skb EXCEPT ![c] = f]
        /\ UNCHANGED freed
     \/ /\ freed' = [freed EXCEPT ![f] = @ + 1]
        /\ UNCHANGED <<pc, skb>>
  /\ UNCHANGED <<state, tx_pending, tx_wait, tx_flight, rx, disc>>

\* usb_anchor_urb(urb, &tx_wait), then r92su_tx_schedule.
UsbTxAnchor(c) ==
  /\ pc[c] = "anchor"
  /\ tx_wait' = Append(tx_wait, skb[c])
  /\ skb' = [skb EXCEPT ![c] = NoFrame]
  /\ pc' = [pc EXCEPT ![c] = "inc"]
  /\ UNCHANGED <<state, tx_pending, tx_flight, fresh, freed, rx, disc>>

(***************************************************************************)
(* r92su_tx_schedule                                                       *)
(***************************************************************************)

\* Mutant: the limit is tested on the value before the increment.
ScheduleInc_OffByOne(c) ==
  /\ pc[c] = "inc"
  /\ tx_pending' = tx_pending + 1
  /\ pc' = [pc EXCEPT ![c] = IF tx_pending > MaxTxUrbs THEN "dec" ELSE "get"]
  /\ UNCHANGED <<state, tx_wait, tx_flight, skb, fresh, freed, rx, disc>>

\* atomic_inc_return() > RTL_USB_MAX_TX_URBS_NUM: give the slot back.
ScheduleInc(c) ==
  /\ pc[c] = "inc"
  /\ tx_pending' = tx_pending + 1
  /\ pc' = [pc EXCEPT ![c] = IF tx_pending + 1 > MaxTxUrbs THEN "dec"
                                                            ELSE "get"]
  /\ UNCHANGED <<state, tx_wait, tx_flight, skb, fresh, freed, rx, disc>>

\* usb_get_from_anchor(&tx_wait): the oldest waiting URB, if there is one.
ScheduleGet(c) ==
  /\ pc[c] = "get"
  /\ IF tx_wait = << >>
     THEN /\ pc' = [pc EXCEPT ![c] = "dec"]
          /\ UNCHANGED <<tx_wait, skb>>
     ELSE /\ tx_wait' = Tail(tx_wait)
          /\ skb' = [skb EXCEPT ![c] = Head(tx_wait)]
          /\ pc' = [pc EXCEPT ![c] = "submit"]
  /\ UNCHANGED <<state, tx_pending, tx_flight, fresh, freed, rx, disc>>

\* usb_submit_urb succeeds: the slot now belongs to the URB in flight.
ScheduleSubmit(c) ==
  /\ pc[c] = "submit"
  /\ ~poisoned
  /\ tx_flight' = tx_flight \cup {skb[c]}
  /\ skb' = [skb EXCEPT ![c] = NoFrame]
  /\ pc' = [pc EXCEPT ![c] = "idle"]
  /\ UNCHANGED <<state, tx_pending, tx_wait, fresh, freed, rx, disc>>

\* Mutant: the error path returns without err_acc.
ScheduleSubmitError_KeepsSlot(c) ==
  /\ pc[c] = "submit"
  /\ state' = "dead"
  /\ freed' = [freed EXCEPT ![skb[c]] = @ + 1]
  /\ skb' = [skb EXCEPT ![c] = NoFrame]
  /\ pc' = [pc EXCEPT ![c] = "idle"]
  /\ UNCHANGED <<tx_pending, tx_wait, tx_flight, fresh, rx, disc>>

\* Mutant: the error path forgets the skb.
ScheduleSubmitError_Leaks(c) ==
  /\ pc[c] = "submit"
  /\ state' = "dead"
  /\ skb' = [skb EXCEPT ![c] = NoFrame]
  /\ pc' = [pc EXCEPT ![c] = "dec"]
  /\ UNCHANGED <<tx_pending, tx_wait, tx_flight, fresh, freed, rx, disc>>

\* usb_submit_urb fails: r92su_mark_dead, the frame is freed.
ScheduleSubmitError(c) ==
  /\ pc[c] = "submit"
  /\ state' = "dead"
  /\ freed' = [freed EXCEPT ![skb[c]] = @ + 1]
  /\ skb' = [skb EXCEPT ![c] = NoFrame]
  /\ pc' = [pc EXCEPT ![c] = "dec"]
  /\ UNCHANGED <<tx_pending, tx_wait, tx_flight, fresh, rx, disc>>

\* err_acc: atomic_dec(&tx_pending_urbs).
ScheduleDec(c) ==
  /\ pc[c] = "dec"
  /\ tx_pending' = tx_pending - 1
  /\ pc' = [pc EXCEPT ![c] = "idle"]
  /\ UNCHANGED <<state, tx_wait, tx_flight, skb, fresh, freed, rx, disc>>

(***************************************************************************)
(* r92su_tx_usb_cb: the completion gives the slot back first ...           *)
(***************************************************************************)
TxCbEnter(c, f) ==
  /\ pc[c] = "idle"
  /\ f \in tx_flight
  /\ tx_flight' = tx_flight \ {f}
  /\ tx_pending' = tx_pending - 1
  /\ skb' = [skb EXCEPT ![c] = f]
  /\ pc' = [pc EXCEPT ![c] = "free"]
  /\ UNCHANGED <<state, tx_wait, fresh, freed, rx, disc>>

\* Mutant: the callback does not call r92su_tx_schedule.
TxCbFree_NoSchedule(c) ==
  /\ pc[c] = "free"
  /\ freed' = [freed EXCEPT ![skb[c]] = @ + 1]
  /\ \E err \in Statuses : state' = AfterUsbStatus(err)
  /\ skb' = [skb EXCEPT ![c] = NoFrame]
  /\ pc' = [pc EXCEPT ![c] = "idle"]
  /\ UNCHANGED <<tx_pending, tx_wait, tx_flight, fresh, rx, disc>>

\* ... then frees the frame, looks at the status and calls tx_schedule.
TxCbFree(c) ==
  /\ pc[c] = "free"
  /\ freed' = [freed EXCEPT ![skb[c]] = @ + 1]
  /\ \E err \in Statuses : state' = AfterUsbStatus(err)
  /\ skb' = [skb EXCEPT ![c] = NoFrame]
  /\ pc' = [pc EXCEPT ![c] = "inc"]
  /\ UNCHANGED <<tx_pending, tx_wait, tx_flight, fresh, rx, disc>>

(***************************************************************************)
(* r92su_rx_usb_cb: the buffer is handed to r92su_rx and the URB is sent   *)
(* back to the host controller, unless the device is no longer alive.      *)
(* "gone" means that its buffer was freed.                                 *)
(***************************************************************************)
RxCb(u) ==
  /\ rx[u] = "flight"
  /\ \E err \in Statuses :
       /\ state' = AfterUsbStatus(err)
       /\ rx' = [rx EXCEPT ![u] =
                   IF AfterUsbStatus(err) = "alive" THEN "resubmit"
                                                    ELSE "gone"]
  /\ UNCHANGED <<txvars, disc>>

RxResubmit(u) ==
  /\ rx[u] = "resubmit"
  /\ ~poisoned
  /\ rx' = [rx EXCEPT ![u] = "flight"]
  /\ UNCHANGED <<state, txvars, disc>>

\* usb_submit_urb fails: the unconditional r92su_mark_dead.
RxResubmitError(u) ==
  /\ rx[u] = "resubmit"
  /\ rx' = [rx EXCEPT ![u] = "gone"]
  /\ state' = "dead"
  /\ UNCHANGED <<txvars, disc>>

(***************************************************************************)
(* r92su_usb_disconnect                                                    *)
(***************************************************************************)

\* The USB core marks the interface USB_INTERFACE_UNBINDING and calls it.
Unbind ==
  /\ disc = "bound"
  /\ disc' = "unbinding"
  /\ UNCHANGED <<state, txvars, rx>>

\* r92su_unregister: r92su_set_state(R92SU_UNLOAD), whatever the state was.
SetUnload ==
  /\ disc = "unbinding"
  /\ state' = "unload"
  /\ disc' = "unload"
  /\ UNCHANGED <<txvars, rx>>

\* wiphy_unregister and synchronize_rcu return: no sender is left inside.
Unregistered ==
  /\ disc = "unload"
  /\ \A c \in Senders : pc[c] = "idle"
  /\ disc' = "unregistered"
  /\ UNCHANGED <<state, txvars, rx>>

\* usb_wait_anchor_empty_timeout (it may time out), then
\* usb_poison_anchored_urbs on both anchors.
Poison ==
  /\ disc = "unregistered"
  /\ disc' = "poison"
  /\ UNCHANGED <<state, txvars, rx>>

\* Frame f is anchored in tx_wait.
Queued(f) == \E i \in 1..Len(tx_wait) : tx_wait[i] = f

\* Mutant: the teardown polls tx_wait until it is empty, and nobody empties it.
Drain_WaitsForQueue ==
  /\ disc = "poison"
  /\ tx_flight = {}
  /\ \A c \in Giveback : pc[c] = "idle"
  /\ \A u \in RxUrbs : rx[u] = "gone"
  /\ disc' = IF tx_wait = << >> THEN "freed" ELSE disc
  /\ UNCHANGED <<state, txvars, rx>>

\* usb_poison_anchored_urbs returns when every URB of the anchors has been
\* given back and its callback is over; then the loop that frees the frames
\* of tx_wait.
Drain ==
  /\ disc = "poison"
  /\ tx_flight = {}
  /\ \A c \in Giveback : pc[c] = "idle"
  /\ \A u \in RxUrbs : rx[u] = "gone"
  /\ freed' = [f \in Frames |->
                 IF Queued(f) THEN freed[f] + 1 ELSE freed[f]]
  /\ tx_wait' = << >>
  /\ disc' = "freed"
  /\ UNCHANGED <<state, tx_pending, tx_flight, pc, skb, fresh, rx>>

\* The driver instance is gone.
Finished ==
  /\ disc = "freed"
  /\ UNCHANGED vars

Disconnect == Unbind \/ SetUnload \/ Unregistered \/ Poison \/ Drain

Schedule(c) ==
  \/ UsbTxAnchor(c)
  \/ ScheduleInc(c)
  \/ ScheduleGet(c)
  \/ ScheduleSubmit(c)
  \/ ScheduleSubmitError(c)
  \/ ScheduleDec(c)
  \/ TxCbFree(c)

Next ==
  \/ \E c \in Senders, f \in Frames : UsbTxEnter(c, f)
  \/ \E c \in Giveback, f \in Frames : TxCbEnter(c, f)
  \/ \E c \in Ctx : Schedule(c)
  \/ \E u \in RxUrbs : RxCb(u) \/ RxResubmit(u) \/ RxResubmitError(u)
  \/ Disconnect
  \/ Finished

Spec == Init /\ [][Next]_vars

(***************************************************************************)
(* Fairness.  Code that was entered runs on; the host controller gives     *)
(* every URB back (a poisoned one at once); an unbind that was started is  *)
(* carried through.  Nothing forces the stack to send, the device to fail, *)
(* or anyone to unplug it.                                                 *)
(***************************************************************************)
Fairness ==
  /\ \A c \in Ctx : WF_vars(Schedule(c))
  /\ \A f \in Frames : WF_vars(\E c \in Giveback : TxCbEnter(c, f))
  /\ \A u \in RxUrbs :
       WF_vars(RxCb(u) \/ RxResubmit(u) \/ RxResubmitError(u))
  /\ WF_vars(SetUnload \/ Unregistered \/ Poison \/ Drain)

FairSpec == Spec /\ Fairness

-----------------------------------------------------------------------------
(***************************************************************************)
(* Properties                                                              *)
(***************************************************************************)

\* Contexts that hold a slot of the window without a URB in flight.
Holding == {c \in Ctx : pc[c] \in {"get", "submit", "dec"}}

\* The contexts among them that were admitted by the limit test.
Admitted == {c \in Ctx : pc[c] \in {"get", "submit"}}

\* tx_pending_urbs is exact: it counts the URBs in flight plus the contexts
\* between their atomic_inc and the point where they keep the slot or give
\* it back.  A path that forgot (or doubled) an atomic_dec breaks it.
Accounting == tx_pending = Cardinality(tx_flight) + Cardinality(Holding)

\* At most RTL_USB_MAX_TX_URBS_NUM URBs are in flight, although the test of
\* the limit and the submission are not atomic.
WindowBound == Cardinality(tx_flight) + Cardinality(Admitted) <= MaxTxUrbs

\* No lost wake-up: while the device lives, a waiting frame has somebody who
\* will look at tx_wait after it was queued: a URB in flight (its callback
\* schedules) or a context on its way into the queue.
NoStall ==
  (state = "alive" /\ tx_wait # << >>) =>
    \/ tx_flight # {}
    \/ \E c \in Ctx : pc[c] \in {"inc", "get", "submit", "free"}

\* Some context has frame f in hand.
InHand(f) == \E c \in Ctx : skb[c] = f

\* Every skb has exactly one owner: the stack, the wait queue, one context,
\* the host controller, or it was freed, once.  Double frees, leaks and a
\* frame that is sent twice all break it.
OneOwner ==
  /\ \A i, j \in 1..Len(tx_wait) : tx_wait[i] = tx_wait[j] => i = j
  /\ \A c, d \in Ctx : skb[c] = skb[d] /\ skb[c] # NoFrame => c = d
  /\ \A f \in Frames :
       /\ f \in fresh => ~Queued(f) /\ ~InHand(f) /\ f \notin tx_flight
       /\ Queued(f) => ~InHand(f) /\ f \notin tx_flight
       /\ InHand(f) => f \notin tx_flight
       /\ IF f \in fresh \/ Queued(f) \/ InHand(f) \/ f \in tx_flight
          THEN freed[f] = 0
          ELSE freed[f] = 1

\* The receiver never starves silently: as long as the driver believes that
\* the device lives, every receive URB is with the host controller or on its
\* way back to it.
RxPoolIntact == state = "alive" => \A u \in RxUrbs : rx[u] # "gone"

\* When r92su_usb_disconnect frees the driver nothing refers to it any more:
\* no context is in the transmit path, no URB is out, no frame is left.
CleanTeardown ==
  disc = "freed" =>
    /\ \A c \in Ctx : pc[c] = "idle"
    /\ tx_flight = {} /\ tx_wait = << >> /\ tx_pending = 0
    /\ \A f \in Frames \ fresh : freed[f] = 1

\* What ties the program counters to the frames in hand and to the progress
\* of the teardown.  With OneOwner it makes the counting inductive.
HandsMatch ==
  /\ \A c \in Ctx : skb[c] \in Frames <=> pc[c] \in {"anchor", "submit", "free"}
  /\ disc \in {"unregistered", "poison", "freed"} =>
       \A c \in Senders : pc[c] = "idle"
  /\ disc = "freed" =>
       tx_flight = {} /\ tx_wait = << >> /\ \A c \in Giveback : pc[c] = "idle"

\* The inductive invariant of the proofs.
IInv ==
  /\ TypeOK /\ HandsMatch /\ OneOwner
  /\ Accounting /\ WindowBound /\ NoStall /\ RxPoolIntact

(***************************************************************************)
(* The promise to the stack.  A frame that a context has in hand counts as *)
(* waiting until usb_submit_urb has taken it, and as done from the moment  *)
(* its completion handler was entered.                                     *)
(***************************************************************************)
HeldAt(places) == {skb[c] : c \in {d \in Ctx : pc[d] \in places}}

Waiting == {f \in Frames : Queued(f)} \cup HeldAt({"anchor", "submit"})
Done == {f \in Frames : freed[f] > 0} \cup HeldAt({"free"})

TW == INSTANCE TxWindow WITH
        Max <- MaxTxUrbs,
        open <- (state = "alive"),
        waiting <- Waiting,
        out <- tx_flight,
        done <- Done

\* r92su_usb_tx, r92su_tx_schedule and r92su_tx_usb_cb, although no lock
\* holds them together, are a transmit window: no frame is sent twice, taken
\* back or thrown away while the device lives, and never more than
\* RTL_USB_MAX_TX_URBS_NUM are out.
ImplementsTxWindow == TW!Spec

\* A frame that r92su_usb_tx has taken comes back from the device, or the
\* device is gone.
TakenIsDone == TW!TakenIsDone

\* Once the interface is being unbound the teardown comes to its end.
DisconnectEnds == (disc = "unbinding") ~> (disc = "freed")

=============================================================================
