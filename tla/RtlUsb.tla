------------------------------- MODULE RtlUsb ------------------------------
(***************************************************************************)
(* The USB glue of rtlwifi (rtlwifi/usb.c), which the default Makefile     *)
(* builds together with rtl8192su: start and stop of the adapter, the pool *)
(* of receive URBs with its tasklet, the transmit window and the teardown. *)
(* It is the code that r92su/usb.c descends from, with three differences   *)
(* that matter: the device may be stopped and started again, an error does *)
(* not end the device, and the firmware is sent through the same queue as  *)
(* the frames.                                                             *)
(*                                                                         *)
(* mac80211 (external) calls rtl_op_start, rtl_op_stop and rtl_op_tx; it   *)
(* never has both start and stop running, and no rtl_op_tx while it calls  *)
(* rtl_op_stop (ieee80211_do_stop waits for them).  It may call from the   *)
(* end of ieee80211_register_hw to the end of ieee80211_unregister_hw,     *)
(* which is longer than RTL_STATUS_INTERFACE_START is set.  rtlusb->state  *)
(* and rtlhal->state are assigned together and are one variable here.      *)
(*                                                                         *)
(* Two error paths free an skb twice, one of them through a URB that it    *)
(* has freed.  Between the two frees another context may be given the      *)
(* memory: the second one then hits a frame that met no error.  A frame    *)
(* that enters after the first of them may be that frame (spoiled).        *)
(***************************************************************************)
EXTENDS Integers, Sequences, FiniteSets

CONSTANTS
  Senders,      \* contexts in which mac80211 calls rtl_op_tx
  Task,         \* the task that starts, stops and configures the device;
                \* mac80211 may also send from it
  Giveback,     \* contexts in which the host controller completes TX URBs
  Data,         \* skbs of mac80211: DESC_PACKET_TYPE_NORMAL
  Cmds,         \* firmware code and commands: _INIT and _CMD
  MaxTxUrbs,    \* RTL_USB_MAX_TX_URBS_NUM
  RxUrbNum,     \* rx_urb_num
  RxMaxQueued,  \* __RX_SKB_MAX_QUEUED
  MaxStarts,    \* bound: how often the interface is brought up
  MaxErrors,    \* bound: how many frames meet an error
  NoFrame

Ctx == Senders \cup {Task} \cup Giveback
Frames == Data \cup Cmds

ASSUME RtlUsbAssumption ==
  /\ IsFiniteSet(Ctx) /\ Cardinality(Ctx) <= MaxTxUrbs
  /\ Giveback \cap (Senders \cup {Task}) = {}
  /\ IsFiniteSet(Frames) /\ Data \cap Cmds = {} /\ NoFrame \notin Frames
  /\ {MaxTxUrbs, RxUrbNum, RxMaxQueued, MaxStarts} \subseteq Nat \ {0}
  /\ MaxErrors \in Nat

VARIABLES
  state,       \* USB_STATE_STOP or USB_STATE_START (and rtlhal->state)
  op,          \* where the task is in start, stop or disconnect
  status,      \* RTL_STATUS_INTERFACE_START: not yet set by the probe, set,
               \* or cleared by the disconnect
  running,     \* mac80211 believes that the device is started
  unstarted,   \* ... and rtl_op_start returned 0 without starting it
  starts,      \* calls of rtl_op_start so far
  wq,          \* works.rtl_wq: "live", "destroyed", or "misused" after that
  tx_pending,  \* atomic_t tx_pending_urbs
  tx_wait,     \* anchor tx_wait
  tx_flight,   \* frames whose URB the host controller owns
  pc, skb,     \* where each context is, and the frame it owns
  fresh,       \* frames nobody has sent yet
  freed,       \* how often each skb was freed or handed back to mac80211
  rx_flight,   \* receive URBs with the host controller
  rx_cb,       \* a callback is about to resubmit its URB
  rx_cleanup,  \* URBs on the anchor rx_cleanup_urbs
  rx_stuck,    \* a URB was anchored but never submitted
  rx_queue,    \* skbs in rx_queue
  tasklet,     \* rx_work_tasklet is scheduled or runs
  faulty,      \* history: frames that met an allocation or USB error
  spoiled,     \* history: frames freed on the paths that free twice, and the
               \* frames that entered later and may have their memory
  dirty,       \* history: a start reset the counter with slots in use
  carried,     \* history: a stop found frames in the transmit path
  rx_failed    \* history: a start could not fill the receive pool

txvars == <<tx_pending, tx_wait, tx_flight, pc, skb, fresh, freed>>
rxvars == <<rx_flight, rx_cb, rx_cleanup, rx_stuck, rx_queue, tasklet>>
session == <<status, unstarted>>
ctlvars == <<state, op, running, starts, wq, session>>
history == <<faulty, spoiled, dirty, carried, rx_failed>>
vars == <<ctlvars, txvars, rxvars, history>>

Init ==
  /\ state = "stop" /\ op = "idle" /\ running = FALSE /\ starts = 0
  /\ wq = "live" /\ status = "probing" /\ unstarted = FALSE
  /\ tx_pending = 0 /\ tx_wait = << >> /\ tx_flight = {}
  /\ pc = [c \in Ctx |-> "idle"] /\ skb = [c \in Ctx |-> NoFrame]
  /\ fresh = Frames /\ freed = [f \in Frames |-> 0]
  /\ rx_flight = 0 /\ rx_cb = FALSE /\ rx_cleanup = 0 /\ rx_stuck = FALSE
  /\ rx_queue = 0 /\ tasklet = FALSE
  /\ faulty = {} /\ spoiled = {}
  /\ dirty = FALSE /\ carried = FALSE /\ rx_failed = FALSE

Goto(c, place) == pc' = [pc EXCEPT ![c] = place]
Hold(c, f) == skb' = [skb EXCEPT ![c] = f]
Free(f) == freed' = [freed EXCEPT ![f] = @ + 1]

\* The frame meets an error.
Fails(f) == Cardinality(faulty) < MaxErrors /\ faulty' = faulty \cup {f}

\* Contexts between their atomic_inc and the point where the slot passes to
\* the URB or is given back.
Holding == {c \in Ctx : pc[c] \in {"get", "submit", "refree", "dec"}}
TxBusy == tx_wait # << >> \/ tx_flight # {} \/ \E c \in Ctx : pc[c] # "idle"

(***************************************************************************)
(* Entering the transmit path.                                             *)
(***************************************************************************)

\* A frame that enters after a double free has begun may be given the memory
\* that is freed next.
Enters(f) == spoiled' = IF spoiled = {} THEN {} ELSE spoiled \cup {f}

\* rtl_usb_transmit: the URB is allocated, or the skb is freed by
\* _rtl_usb_tx_urb_setup and once more by its caller.
Transmit(c, f) ==
  /\ Hold(c, f)
  /\ \/ /\ Goto(c, "anchor") /\ Enters(f)
        /\ UNCHANGED <<freed, faulty>>
     \/ /\ Goto(c, "refree_skb") /\ Free(f)
        /\ Fails(f) /\ spoiled' = spoiled \cup {f}

TransmitErrorAgain(c) ==
  /\ pc[c] = "refree_skb"
  /\ \E g \in spoiled : Free(g)
  /\ Hold(c, NoFrame) /\ Goto(c, "idle")
  /\ UNCHANGED <<ctlvars, rxvars, history, tx_pending, tx_wait, tx_flight, fresh>>

\* rtl_op_tx and rtl_usb_tx: frames are dropped while the device is stopped
\* or RTL_STATUS_INTERFACE_START is clear.
OpTx(c, f) ==
  /\ running /\ pc[c] = "idle" /\ f \in fresh \cap Data
  /\ fresh' = fresh \ {f}
  /\ IF state = "stop" \/ status # "start"
     THEN Free(f) /\ Enters(f) /\ UNCHANGED <<pc, skb, faulty>>
     ELSE Transmit(c, f)
  /\ UNCHANGED <<ctlvars, rxvars, tx_pending, tx_wait, tx_flight,
                 dirty, carried, rx_failed>>

\* rtl92su_cmd_send_packet: firmware code while the hardware is initialised,
\* commands while mac80211 believes it runs.  Neither state is looked at.
SendCmd(f) ==
  /\ op = "init" \/ (op = "idle" /\ running)
  /\ pc[Task] = "idle" /\ f \in fresh \cap Cmds
  /\ fresh' = fresh \ {f}
  /\ Transmit(Task, f)
  /\ UNCHANGED <<ctlvars, rxvars, tx_pending, tx_wait, tx_flight,
                 dirty, carried, rx_failed>>

\* usb_anchor_urb(&tx_wait)
Anchor(c) ==
  /\ pc[c] = "anchor"
  /\ tx_wait' = Append(tx_wait, skb[c])
  /\ Hold(c, NoFrame) /\ Goto(c, "inc")
  /\ UNCHANGED <<ctlvars, rxvars, history, tx_pending, tx_flight, fresh, freed>>

(***************************************************************************)
(* rtl_usb_tx_schedule                                                     *)
(***************************************************************************)
ScheduleInc(c) ==
  /\ pc[c] = "inc"
  /\ tx_pending' = tx_pending + 1
  /\ Goto(c, IF tx_pending + 1 > MaxTxUrbs THEN "dec" ELSE "get")
  /\ UNCHANGED <<ctlvars, rxvars, history, tx_wait, tx_flight, skb, fresh, freed>>

ScheduleGet(c) ==
  /\ pc[c] = "get"
  /\ IF tx_wait = << >>
     THEN Goto(c, "dec") /\ UNCHANGED <<tx_wait, skb>>
     ELSE /\ tx_wait' = Tail(tx_wait)
          /\ Hold(c, Head(tx_wait)) /\ Goto(c, "submit")
  /\ UNCHANGED <<ctlvars, rxvars, history, tx_pending, tx_flight, fresh, freed>>

ScheduleSubmit(c) ==
  /\ pc[c] = "submit"
  /\ tx_flight' = tx_flight \cup {skb[c]}
  /\ Hold(c, NoFrame) /\ Goto(c, "idle")
  /\ UNCHANGED <<ctlvars, rxvars, history, tx_pending, tx_wait, fresh, freed>>

\* usb_submit_urb fails: _rtl_submit_tx_urb frees the skb and the URB.
ScheduleSubmitError(c) ==
  /\ pc[c] = "submit"
  /\ Free(skb[c])
  /\ Fails(skb[c]) /\ spoiled' = spoiled \cup {skb[c]}
  /\ Goto(c, "refree")
  /\ UNCHANGED <<ctlvars, rxvars, tx_pending, tx_wait, tx_flight, skb, fresh,
                 dirty, carried, rx_failed>>

Without(q, i) == [j \in 1..Len(q) - 1 |-> IF j < i THEN q[j] ELSE q[j + 1]]

\* rtl_usb_tx_schedule takes the skb from the freed URB and frees it: its own
\* one again, or one that was given the memory; if the URB's memory is in
\* use again, that URB loses its anchor with it.
RefreeFrame ==
  \E g \in spoiled :
    /\ Free(g)
    /\ \/ UNCHANGED tx_wait
       \/ \E i \in 1..Len(tx_wait) :
            tx_wait[i] = g /\ tx_wait' = Without(tx_wait, i)

\* Mutant: the error path returns without err_acc.
ScheduleSubmitErrorAgain_KeepsSlot(c) ==
  /\ pc[c] = "refree"
  /\ RefreeFrame
  /\ Hold(c, NoFrame) /\ Goto(c, "idle")
  /\ UNCHANGED <<ctlvars, rxvars, history, tx_pending, tx_flight, fresh>>

ScheduleSubmitErrorAgain(c) ==
  /\ pc[c] = "refree"
  /\ RefreeFrame
  /\ Hold(c, NoFrame) /\ Goto(c, "dec")
  /\ UNCHANGED <<ctlvars, rxvars, history, tx_pending, tx_flight, fresh>>

ScheduleDec(c) ==
  /\ pc[c] = "dec"
  /\ tx_pending' = tx_pending - 1
  /\ Goto(c, "idle")
  /\ UNCHANGED <<ctlvars, rxvars, history, tx_wait, tx_flight, skb, fresh, freed>>

(***************************************************************************)
(* _rtl_tx_complete                                                        *)
(***************************************************************************)
TxComplete(c, f) ==
  /\ pc[c] = "idle" /\ f \in tx_flight
  /\ tx_flight' = tx_flight \ {f}
  /\ tx_pending' = tx_pending - 1
  /\ Hold(c, f) /\ Goto(c, "complete")
  /\ UNCHANGED <<ctlvars, rxvars, history, tx_wait, fresh, freed>>

\* Mutant: a completion after the stop forgets the skb.
TxCompleteEnd_StopLeaks(c) ==
  /\ pc[c] = "complete"
  /\ Hold(c, NoFrame)
  /\ IF skb[c] \in Data /\ state = "stop"
     THEN Goto(c, "idle") /\ UNCHANGED freed
     ELSE Goto(c, "inc") /\ Free(skb[c])
  /\ UNCHANGED <<ctlvars, rxvars, history, tx_pending, tx_wait, tx_flight, fresh>>

\* Mutant: a command is freed, and the queue left alone.
TxCompleteEnd_CmdReturns(c) ==
  /\ pc[c] = "complete"
  /\ Hold(c, NoFrame)
  /\ Free(skb[c])
  /\ Goto(c, IF skb[c] \in Cmds \/ state = "stop" THEN "idle" ELSE "inc")
  /\ UNCHANGED <<ctlvars, rxvars, history, tx_pending, tx_wait, tx_flight, fresh>>

\* A command is freed and the queue looked at, whatever the status.  A frame
\* of mac80211 is freed, and the queue left alone, if the device was
\* stopped; with an error it is neither freed nor reported; otherwise it
\* goes back to mac80211 and the queue is looked at.
TxCompleteEnd(c) ==
  /\ pc[c] = "complete"
  /\ Hold(c, NoFrame)
  /\ \/ skb[c] \in Cmds /\ Free(skb[c]) /\ Goto(c, "inc") /\ UNCHANGED faulty
     \/ /\ skb[c] \in Data /\ state = "stop"
        /\ Free(skb[c]) /\ Goto(c, "idle") /\ UNCHANGED faulty
     \/ /\ skb[c] \in Data /\ state = "start"
        /\ Free(skb[c]) /\ Goto(c, "inc") /\ UNCHANGED faulty
     \/ /\ skb[c] \in Data /\ state = "start"
        /\ Fails(skb[c])
        /\ Goto(c, "idle") /\ UNCHANGED freed
  /\ UNCHANGED <<ctlvars, rxvars, tx_pending, tx_wait, tx_flight, fresh,
                 spoiled, dirty, carried, rx_failed>>

(***************************************************************************)
(* Receive: _rtl_rx_completed and the tasklet _rtl_rx_work.                *)
(***************************************************************************)

\* A URB comes back.  A good one is copied to rx_queue if there is room and
\* memory, and will be resubmitted; a stop or a fatal status parks it on
\* rx_cleanup_urbs.
RxCompleted ==
  /\ rx_flight > 0 /\ ~rx_cb
  /\ rx_flight' = rx_flight - 1
  /\ \/ /\ rx_cleanup' = rx_cleanup + 1
        /\ UNCHANGED <<rx_cb, rx_queue, tasklet>>
     \/ /\ state = "start"
        /\ rx_cb' = TRUE
        /\ \/ /\ rx_queue < RxMaxQueued
              /\ rx_queue' = rx_queue + 1
              /\ tasklet' = TRUE
           \/ UNCHANGED <<rx_queue, tasklet>>
        /\ UNCHANGED rx_cleanup
  /\ UNCHANGED <<ctlvars, txvars, history, rx_stuck>>

Killing == op \in {"rx_kill", "stop_kill", "kill_rx"}

\* usb_kill_urb: the URB comes back with a fatal status.
RxKillOne ==
  /\ Killing /\ rx_flight > 0
  /\ rx_flight' = rx_flight - 1 /\ rx_cleanup' = rx_cleanup + 1
  /\ UNCHANGED <<ctlvars, txvars, history, rx_cb, rx_stuck, rx_queue, tasklet>>

\* usb_submit_urb; a URB that is refused is parked as well.
RxResubmit ==
  /\ rx_cb
  /\ rx_cb' = FALSE
  /\ \/ rx_flight' = rx_flight + 1 /\ UNCHANGED rx_cleanup
     \/ rx_cleanup' = rx_cleanup + 1 /\ UNCHANGED rx_flight
  /\ UNCHANGED <<ctlvars, txvars, history, rx_stuck, rx_queue, tasklet>>

\* skb_dequeue: the frame goes to ieee80211_rx, or is dropped if the device
\* was stopped; nothing else of the driver is touched.
RxWork ==
  /\ tasklet
  /\ IF rx_queue = 0
     THEN tasklet' = FALSE /\ UNCHANGED rx_queue
     ELSE rx_queue' = rx_queue - 1 /\ UNCHANGED tasklet
  /\ UNCHANGED <<ctlvars, txvars, history, rx_flight, rx_cb, rx_cleanup, rx_stuck>>

(***************************************************************************)
(* rtl_op_start and rtl_usb_start                                          *)
(***************************************************************************)

\* ieee80211_register_hw is over: the probe sets RTL_STATUS_INTERFACE_START.
ProbeEnds ==
  /\ status = "probing"
  /\ status' = "start"
  /\ UNCHANGED <<state, op, running, starts, wq, unstarted, txvars, rxvars, history>>

\* A device that was not stopped counts as started, and so does a stopped one
\* as long as RTL_STATUS_INTERFACE_START is clear.
OpStart ==
  /\ op = "idle" /\ ~running /\ starts < MaxStarts
  /\ starts' = starts + 1
  /\ IF state = "stop" /\ status = "start"
     THEN op' = "init" /\ UNCHANGED <<running, unstarted>>
     ELSE running' = TRUE /\ unstarted' = (state = "stop") /\ UNCHANGED op
  /\ UNCHANGED <<state, wq, status, txvars, rxvars, history>>

\* hw_init fails.
InitFails ==
  /\ op = "init" /\ pc[Task] = "idle"
  /\ op' = "idle"
  /\ UNCHANGED <<state, running, starts, wq, session, txvars, rxvars, history>>

\* hw_init succeeded: atomic_set(&tx_pending_urbs, 0).
ResetPending ==
  /\ op = "init" /\ pc[Task] = "idle"
  /\ tx_pending' = 0
  /\ dirty' = (dirty \/ tx_flight # {} \/ Holding # {})
  /\ op' = "set_start"
  /\ UNCHANGED <<state, running, starts, wq, session, rxvars, faulty,
                 spoiled, carried, rx_failed, tx_wait, tx_flight, pc, skb,
                 fresh, freed>>

SetStart ==
  /\ op = "set_start"
  /\ state' = "start"
  /\ op' = "receive"
  /\ UNCHANGED <<running, starts, wq, session, txvars, rxvars, history>>

\* URBs that the driver has allocated.
RxMade == rx_flight + (IF rx_cb THEN 1 ELSE 0) + rx_cleanup

\* One turn of the loop of _rtl_usb_receive.
ReceiveOne ==
  /\ op = "receive" /\ RxMade < RxUrbNum
  /\ rx_flight' = rx_flight + 1
  /\ UNCHANGED <<ctlvars, txvars, history, rx_cb, rx_cleanup, rx_stuck,
                 rx_queue, tasklet>>

\* No memory for a URB or its buffer; or usb_submit_urb fails and leaves the
\* URB on the anchor rx_submitted.
ReceiveFails ==
  /\ op = "receive" /\ RxMade < RxUrbNum
  /\ rx_stuck' \in BOOLEAN
  /\ rx_failed' = TRUE
  /\ op' = "rx_kill"
  /\ UNCHANGED <<state, running, starts, wq, session, txvars, faulty,
                 spoiled, dirty, carried, rx_flight, rx_cb, rx_cleanup,
                 rx_queue, tasklet>>

Use(w) == IF w = "live" THEN "live" ELSE "misused"
Destroy(w) == IF w = "live" THEN "destroyed" ELSE "misused"

\* The pool is complete; the watchdog is queued on rtl_wq.
Started ==
  /\ op = "receive" /\ RxMade = RxUrbNum
  /\ op' = "idle" /\ running' = TRUE
  /\ wq' = Use(wq)
  /\ UNCHANGED <<state, starts, session, txvars, rxvars, history>>

(***************************************************************************)
(* usb_kill_anchored_urbs(&rx_submitted) (external) returns when the       *)
(* anchor is empty: every URB was given back and its callback is over.  A  *)
(* URB that was never submitted is never given back.  tasklet_kill, which  *)
(* follows it everywhere, waits until a scheduled tasklet has run.         *)
(***************************************************************************)
RxKilled == rx_flight = 0 /\ ~rx_cb /\ ~rx_stuck /\ ~tasklet

\* Mutant: the parked URBs are forgotten.
PurgeRx_KeepsUrbs ==
  /\ rx_queue' = 0
  /\ UNCHANGED <<rx_flight, rx_cb, rx_cleanup, rx_stuck, tasklet>>

\* skb_queue_purge and the release of the parked URBs.
PurgeRx ==
  /\ rx_queue' = 0 /\ rx_cleanup' = 0
  /\ UNCHANGED <<rx_flight, rx_cb, rx_stuck, tasklet>>

\* _rtl_usb_cleanup_rx, at the end of a start that failed: rtl_wq goes too,
\* and rtl_usb_start returns with the state left at START.
CleanupRx ==
  /\ op = "rx_kill" /\ RxKilled
  /\ wq' = Destroy(wq)
  /\ PurgeRx
  /\ op' = "idle"
  /\ UNCHANGED <<state, running, starts, session, txvars, history>>

(***************************************************************************)
(* rtl_op_stop and rtl_usb_stop: nothing is done about the transmit path.  *)
(***************************************************************************)
OpStop ==
  /\ op = "idle" /\ running /\ \A c \in Senders \cup {Task} : pc[c] = "idle"
  /\ running' = FALSE /\ unstarted' = FALSE
  /\ IF state = "stop"
     THEN UNCHANGED <<op, state, carried>>
     ELSE op' = "stop_kill" /\ state' = "stop" /\ carried' = (carried \/ TxBusy)
  /\ UNCHANGED <<starts, wq, status, txvars, rxvars, faulty, spoiled, dirty,
                 rx_failed>>

\* Mutant: the stop polls until the transmit queue is empty.
StopEnd_WaitsForTx ==
  /\ op = "stop_kill" /\ RxKilled
  /\ IF TxBusy THEN UNCHANGED <<op, wq, rxvars>>
               ELSE op' = "idle" /\ wq' = Use(wq) /\ PurgeRx
  /\ UNCHANGED <<state, running, starts, session, txvars, history>>

StopEnd ==
  /\ op = "stop_kill" /\ RxKilled
  /\ wq' = Use(wq)
  /\ PurgeRx
  /\ op' = "idle"
  /\ UNCHANGED <<state, running, starts, session, txvars, history>>

(***************************************************************************)
(* rtl_usb_disconnect: RTL_STATUS_INTERFACE_START is cleared, mac80211     *)
(* stops the device on the way out, then rtl_usb_cleanup.                  *)
(***************************************************************************)
DisconnectBegins ==
  /\ status = "start"
  /\ status' = "removed"
  /\ UNCHANGED <<state, op, running, starts, wq, unstarted, txvars, rxvars, history>>

Disconnect ==
  /\ status = "removed" /\ op = "idle" /\ ~running
  /\ op' = "kill_rx"
  /\ UNCHANGED <<state, running, starts, wq, session, txvars, rxvars, history>>

CleanupRxLast ==
  /\ op = "kill_rx" /\ RxKilled
  /\ wq' = Destroy(wq)
  /\ PurgeRx
  /\ op' = "kill_tx"
  /\ UNCHANGED <<state, running, starts, session, txvars, history>>

Queued(f) == \E i \in 1..Len(tx_wait) : tx_wait[i] = f

\* usb_kill_anchored_urbs(&tx_submitted), which does not wait for a URB that
\* lost its anchor, then the frames still waiting.
DrainTx ==
  /\ op = "kill_tx"
  /\ tx_flight \subseteq spoiled /\ \A c \in Giveback : pc[c] = "idle"
  /\ freed' = [f \in Frames |-> IF Queued(f) THEN freed[f] + 1 ELSE freed[f]]
  /\ tx_wait' = << >>
  /\ op' = "gone"
  /\ UNCHANGED <<state, running, starts, wq, session, tx_pending, tx_flight, pc,
                 skb, fresh, rxvars, history>>

\* The driver instance is gone, or usb_kill_anchored_urbs spins.
Gone == op = "gone" /\ UNCHANGED vars
KillSpins == op = "rx_kill" /\ rx_stuck /\ UNCHANGED vars

Schedule(c) ==
  \/ Anchor(c) \/ ScheduleInc(c) \/ ScheduleGet(c) \/ ScheduleSubmit(c)
  \/ TransmitErrorAgain(c) \/ ScheduleSubmitError(c)
  \/ ScheduleSubmitErrorAgain(c) \/ ScheduleDec(c) \/ TxCompleteEnd(c)

\* The steps the task takes on its own once it has begun.
TaskStep ==
  \/ InitFails \/ ResetPending \/ SetStart
  \/ ReceiveOne \/ ReceiveFails \/ Started
  \/ CleanupRx \/ StopEnd \/ CleanupRxLast \/ DrainTx

Next ==
  \/ \E c \in Senders, f \in Data : OpTx(c, f)
  \/ \E f \in Cmds : SendCmd(f)
  \/ \E c \in Giveback, f \in Frames : TxComplete(c, f)
  \/ \E c \in Ctx : Schedule(c)
  \/ RxCompleted \/ RxKillOne \/ RxResubmit \/ RxWork
  \/ ProbeEnds \/ DisconnectBegins
  \/ OpStart \/ OpStop \/ Disconnect \/ TaskStep
  \/ Gone \/ KillSpins

Spec == Init /\ [][Next]_vars

(***************************************************************************)
(* Fairness: code that was entered runs on, the host controller gives back *)
(* every transmit URB, and every receive URB that is being killed (strong  *)
(* fairness: the URB may be on its way through the callback when its turn  *)
(* comes, and usb_kill_urb refuses its resubmission from then on).         *)
(***************************************************************************)
Fairness ==
  /\ \A c \in Ctx : WF_vars(Schedule(c))
  /\ WF_vars(\E c \in Giveback, f \in Frames : TxComplete(c, f))
  /\ SF_vars(RxKillOne)
  /\ WF_vars(RxResubmit) /\ WF_vars(RxWork)
  /\ WF_vars(TaskStep)

FairSpec == Spec /\ Fairness

-----------------------------------------------------------------------------
(***************************************************************************)
(* Properties                                                              *)
(***************************************************************************)

Places == {"idle", "anchor", "inc", "get", "submit", "dec", "complete",
           "refree", "refree_skb"}

TypeOK ==
  /\ state \in {"start", "stop"} /\ running \in BOOLEAN /\ starts \in 0..MaxStarts
  /\ op \in {"idle", "init", "set_start", "receive", "rx_kill",
            "stop_kill", "kill_rx", "kill_tx", "gone"}
  /\ wq \in {"live", "destroyed", "misused"}
  /\ status \in {"probing", "start", "removed"} /\ unstarted \in BOOLEAN
  /\ tx_pending \in Int /\ tx_wait \in Seq(Frames) /\ tx_flight \subseteq Frames
  /\ pc \in [Ctx -> Places]
  /\ skb \in [Ctx -> Frames \cup {NoFrame}]
  /\ fresh \subseteq Frames /\ freed \in [Frames -> Nat]
  /\ rx_flight \in 0..RxUrbNum /\ rx_cleanup \in 0..RxUrbNum
  /\ rx_queue \in 0..RxMaxQueued /\ rx_cb \in BOOLEAN /\ rx_stuck \in BOOLEAN
  /\ tasklet \in BOOLEAN
  /\ faulty \subseteq Frames /\ spoiled \subseteq Frames
  /\ dirty \in BOOLEAN /\ carried \in BOOLEAN /\ rx_failed \in BOOLEAN

InHand(f) == {c \in Ctx : skb[c] = f}
InQueue(f) == {i \in 1..Len(tx_wait) : tx_wait[i] = f}

\* An error costs the frame it hits and no other, as long as no double free
\* has begun when the frame enters: every such skb has exactly one owner or
\* was freed exactly once, through any number of stops and starts and
\* whatever is freed twice meanwhile, and after rtl_usb_disconnect none is
\* left.
OwnedOnce ==
  \A f \in Frames \ (faulty \cup spoiled) :
    /\ Cardinality(InQueue(f)) + Cardinality(InHand(f)) + freed[f]
         + Cardinality({f} \cap tx_flight) + Cardinality({f} \cap fresh) = 1
    /\ op = "gone" /\ f \notin fresh => freed[f] = 1

\* tx_pending_urbs is exact, unless rtl_usb_start has reset it under URBs
\* that firmware download or an earlier session had left in flight; then it
\* is too low for good and the window too wide.
CounterExact ==
  ~dirty => tx_pending = Cardinality(tx_flight) + Cardinality(Holding)

\* Whatever rtl_usb_tx_schedule was given goes out and completes, firmware
\* code during hw_init included: the transmit path drains, which with finitely
\* many frames is the fate of each of them.  Not so once a transfer failed
\* (_rtl_tx_complete then returns without looking at the queue) or a stop left
\* frames behind (their completion does the same).
QueuedIsSent == TxBusy ~> (~TxBusy \/ faulty # {} \/ carried)

\* Between sessions the receiver is still: rtl_usb_stop leaves no URB, no
\* skb and no tasklet behind.  In a session every receive URB is accounted
\* for, unless rtl_op_start only pretended: a start had failed before, and
\* the state that failure left is taken for a device that runs, or
\* RTL_STATUS_INTERFACE_START was clear.
RxPoolMatches ==
  op = "idle" =>
    IF running THEN RxMade = RxUrbNum \/ rx_failed \/ unstarted
               ELSE RxMade = 0 /\ rx_queue = 0 /\ tasklet = FALSE

\* Start, stop and disconnect return, unless _rtl_usb_receive could not
\* submit a URB and waits for it to come back.
TaskReturns == (op # "idle") ~> (op \in {"idle", "gone"} \/ rx_stuck)

=============================================================================
