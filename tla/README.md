# TLA+ models of the RTL8192SU drivers

The repository holds two Linux drivers for the Realtek RTL8188SU, RTL8191SU
and RTL8192SU USB wireless adapters.

* `r92su/` (`Makefile.r92su`) is the author's own "FullMAC" driver: the
  adapter's firmware scans, associates and does rate control, and the driver
  translates between cfg80211, the network stack and the firmware.
* `rtlwifi/` is what the default `Makefile` builds: the kernel's rtlwifi
  framework (`core.c`, `base.c`, `ps.c`, `usb.c`, `pci.c`) with the chips
  `rtl8192s` (common part), `rtl8192su` and `rtl8192se`; here mac80211 scans
  and associates, and the driver runs the chip.

This directory models the drivers' own control logic, model-checks it with TLC
and proves its safety properties with TLAPS: nearly all of r92su, and of rtlwifi
the two parts in which several contexts meet, the USB glue and the radio's power
saving. `staging/` holds vendor drivers and is left aside (section 8).

## 1. Inventory

### Contexts

Everything that is hard in these drivers comes from the contexts their code
runs in. In r92su:

| context | runs | locks |
|---|---|---|
| user | cfg80211 and netdev operations, probe and disconnect | RTNL; most take `r92su->lock` |
| worker | `survey_done_work`, `add_bss_work`, `connect_bss_work`, `disconnect_work`, on a single threaded queue | `r92su->lock` in part |
| service | `service_work`, every two seconds on a system queue | `r92su->lock` |
| irq | completion of USB transfers: firmware events (C2H), `r92su_mark_dead`, the transmit callback | none |
| tasklet, timers | receive path, release timers of the reorder buffers | `rx_path`, `tid->lock`, RCU |
| senders | `r92su_start_xmit`, one per transmit queue | RCU only |

`r92su->state` (DEAD < UNLOAD < PROBE < STOP < INIT < OPEN < CONNECTED) is
written by the user and worker contexts under the mutex and by irq under none.

In rtlwifi, mac80211 calls start, stop, config and the rest one at a time (and
transmit from any sender); beside it run the delayed works `ips_nic_off_wq`,
`ps_work` and `ps_rfon_wq` on the unordered `rtl_wq`, the completions of USB
transfers and the receive tasklet. The radio's state is serialised by the flag
`rfchange_inprogress`, the transmit window by an atomic counter.

### Components

| component | state | operations | talks to | what makes it correct |
|---|---|---|---|---|
| USB transfer engine (`usb.c`) | `tx_wait`, `tx_submitted`, `tx_pending_urbs`, the receive URBs | `r92su_usb_tx`, `r92su_tx_schedule`, callbacks, disconnect | everyone above; the host controller | window exact and bounded, no lost wake-up, one owner per frame, clean teardown |
| scan (`main.c`, `event.c`) | `scan_request`, `scan_done`, `add_bss_list`, the delayed work | scan, internal scan, survey events, works | cfg80211, firmware, connect | every scan answered once, waiters wake up, nothing left after stop |
| connection (`main.c`, `event.c`) | `want_connect_bss`, `connect_bss`, `connect_result`, `assoc_ie` | connect, join_ibss, disconnect, join and del_sta events | cfg80211, firmware, station table, keys | driver and cfg80211 agree; CONNECTED has a network |
| bring-up (`main.c`, `fw.c`, `hw.c`, `pwr.c`) | `fw`, `fw_dmem`, `rpwm_tog`; the chip | open, upload, polls, boot, stop | chip, USB engine | open means booted by this call; no foreign blocks in the image |
| reordering (`rx.c`) | `head_seq`, `reorder_buf`, `len`, timer | frame, release, timer, free | tasklet, timer, RCU | in order, nothing forgotten or overwritten |
| receive path (`rx.c`) | `rx_seq`, the key's `rx_seq`, defragmentation queues | dedup, replay check, decrypt, defrag, deliver | stations, keys | every MSDU once, whole |
| transmit path (`tx.c`) | the key's `tx_seq` | key selection, IV, encryption | stations, keys, USB engine | nothing in the clear, counters unique and increasing |
| station table (`sta.c`) | `sta_list`, `sta_num` | alloc, delete, lookup | events, connection, data path | unique ids, no use after free |
| keys (`main.c`, `sta.c`) | `sta_key`, `group_key[]`, `uploaded`; the firmware's keys | add, delete, connect, leave | firmware, data path | no use after free, agreement with the firmware, no leak |
| commands and events (`cmd.c`, `event.c`) | 7-bit sequence numbers | send, dispatch | all of the above | see section 8 |
| ciphers, eeprom, debugfs, tracing | | | | not modelled, section 8 |
| rtlwifi USB glue (`usb.c`) | `state`, `tx_pending_urbs`, anchors `tx_wait`, `tx_submitted`, `rx_submitted`, `rx_cleanup_urbs`, `rx_queue`, `rtl_wq` | start, stop, disconnect, transmit, completions, tasklet | mac80211, the chip's firmware download, the host controller | a frame without errors has one owner, counter exact, pool whole in a session and gone after it, calls return |
| rtlwifi power save (`ps.c`, `core.c`, `pci.c`, `rtl8192se/hw.c`) | `rfpwr_state`, `rfoff_reason`, `rfchange_inprogress`, `swrf_processing`, `link_state`, `sw_ps_enabled`, three works | nic_on, nic_off, sleep, wake, config, scan, set_key, stop | mac80211, the chip | state agrees with reasons and chip, a busy interface has a radio, sleeps end |
| rtlwifi: rings, CAM, rate control, chips, coexistence | | | | not modelled, section 8 |

The hazards this code is exposed to, each with its line and the properties
aimed at it, are listed in `PROJECT.json`.

## 2. Modules

Every module has its state as variables, one action per operation or per step
another context can get between, and its properties at the end. Operators
named `X_Something` in front of an operator `X` are mutants: plausible bugs of
`X`, used only to show that the properties notice them. `MCx` modules add what
TLC needs (symmetry sets). `XProofs` holds the theorems about `X` and, in its
second part, those about a module that has no proof module of its own and is
instantiated there (section 4). Such a module keeps its variables and its safety
properties in a module `XState`, which the proofs extend too, so that a theorem
names the definition that TLC checks.

* **UsbTx** (UsbTxProofs): `usb.c`. `tx_wait` is the anchor of waiting
  URBs, `tx_flight` the anchor `tx_submitted`, `tx_pending` the atomic counter.
  A context's `pc` is its place in `r92su_usb_tx`, `r92su_tx_schedule` or
  `r92su_tx_usb_cb`, `skb` the frame in its hand. Each atomic operation is a
  step. `disc` follows `r92su_usb_disconnect`.
* **TxWindow** (UsbTxProofs): what a transmit path promises, in four
  variables: frames only go from waiting to out to done, at most `Max` are out,
  and none is thrown away while the path is open. UsbTx maps onto it (`TW`):
  frames in `tx_wait`, and in the hand of a context on its way there or from
  there to the bus, are waiting; `tx_flight` is out; freed frames are done.
* **Scan** (ScanProofs): the survey machinery. User, worker, irq and service contexts; the
  work queue is a FIFO in which a pending work occurs once; `timer` is the
  delay of `survey_done_work`. `r92su_open` is split where irq can get between
  its test and its assignment of the state.
* **Join**, **JoinState** (KeysProofs, second part): the life of a connection for
  station, IBSS and monitor interfaces.
  `sme` is cfg80211's view. Pointers are `"null"`, valid or `"freed"`, because
  `r92su_bss_priv` lives in cfg80211's entry and outlives an attempt.
* **RxReorder** (RxReorderProofs): one TID. The tasklet and the timer run the code under
  `tid->lock` step by step, one loop iteration per action. `late` abstracts
  `reorder_time`: the slots whose 100 ms are over.
* **RxPath**, **RxPathState** (StaTableProofs, second part): the handlers of
  `r92su_rx_data` for frames outside an aggregate, each decrypted by the host or
  already by the hardware, which then looks at no key. A peer fragments, repeats and rekeys; the medium and the memory
  allocator lose frames. One frame is one step, as in the code under `rx_path`.
* **TxPath** (TxPathProofs): `r92su_tx` for each transmit queue, split where the key
  is chosen and where the counter is read and stored, beside `r92su_add_key`,
  `r92su_del_key` and `r92su_set_default_key`, of which the first two are split
  between the firmware's command and the slot: `fw` is what the firmware has,
  `uploaded` what the driver believes. Bytes are digits of a small base, so the
  packing of the counter into the IV and the receiver's unpacking are the
  code's own.
* **StaTable** (StaTableProofs): allocation, deletion and RCU. Three contexts
  write: the firmware's events (`irq`), the holder of `r92su->lock` (`proc`) and
  the end of the connect work, which runs without the lock (`work`). A grace
  period is the set of contexts still to leave their read-side section. The
  model ends where a station is unlinked a second time: what the list and the
  rcu head are after that is undefined.
* **Keys** (KeysProofs): slots, life of the key objects, the firmware's copies and
  readers. `r92su_del_key` is two steps, before and after its command;
  `r92su_add_key` is one (its two halves are in TxPath, where a frame can get
  between them). Left out: the station that disappears during the command
  (`main.c:1001`), after which a key already found is freed by two parties.
* **Bringup** (BringupProofs): `r92su_open` from the firmware file to R92SU_OPEN,
  block by block and poll by poll; a part of the image is queued in `Blocks`
  blocks, and an error may leave the first of them queued. Chip and USB bus
  are an environment that fails.
* **RtlUsb** (RtlUsbProofs): `rtlwifi/usb.c` with the calls of `core.c` that reach it. `op`
  is the task's place in start, stop or disconnect, `running` what mac80211
  believes; the transmit path is stepped like UsbTx's, with firmware code and
  commands in the same queue; receive URBs are counted by where they are.
  Memory and submission may fail everywhere. Two error paths free an skb, let
  go of the context and free it again (`usb.c:847` and `888`, `936` and `960`):
  the second free is a step of its own and hits the frame itself or any frame
  that entered after the first (`spoiled`), whose memory may be the same, and at
  `888` may take that frame's URB off its anchor. Nothing else is said of what a
  use after free does: the counter, the lists and the code of other contexts
  stay intact. `status` is RTL_STATUS_INTERFACE_START, which mac80211 does not
  wait for; `unstarted` is a session that `rtl_op_start` only pretended to begin.
  `faulty`, `dirty`, `carried`, `rx_failed` and `rx_stuck` remember the other
  departures of section 6.
* **RtlPs**, **RtlPsState** (RtlUsbProofs, second part): IPS and software LPS.
  `stage_of` is a thread's place in
  `rtl_ps_set_rf_state` and the chip's `set_rf_power_state`, `call` what the
  stack's call still has to do, `pend` the queued works, `mlme` mac80211's own
  view of the link. `reason` is the bit set `rfoff_reason`; the comparison
  `rfoff_reason <= RF_CHANGE_BY_IPS` is the inclusion in `{"IPS"}`, because
  RF_CHANGE_BY_PS is the larger bit. Whether a scan visited three channels, and
  so sets `p2p_in_use`, is a free choice. The rfkill poll takes the flag as well;
  on a halted adapter it powers the chip up and down again, which lasts longer
  than the others wait, so that a waiter may give up (`PollHolds`). It runs under
  `conf_mutex`, as most of mac80211's calls do, which therefore do not meet it.

The components are composed through what they share. Handlers that touch two
components (`r92su_stop`, `r92su_open`, `r92su_unregister`, del_sta) appear in
each module restricted to its variables, and their comments say so; every
module lets the others' steps happen at any point that the locks permit
(`r92su_mark_dead`, for instance, is an action in Scan, Join and Bringup).

## 3. Runs

One run per module checks all its safety and liveness properties together;
RtlUsb has a second one, without errors, for the one property that no error may
precede, and one run is expected to be violated (✗, section 6). States are distinct
states.

| run | configuration | checks | states |
|---|---|---|---|
| `usbtx` | `UsbTx.cfg` | `Accounting` `NoStall` `OneOwner`; `ImplementsTxWindow` `TakenIsDone` `DisconnectEnds` | 71,790 |
| `scan` | `Scan.cfg` | `ScanPaired` `NoLostScan` `NoStrandedBss`; `ScanEnds` `WaitEnds` | 45,943 |
| `scan_stop_race` ✗ | `Scan_stop_race.cfg` | `NoSurveyAfterStop` | |
| `join` | `Join.cfg` | `ConnectedHasBss` `DisconnectHasReason`; `AcceptedJoinReported` | 140,892 |
| `rx_reorder` | `RxReorder.cfg` | `WindowHolds` `NoFrameForgotten` `InOrder`; `BufferedIsReleased` | 87,708 |
| `rx_path` | `RxPath.cfg` | `AtMostOnce` `NothingDropped` | 1,101,073 |
| `sta_table` | `StaTable.cfg` | `UniqueMacId` `NoUseAfterFree` | 2,440,287 |
| `keys` | `Keys.cfg` | `KeyUnderRcu` `UploadedIsInFirmware` `LiveIsOwned` | 213,616 |
| `bringup` | `Bringup.cfg` | `OpenIsBooted` `ImageIntact`; `OpenEnds` | 500,191 |
| `tx_path` | `TxPath.cfg` | `NoPlaintext` `PnFresh` `DecodesToPn` | 2,566,538 |
| `rtl_usb` | `RtlUsb.cfg` | `OwnedOnce` `CounterExact` `RxPoolMatches`; `QueuedIsSent` `TaskReturns` | 398,520 |
| `rtl_ps` | `RtlPs.cfg` | `RadioMatches` `WorkKeepsRadio`; `SleepEnds` `IdleGoesOff` | 261,562 |

Every module has a type invariant `TypeOK`. No run lists it: it is proved for
every module of section 4, of RxPath without the upper bound on `size`, which
holds in the run's instance. UsbTx's `WindowBound`, `RxPoolIntact`
and `CleanTeardown` are proved and therefore left out of its run too. What each
run shows, in a sentence, is in `PROJECT.json` ("about").

Some properties hold only while one thing has not happened. The model lets it
happen, a variable remembers it, and the property says so:

| property | not after | variable | because of |
|---|---|---|---|
| `DisconnectHasReason`, the station in `ConnectedHasBss` | a connect asked for during a join | `retried` | `main.c:499`, `main.c:830` |
| `KeyUnderRcu` | a refused upload of a key | `refused` | `main.c:417` |
| `NoPlaintext` | (the frames of that key excepted) a key left the firmware under a frame | `late` | `tx.c:578` |
| `PnFresh` `DecodesToPn` | two queues using the counter of a key at a time | `raced` | `tx.c:218` |
| `UniqueMacId` | two contexts allocated one id at a time | `overlap` | `sta.c:148`, `event.c:111` |
| `NoUseAfterFree`, of `bss_priv->sta` | a join ended during a connection; the firmware named BSS_MACID | `rejoined`, `fw_bss` | `main.c:759`, `830`; `event.c:111` |
| `AtMostOnce` | the hardware handed up a frame of a replaced key | `stray` | `rx.c:538` |
| `NothingDropped` | a frame lost or a key changed; fragmented CCMP; (its MSDU excepted) a frame with the first number of a new station or key | `medium`, `Spoiled` | `rx.c:763`, `286`, `421` |
| `OwnedOnce` | (the frames excepted) an error of that frame; a double free had begun when it entered | `faulty`, `spoiled` | `rtlwifi/usb.c:888`, `918`, `960` |
| `CounterExact` | a start reset the counter under transfers | `dirty` | `rtlwifi/usb.c:734` |
| `QueuedIsSent` | an error, or a stop with frames queued | `faulty`, `carried` | `rtlwifi/usb.c:918`, `816` |
| `RxPoolMatches`, `TaskReturns` | a start that could not fill the receive pool | `rx_failed`, `rx_stuck` | `rtlwifi/usb.c:712`, `721` |
| `RxPoolMatches` | (that session excepted) a start while RTL_STATUS_INTERFACE_START was clear | `unstarted` | `rtlwifi/core.c:190` |
| `RadioMatches` | the flag taken by force; `hw_init` failed ten times | `broken` | `rtlwifi/pci.c:1858`, `rtl8192se/hw.c:1345` |
| `WorkKeepsRadio` | nic_on during a running nic_off work | `raced` | `rtlwifi/ps.c:290` |
| `IdleGoesOff` | (while it lasts) a scan of three channels | `p2p` | `rtlwifi/core.c:1500`, `ps.c:220` |
| `WorkKeepsRadio` `SleepEnds` | a sleep carried out after PS mode was left, or met by a scan | `slept` | `rtlwifi/ps.c:573`, `626` |

`Keys.cfg` looks at hardware encryption only; with `nohwcrypt = "yes"`
`KeyUnderRcu` fails (section 6).

### Bounds

* UsbTx: a sender and a completion context, a window of two and four frames:
  the window fills, and a sender is rejected while the completion gives its
  slot back. Two senders with a window of three were checked once as well. The
  proofs remove these bounds, here and in the other modules of section 4.
* Scan: two unconsumed completions and two list entries, so that a stale
  completion can meet a new wait and a work can find more than one entry.
* RxReorder: twelve sequence numbers, a window of three, a session that runs
  from frame eight to frame fourteen: frames cross the wrap, jump ahead of
  the window and come back late. `Size` divides `Mod` and `Mod` is at least
  four windows, as in the code (32 and 4096).
* RxPath: up to three fragments, three MSDUs over two sequence numbers (so that
  numbers repeat), two keys. The peer's first sequence number is any, and its
  packet numbers start at `FirstIv` = 1, so that a first frame with sequence
  control 0 and a TKIP frame with TSC 1 occur, both of which the code drops.
  The proofs ask for two sequence numbers at least.
* TxPath: two queues, two frames, two keys, two slots for group keys and one for
  the pairwise key; digits of base 2, so that carries between the bytes of a
  counter, the wrap of a WEP counter (`WepStarts`: it starts at nought, just
  before a weak vector or at its last value) and the weak vectors are all reached. The
  proofs need no base, no number and no particular starts; `WrapAssumption`
  keeps 48 bit counters from wrapping.
* StaTable and Keys: three stations and four keys, so that an object can be
  replaced while an older one still waits for its grace period. The firmware
  names an ordinary id, BSS_MACID itself and one that is not below `MAX_STA`.
* RtlUsb: the task that starts, stops and sends, and one completion context,
  share a window of two; two frames and a command overfill it; the interface
  comes up `MaxStarts` = 2 times, the least for which a session can meet what
  the last one left behind. One receive URB and one place in `rx_queue`, so
  that the queue is full as soon as it is not empty. `MaxErrors` = 1: one frame
  meets an error, and its second free may hit either of the others.
  (`MaxErrors` = 3, with which every frame may meet one, was checked once:
  551,642 distinct states, no violation. The proofs need no bound.)
* RtlPs: one station interface. `MaxRaces` = 1: after two of the three kinds of
  race named above, mac80211 makes no further call (what is under way ends), so
  that every race is followed by every call but pairs of races are not.
  (`MaxRaces` = 3, which bounds nothing, was checked once for the safety
  properties: 4,070,726 distinct states, no violation.)
* Bringup: two polls per wait, two blocks for each large part of the image and
  two opens, the least for which an abandoned open can disturb another one.

### Deadlock

The two USB engines and the receive path are checked for deadlock (RtlUsb ends
in one of two states that may repeat for ever: the driver gone, or
`usb_kill_anchored_urbs` spinning). The other
configurations switch it off because the system may really stop: the driver is
unloaded or the session ended (RxReorder, Scan, Join, Bringup), mac80211 makes
no further call (RtlPs), a station was unlinked twice (StaTable), or every
object or frame of the bound is used up (StaTable, Keys, TxPath, Bringup). In
Scan there is one more such state, a genuine one: after the device died, a
connect asleep in `r92su_internal_scan` holds the RTNL for ever and unplugging
waits for it (hazard at `main.c:462`).

### Fairness

Liveness is checked under what the kernel guarantees and nothing of the
firmware: a queued work is started and, being the only thread of its queue,
finishes; a timer that is armed fires; a handler that has begun ends; a
transfer given to the host controller comes back (it is cancelled at the
latest when it is poisoned). Strong fairness is assumed where a context waits
for a lock others take again and again: `survey_done_work` for `r92su->lock`,
the reorder timer for `tid->lock`, and rtlwifi's `ps_work` and `ps_rfon_wq` for
`lps_lock` and the flag, all of which the kernel grants eventually (its spin
locks are fair). In RtlUsb the step of `usb_kill_urb` is strongly fair: a URB
on its way through its callback cannot be resubmitted for ever while it is
being killed. No fairness is given to the user, the peer, the firmware or the
chip: scans end without an answer and opens end although no poll succeeds.

## 4. Proofs

Eight modules prove theorems about the eleven system modules for every value of
their constants: 33 listed results, among them every safety property that a
passing run checks, the refinement of TxWindow and an action property. They
have the same layout. The inductive invariant (`IInv`, or the name given below)
is the conjunction of the types, the properties and what they need to be
inductive; there is one lemma for what an action, or a group of them, does to
it, or one for each conjunct, with one step per action; the theorems follow
from `Spec => []IInv`. TLC checked every inductive invariant on the instance of
the module's run (those of RtlPs with `MaxRaces` = 3, in 4,070,726 states).

A module that `XProofs` does not extend is instantiated, over the variables of
its state module, which it does extend: the theorems about Join are stated of
`J!Spec` (KeysProofs), those about RxPath of `P!Spec` (StaTableProofs), those
about RtlPs of `Ps!Spec` (RtlUsbProofs), and the properties they conclude are
those of JoinState, RxPathState and RtlPsState. They share nothing with the module that hosts
them, and the host's assumptions are not used. What RxPath assumes of its
constants (`ConstantsOK`) is a hypothesis of the theorems.

| module | theorems | assumptions on the constants |
|---|---|---|
| UsbTxProofs | `WindowAccounting` `WindowIsBounded` `NoLostWakeup` `SkbOwnership` `RxPool` `Teardown` `Refinement` | finitely many frames and contexts, a window with a slot for every context |
| ScanProofs | `ScanAnsweredOnce` `ScanNotLost` `BssNotStranded` | bounds not zero |
| RxReorderProofs | `WindowAlwaysHolds` `FramesAttended` `FramesInOrder` | the window divides the sequence space, at least four times |
| TxPathProofs | `NothingInTheClear` `CountersAreFresh` `VectorsDecode` | finitely many queues, a slot for group keys, fewer frames than a 48 bit counter tells apart |
| StaTableProofs | `MacIdsUnique` `RcuProtectsStations` | finitely many stations |
| StaTableProofs (RxPath) | `DeliveredAtMostOnce` `GoodLinkDropsNothing` | `Mod` at least 2, no frame is `NoFrame` |
| KeysProofs | `UploadedMatchesFirmware` `LiveKeysOwned` `RcuProtectsKeys` | the last for hardware encryption |
| KeysProofs (Join) | `ConnectedAlwaysHasBss` `DisconnectAlwaysHasReason` | none |
| BringupProofs | `OpenMeansBooted` `ImageNotMixed` | at least one poll, block and open |
| RtlUsbProofs | `WindowAccounting` `RxPool` `SkbOwnership` | as UsbTxProofs |
| RtlUsbProofs (RtlPs) | `RadioAlwaysMatches` `WorkAlwaysKeepsRadio` | none |

The type invariants are theorems too (`TypeCorrect`, `JoinTypeCorrect`,
`PsTypeCorrect`).

### UsbTx

The results hold for every finite set of frames, every set of receive
URBs and every finite set of senders and completion contexts that has at most
as many members as the window has slots (`CtxAssumption`, `FramesAssumption`).
The code meets the assumption: four transmit queues, one management frame, one
command and one completion context share eight slots. It is needed: with more
contexts than slots all slots can be held for a moment by contexts that are
about to give them back, and a sender they reject would leave its frame
without anybody to send it.

`IInv` (in UsbTx itself) has the seven properties and `HandsMatch`, which ties
every program counter to the frame in that context's hand and to the progress
of the teardown. None of the properties is inductive alone. `Accounting` counts
URBs in flight, and a step that puts a frame in flight changes the count by one
only if the frame was not there before, which is `OneOwner`; `OneOwner` needs
to know which program counters hold a frame (`HandsMatch`); `NoStall` needs
`Accounting` and `WindowBound` at the one step that matters, a sender that
finds the window full: then (`RejectionIsSafe`) some other context or URB
holds a slot, and will look at the queue after the sender's frame has been
put there. `Teardown` follows from `HandsMatch` and the wait for the anchor.

`Refinement`: UsbTx implements TxWindow, under the same
assumptions. The mapped initial state is TxWindow's; each action is, under
`IInv` in the state before, one step of the window or a stutter
(`RefinementStep`). The lemmas follow the window's steps: taking or refusing a
frame (`EnterStep`), sending (`SendStep`, where `Accounting` and the context's own
slot give room in the window), returning (`ReturnStep`), failing (`FailStep`),
flushing at the end (`FlushStep`); all other actions leave the four mapped
variables alone (`InnerSteps`). `OneOwner` is what makes waiting, out and done
disjoint, so that no step of the code looks like two of the window.

### Scan

The three properties are inductive together with `DownIsQuiet`: an interface
that is down, or past the first step of `r92su_stop`, is not open and has no
request. `NoLostScan` is about the works that are pending: the lemmas on the
queue (`AppendKeeps`, `TailKeeps`, `RemoveKeeps`, `QueueStep`) say that only
running or cancelling a work takes it out, and `SurveySurvives` that every
step which does so is followed by someone who queues it again.

### RxReorder

The code compares 12 bit numbers and indexes a ring; `Window` says the same in
frames that do not wrap: `head_seq` is the number of frame `count`, and a
buffered frame is in its own slot and less than a window ahead of `count`. The lemmas on
the remainder (`ModUnique` to `ModDivisor`) show that this is enough: within
half the sequence space `sn_less` orders frames (`LessIs`), and because the
window divides the space slots follow frames around the wrap (`SlotIs`,
`SlotsApart`, `SlotNext`). `Walk` is the invariant of the search behind a gap:
everything between the head and the slot looked at is empty, so that releasing
the frame found there skips none (`WalkReleasable`). `Attended` is
`NoFrameForgotten` with the steps under `tid->lock` in which the timer is yet to
be armed; `LastBehind` (what was delivered last is below the head) gives the action
property `InOrder`.

### TxPath

`NoPlaintext` needs to know who has which key at every moment. `Keyring` relates
slots, `uploaded` and the firmware: an uploaded key in a slot is the firmware's,
except in the slot that a call has given the firmware its command for and not
changed yet; a key under way to its slot is known to nobody. `LeftPinned` is
`NoPlaintext` for the frames that have not left: a frame left to the firmware has a
key that is there, or one that left under a frame (`late`).

`CountersFresh` says that the counters used with a key lie below its present
one and differ, for frames that have left and for frames about to. It is
kept by the step that stores the counter because a queue between
reading and storing is alone with its key (`AloneWithKey`), which holds until
a second one comes and marks the key `raced`. That the counter does not wrap is
`NoWrap`: it never runs ahead of the number of frames by more than one. Vectors
differ because the receiver's decoding tells them apart: `Decode3`, `Decode6` and
`IvDecodes` prove, for every base, that shifting a counter out byte by byte and
adding the bytes up again is the identity below the wrap. A WEP counter does
wrap, and starts anywhere; `VectorsDecode` includes WEP, `CountersAreFresh` does not.

### StaTable and Keys

Both rest on what a grace period waits for: a context that refers to a station
or key refers to one in the table (slot), or to one whose grace period still
waits for that very context (`Pinned`, `HeldPinned`). In StaTable a reader may
also have come by the station of the bss without looking at the table:
`BssPinned` says that this station is in the table as long as the bss is
published and nobody who could take it out is at work, which is what a second
join, or an event about BSS_MACID, breaks. The uniqueness of ids needs what the
writers work on (`WritersApart`) and that while one of them replaces a station
the old one is the only one with that id (`Replaces`), which holds until two
allocate the same (`overlap`); `sta_num` counts the table less one for every
station unlinked twice (`NumCounts`, finding 3), from which its type follows. In
Keys the protection of readers holds as long as no upload was refused (`Sound`),
as the property says, and for `nohwcrypt = "no"`, which is a hypothesis of
`RcuProtectsKeys`; the other two hold for both values.

### Bringup

`Trusted` describes the states in which what `r92su_open` was told came from the
device. In those, `Established` follows `r92su_upload_firmware` from stage to
stage: what a wait has seen stays true until the next reset. It stays true
because blocks of earlier opens cannot arrive later: the bulk queue is first in
first out (`InOrder`), the marked block of a part is its last (`SentOnce`), so when
the chip has received a part of the present image all blocks of earlier
calls are gone (`Unmixed`), and a checksum that succeeded is one over an unmixed image.

### RtlUsb

`OnePlace` is UsbTx's `OneOwner` for the frames that a double free cannot hit:
those are in one place or freed once, and the memory a second free is given is
never theirs (`HandsMatch`: what waits to be freed again is `spoiled`). It keeps
its force under the second free because a frame enters `spoiled` before its
memory can be handed out. `CounterExact` needs only that the frame about to go
into flight is not there already, which holds for spoiled frames too.
`GoneIsEmpty` is what is left after a disconnect. `SendersQuiet` ties the task's
place to what mac80211 believes, a pretended session included, `RxCounted` the
receive URBs to both: no session, no URB.

### Join

`JoinInv`. `ConnectedHasBss` is nearly inductive: a connection ends under
`r92su->lock`, in one action. What it lacks is `StoppedIsQuiet`, that a stopped
device wants no network, so that no connect work can bring one back after
`r92su_stop`. `DisconnectHasReason` compares the driver with cfg80211, which
learns of a join at its end: it needs that the join whose end is reported is
the one cfg80211 waits for. That is `JoinsAlone`: until the user asks again during
a join (`retried`), at most one of the firmware's join, its event, the queued
and the running connect work exists (`OneJoin`), and none beside a connection.
`OneJoin` depends on the queue: a pending work is in it once (`PendingOnce`), so that
taking it out leaves none; the lemmas `TailOnce`, `AppendOnce`, `RemoveOnce` and
`QueuesOnce` are about that.

### RxPath

`OnceInv` for `AtMostOnce`. The peer numbers its fragments, keys and packet numbers
upwards (`SentInOrder`, in the order `Before`), and what arrives was sent, and is
the newest frame unless there is a replay check (`ArrivesSent`). `AcceptedOnce` is
the reason why a second copy is refused: a fragment that waits in the queue or
was delivered has a packet number that the key's counter has passed, or an
older key (which is refused until the hardware decrypts with it, `stray`);
without a replay check only the newest frame comes again, and `rx_seq` remembers it. `PassesOnce` draws the conclusion, `DefragEffect` says what
reassembly does to queue and deliveries.

`DroppedInv` for `NothingDropped` adds where the peer is (`PeerFollows`) and, for a good
link under its first key, that nothing was missed: the queue holds exactly
the fragments of the MSDU before the next one (`QueueHolds`), the counter is
below the next packet number or where the key began, and each complete MSDU
was delivered (`Settled`), unless a frame of it carried a first number
(`Spoiled`).
That a new frame is not taken for a repetition (`FreshFrame`) is where the
sequence space has to tell consecutive MSDUs apart.

### RtlPs

`MatchInv` for `RadioMatches`: as long as nobody takes the flag by force,
`rfchange_inprogress` has one owner, a thread between its taking and its giving
back or `rtl_pci_stop` (`FlagOwner`); state and reasons agree, or the owner's
pending change will make them agree (`ReasonsAgree`); and the adapter runs
unless a change to ERFOFF has halted it (`AdapterRuns`).

`KeepsInv` for `WorkKeepsRadio` cannot use this, because it has to hold after the flag
was taken by force too. It describes what each thread may still do: who has
`lps_lock` (`LpsOwner`) and what the stack's call is about (`StackOps`) in every
state; and until a race is seen, that the nic_off work neither
runs nor waits once the interface is busy (`OffCalm`), that a radio which is off
is off for IPS alone, so that nic_on carries its change out (`StackTurnsOn`),
that PS is a reason only of an associated station in PS mode (`PsCalm`), and that of such a station the flag has one owner after all
(`AssocFlag`).

### Only model-checked

Every safety invariant and the one action property of the passing runs are
proved. What only TLC checks:

* Liveness under fairness and ENABLED (all `...Ends`, `TakenIsDone`,
  `BufferedIsReleased`, `QueuedIsSent`, `TaskReturns`, `IdleGoesOff`,
  `AcceptedJoinReported`): out of the prover's reach.
* The upper bound on `size` in RxPath's `TypeOK`, which counts fragments over the
  whole history.
* Induction over data: what a recursive definition computes for every input.
  Nothing here depends on it; no module uses RECURSIVE operators.

## 5. What the checks say about the code

The transmit window is right, whatever its size, as long as it has a slot for
every context that uses it, and what it looks like from above is a transmit
window without locks, counters or callbacks. Scans are answered once and end without the
firmware's help. The reorder buffer keeps its order across the wrap under the
race with its timer. No received fragment is delivered twice, until a change of
a CCMP key meets a frame that the hardware has decrypted with the old one; and
a link without losses loses nothing but fragmented CCMP and the frames with the
very first sequence or packet number. A connected driver has a network, and
cfg80211 hears of a disconnect only if it believed in the connection, until the
user asks again during a join. A data frame of an encrypted network is always
encrypted by someone who has the key at that moment, except under a key that
is taken from the firmware while frames are on their way. An open interface
runs on a chip this very open has loaded. Stations found in the table and (with
hardware encryption and no refused upload) keys are not used after they are
freed; the station of the connected bss is, after a second join. In rtlwifi an
error of a USB transfer may cost later frames as well, because the driver frees
twice, but neither earlier ones nor the window, and the transfer path does not
stay live after one; sessions do not see each other's receive URBs, though they
may see each other's frames. The radio's recorded state always agrees with its
reasons and with the chip when its two forced transitions are set aside,
whatever the unlocked decisions of the works and the stack overtake.

## 6. Findings

One statement of the repository has a run that TLC violates; `PROJECT.json`
quotes it.

1. `scan_stop_race`: `event.c:88` tests and then queues without a lock, so that
   `survey_done_work` is pending after `r92su_stop` has cancelled it, although
   the comment says that the test prevents this. The work does no harm when it
   runs: `r92su_survey_done_work` returns at `main.c:1495`, the interface not
   being open.

Others were met while modelling. They have no run of their own, but the model
shows each: the definition named can be added to the module's configuration,
or the exception named in section 3 taken out of its property.

2. `WholeMsdu` (RxPath): `&&` for `||` in `r92su_check_if_match`
   (`rx.c:734`): a lost fragment lets fragments of two MSDUs be joined, although
   `main.c:1093` says "all fragments have to have the same sequence couter".
3. `UnlinkedOnce` (StaTable): `r92su_sta_del` looks up before it locks
   (`sta.c:177`), so two contexts unlink one station twice.
4. `DeadStaysDead` (Scan): a device that dies between `main.c:1464` and
   `main.c:1478` is open again.
5. `AssocIeOnlyDuringConnect` (Join): `assoc_ie` is freed and not cleared
   (`main.c:534`, `562`), although `r92su.h:235` says "only valid during
   connect".
6. `KeysFreedByStop` (Join): the shared key of a failed connect survives
   `r92su_stop`, which waits "for keys and stas to be freed" (`main.c:1570`).
7. `retried` (Join): connecting again during a join can leave the driver
   connected and cfg80211 not (`main.c:499`).
8. `refused`, `nohwcrypt` (Keys): keys are freed while published
   (`main.c:417`; `main.c:987` without hardware encryption).
9. `UploadsParsedFirmware` (Bringup): a file refused by the parser is uploaded
   by the next open (`fw.c:304`).
10. `RpwmBackInSync` (Bringup): the register is reset, the driver's toggle is
    not (`hw.c:238`).
11. `raced` (TxPath): `tx_seq++` without a lock (`tx.c:218`).
12. `late` (TxPath): `r92su_tx_select_key` looks at `key->uploaded` once
    (`tx.c:578`); a key deleted or replaced after that, or found in its slot
    between the firmware's command and the slot, leaves the frame to a firmware
    that does not have it.
13. `rejoined` (StaTable): a join that ends during a connection, well (`main.c:759`)
    or badly (`main.c:830`), deletes the station with BSS_MACID, to which
    `bss_priv->sta` of the published bss still points.
14. `fw_bss`, `overlap` (StaTable): `c2h_add_sta_event` takes any id from the
    firmware (`event.c:111`): BSS_MACID deletes the station of the bss, an id that
    is being allocated puts two stations in the table, and an id that is not below
    MAX_STA survives `r92su_stop`.
15. `stray` (RxPath): a frame the hardware has decrypted is accepted whatever its
    key (`rx.c:538`), and after a change of the key its packet number is compared
    with the new key's, which starts again: a CCMP frame can be accepted twice.
16. `Swallowed` (RxPath): `rx_seq` starts at 0, so that a first frame with sequence
    control 0 is taken for a repetition (`rx.c:286`); TKIP's counter starts at 1,
    and the first frame of a peer has TSC 1 (`rx.c:421`, `sta.c:237`).

In rtlwifi:

17. `faulty`, `spoiled` (RtlUsb): a frame whose URB cannot be allocated or submitted
    is freed twice (`usb.c:936` and `960`, `847` and `888`, the last one read from
    the freed URB), and with it whatever frame was given the memory in between;
    one whose transfer fails is never freed, and `_rtl_tx_complete` returns without looking at the
    queue (`usb.c:918`), although the comment there says "Ignore error and keep
    issuiing other urbs".
18. `dirty`, `carried` (RtlUsb): stop leaves the transmit queue alone, start sets
    the counter to zero (`usb.c:734`): frames of the last session go out before
    the firmware of the next, and the window is too wide from then on.
19. `rx_failed`, `rx_stuck` (RtlUsb): a start that cannot fill the receive pool
    destroys `rtl_wq` and leaves the state at START, so that the next start
    succeeds at once; if `usb_submit_urb` was what failed, the start never
    returns (`usb.c:711` to `721`).
20. `unstarted` (RtlUsb): `rtl_op_start` returns 0 without starting anything while
    RTL_STATUS_INTERFACE_START is clear (`core.c:190`): after
    `ieee80211_register_hw` but before the last line of the probe, and in the
    disconnect. mac80211 then has a session without a receive URB, whose frames
    are dropped.
21. `raced` (RtlPs): `rtl_ips_nic_on` does not wait for the work it cancels
    (`ps.c:290`).
22. `slept` (RtlPs): a late sleep, or a scan that begins during one, leaves a
    radio nobody wakes: `rtl_swlps_rf_awake` wants MAC80211_LINKED and
    `rtl_ips_nic_on` does not override RF_CHANGE_BY_PS (`ps.c:298`, `573`), not
    even in the next session.
23. `broken` (RtlPs): `hw_init` that failed ten times is recorded as ERFON
    (`rtl8192se/hw.c:1345`); `rtl_pci_stop` takes the flag after 100 ms
    (`pci.c:1858`).
24. RtlPs also shows states in which IPS never comes: a failed authentication
    leaves MAC80211_LINKING, `rtl_op_sw_scan_complete` returns early on busy
    traffic and leaves MAC80211_LINKED_SCANNING, and a key set while idle
    cancels the nic_off work for good. `IdleGoesOff` therefore begins with the
    work queued. And a scan of exactly three channels sets `p2p_in_use`
    (`core.c:1500`), on this chip too, with which the queued work does nothing
    (`ps.c:220`): the idle radio stays on until another scan clears it and the
    interface becomes busy and idle again (`p2p`).
25. `OpStopDisable` (RtlPs): without its firmware file `rtl_pci_stop` returns with
    `rfchange_inprogress` set (`pci.c:1871`); the driver is being unbound then.

## 7. Plan

Done: the r92su modules, in the order USB engine, scan, connection, reordering,
receive path, station table, keys, bring-up, transmit path; of rtlwifi the USB
glue and the radio's power saving; the abstract transmit window; the proofs of
section 4, which cover every safety property of the runs.

What a continuation would add, in this order:

1. rtlwifi's PCI rings (`_rtl_pci_tx_isr`, `rtl_pci_tx`, `rtl_pci_reset_trx_ring`
   under IPS) and the asynchronous request of its firmware file.
2. The parsing of aggregated USB receive buffers (`r92su_rx`, the `continue` at
   `rx.c:1230`); the block-ack start (`addba_issued`); the failing probe.
3. Scan and Join composed, with one work queue.

## 8. Not modelled

* Ciphers (`aes_ccm.c`, `tkip.c`, `wep.c`, `michael.c`): computations over
  bytes without state; the models use their verdict.
* Layout of descriptors, commands and information elements; `eeprom.c`;
  `debugfs.c`, `debug.c`, `trace.c`: formats, sequential I/O and observation.
* The sequence numbers of commands and events: in the driver only a debug
  message depends on them.
* Monitor mode's radiotap headers, A-MSDU splitting, statistics, transmit
  fragmentation (the code disables it), power-save requests of cfg80211.
* Chip, firmware, host controller, RCU, work queues, timers and cfg80211 are
  external: modelled from how the driver uses them, and marked so in the map.
* rtlwifi beyond the two modules. Most of its lines are chip drivers that the
  Makefile does not build (`rtl8188ee`, `rtl8192ce/cu/de/ee`, `rtl8723*`,
  `rtl8821ae`) and, in every chip, register tables, calibration and power
  sequences: straight-line I/O whose meaning is the hardware's, with no
  property that could be stated without it. `btcoexist/` (not built either) is
  decision tables over measurements. Firmware LPS and ASPM run only for
  other chips or beside what RtlPs models, and of P2P only the flag matters here
  that any scan may set (finding 24). PCI rings and the firmware request
  are left for later (section 7).
* `staging/` (`r8192su`, `rtl8712`, `vendor`): vendor drivers for the same chips, built
  by neither Makefile; `firmwares/`, `eeproms/`, `tools/`: data and a script.

The repository is large because of these parts: the models cover a small share
of its lines, and most of the lines in which its own concurrent logic lies.
