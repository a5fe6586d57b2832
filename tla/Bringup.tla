------------------------------- MODULE Bringup -------------------------------
(***************************************************************************)
(* Bringing the chip up and down: r92su_open and r92su_stop (main.c) with  *)
(* the firmware loader (fw.c), the register sequences (hw.c), the power    *)
(* requests (pwr.c) and the register access they rest on (usb.c).          *)
(*                                                                         *)
(* The firmware is uploaded in three parts through the asynchronous bulk   *)
(* queue, and its progress is polled in REG_TCR.  A register read that     *)
(* fails marks the device dead, unless the interface is being unbound, and *)
(* returns an uninitialised variable: what it returns is a free choice.    *)
(*                                                                         *)
(* The netlink lock serialises open, stop and unregistering.  The bulk     *)
(* queue keeps what an abandoned open has put into it.                     *)
(***************************************************************************)
EXTENDS Integers, Sequences

CONSTANTS
  Tries,    \* polls before a wait gives up (3 to 1000 in the code)
  Blocks,   \* 2048-byte blocks of imem and of sram
  MaxOpen   \* bound: calls of ndo_open

ASSUME BringupAssumption == {Tries, Blocks, MaxOpen} \subseteq Nat \ {0}

Parts == {"imem", "sram", "dmem"}

VARIABLES
  state,      \* r92su->state
  unbinding,  \* intf->condition is USB_INTERFACE_UNBINDING
  link,       \* "up" from a successful ndo_open to ndo_stop
  bus,        \* "up", or "gone" once the device was pulled
  user,       \* how far the holder of the netlink lock is
  tries,      \* polls the current wait has left
  opens,      \* calls of ndo_open so far
  fw,         \* r92su->fw: "null", a "bad" file or a "good" one
  fw_dmem,    \* r92su->fw_dmem: "zero" or "prepared"
  tx_wait,    \* firmware blocks in the bulk queue: <<part, open, last>>
  mem,        \* chip: part -> "empty", "done" (the last block), "checked"
  boot,       \* chip: "off", "reset", "enabled", "cpu" or "ready"
  configured, \* chip: set up after the upload, for the open counted here
  stale,      \* chip: a block of an earlier open was received after the reset
  rpwm_tog,   \* r92su->rpwm_tog
  hrpwm_tog   \* the toggle bit in REG_USB_HRPWM

chipvars == <<mem, boot, configured, stale>>
pwrvars == <<rpwm_tog, hrpwm_tog>>
filevars == <<fw, fw_dmem>>
vars == <<state, link, unbinding, bus, user, tries, opens, filevars, tx_wait,
          chipvars, pwrvars>>

Uploading == {"imem", "imem_wait", "sram", "sram_wait", "cpu", "cpu_wait",
              "dmem", "dmem_wait", "boot_wait"}
Opening == Uploading \cup {"locked", "early", "late", "mac", "recheck", "set"}

WaitFor == [imem |-> "imem_wait", sram |-> "sram_wait", dmem |-> "dmem_wait"]

TypeOK ==
  /\ state \in {"dead", "unload", "stop", "open"}
  /\ link \in {"up", "down"}
  /\ unbinding \in BOOLEAN
  /\ bus \in {"up", "gone"}
  /\ user \in Opening \cup {"idle", "freed"}
  /\ tries \in 1..Tries
  /\ opens \in 0..MaxOpen
  /\ fw \in {"null", "bad", "good"}
  /\ fw_dmem \in {"zero", "prepared"}
  /\ tx_wait \in Seq(Parts \X (1..MaxOpen) \X BOOLEAN)
  /\ mem \in [Parts -> {"empty", "done", "checked"}]
  /\ boot \in {"off", "reset", "enabled", "cpu", "ready"}
  /\ configured \in 0..MaxOpen
  /\ stale \in BOOLEAN
  /\ rpwm_tog \in {0, 1} /\ hrpwm_tog \in {0, 1}

\* r92su_register has just set the state; nothing was opened yet.
Init ==
  /\ state = "stop" /\ link = "down" /\ unbinding = FALSE /\ bus = "up"
  /\ user = "idle" /\ tries = Tries /\ opens = 0
  /\ fw = "null" /\ fw_dmem = "zero" /\ tx_wait = << >>
  /\ mem = [p \in Parts |-> "empty"] /\ boot = "off"
  /\ configured = 0 /\ stale = FALSE
  /\ rpwm_tog = 0 /\ hrpwm_tog = 0

-----------------------------------------------------------------------------
(* Access to the device *)

\* A transfer of r92su_sync_read or r92su_sync_write: it can only succeed on
\* a device that is there, and it can fail for want of memory as well.
Transfers == {FALSE} \cup {ok \in {TRUE} : bus = "up" /\ state # "dead"}

\* r92su_deal_with_usb_errors: a failure marks the device dead, except while
\* the interface is being unbound.
AfterTransfer(ok) == IF ok \/ unbinding THEN state ELSE "dead"

\* The value of one status bit as r92su_read8 returns it.
ReadBit(ok, bit) == IF ok THEN {bit} ELSE BOOLEAN

-----------------------------------------------------------------------------
(* ndo_open *)

\* The checks of r92su_parse_firmware (signature and section sizes) are
\* reduced to their verdict on the file.
r92su_parse_firmware(file) == file = "good"

\* What fw_dmem holds after r92su_prepare_firmware.
r92su_prepare_firmware == "prepared"

\* r92su_load_firmware: the file is requested once.  A file that cannot be
\* parsed stays in r92su->fw, and fw_dmem is left as it was.
r92su_load_firmware(file) ==
  /\ fw' = IF fw = "null" THEN file ELSE fw
  /\ fw_dmem' = IF fw = "null" /\ r92su_parse_firmware(file)
                THEN r92su_prepare_firmware ELSE fw_dmem
  /\ user' = IF fw # "null" \/ r92su_parse_firmware(file) THEN "locked" ELSE "idle"

\* The rest of r92su_open runs under r92su->lock.
OpenLoad(file) ==
  /\ user = "idle" /\ link = "down" /\ opens < MaxOpen
  /\ opens' = opens + 1
  /\ r92su_load_firmware(file)
  /\ UNCHANGED <<state, link, unbinding, bus, tries, tx_wait, chipvars, pwrvars>>

OpenStopped ==
  /\ user = "locked"
  /\ user' = IF state = "stop" THEN "early" ELSE "idle"
  /\ UNCHANGED <<state, link, unbinding, bus, tries, opens, filevars, tx_wait,
                 chipvars, pwrvars>>

\* REG_USB_HRPWM is cleared, then the digital core, the CPU and the MAC are
\* reset.  A failed transfer may come before or after the reset; the clock
\* that does not switch over ends the setup.
r92su_hw_early_mac_setup ==
  /\ user = "early"
  /\ \E ok \in Transfers, cleared, reset \in BOOLEAN :
       /\ ok => cleared /\ reset
       /\ (cleared \/ reset) => bus = "up" /\ state # "dead"
       /\ state' = AfterTransfer(ok)
       /\ hrpwm_tog' = IF cleared THEN 0 ELSE hrpwm_tog
       /\ IF reset
          THEN /\ mem' = [p \in Parts |-> "empty"] /\ boot' = "reset"
               /\ stale' = FALSE
          ELSE UNCHANGED <<mem, boot, stale>>
  /\ user' \in {"imem", "idle"}
  /\ UNCHANGED <<link, unbinding, bus, tries, opens, filevars, tx_wait,
                 configured, rpwm_tog>>

\* fw_dmem is smaller than a block.
BlocksOf(p) == IF p = "dmem" THEN 1 ELSE Blocks

\* r92su_upload_firmware_part: r92su_usb_tx queues the blocks of a part, the
\* last one marked (LINIP).  It fails on a dead device, or for want of memory
\* after any block (n of them); those stay queued.
r92su_upload_firmware_part(p) ==
  /\ user = p
  /\ \E n \in 0..BlocksOf(p) :
       /\ n > 0 => state # "dead"
       /\ tx_wait' = tx_wait \o [i \in 1..n |-> <<p, opens, i = BlocksOf(p)>>]
       /\ user' = IF n = BlocksOf(p) THEN WaitFor[p] ELSE "idle"
  /\ UNCHANGED <<state, link, unbinding, bus, tries, opens, filevars,
                 chipvars, pwrvars>>

\* Mutant: the report of the checksum is ignored.
r92su_upload_mem_wait_NoReport(at, done, done2, next) ==
  /\ user = at
  /\ \E ok \in Transfers : \E d \in ReadBit(ok, done) :
       /\ state' = AfterTransfer(ok)
       /\ tries' = IF d \/ tries = 1 THEN Tries ELSE tries - 1
       /\ user' = IF d THEN next ELSE IF tries = 1 THEN "idle" ELSE at
  /\ UNCHANGED <<link, unbinding, bus, opens, filevars, tx_wait, chipvars,
                 pwrvars>>

\* Mutant: a wait that runs out starts over.
r92su_upload_mem_wait_Forever(at, done, done2, next) ==
  /\ user = at
  /\ \E ok \in Transfers : \E d \in ReadBit(ok, done), e \in ReadBit(ok, done2) :
       /\ state' = AfterTransfer(ok)
       /\ tries' = IF d \/ tries = 1 THEN Tries ELSE tries - 1
       /\ user' = IF d /\ e THEN next ELSE IF d THEN "idle" ELSE at
  /\ UNCHANGED <<link, unbinding, bus, opens, filevars, tx_wait, chipvars,
                 pwrvars>>

\* One poll of REG_TCR: the first read that shows the done flag ends the
\* wait, and the same value must show the second flag.
r92su_upload_mem_wait(at, done, done2, next) ==
  /\ user = at
  /\ \E ok \in Transfers : \E d \in ReadBit(ok, done), e \in ReadBit(ok, done2) :
       /\ state' = AfterTransfer(ok)
       /\ tries' = IF d \/ tries = 1 THEN Tries ELSE tries - 1
       /\ user' = IF d /\ e THEN next
                  ELSE IF d \/ tries = 1 THEN "idle" ELSE at
  /\ UNCHANGED <<link, unbinding, bus, opens, filevars, tx_wait, chipvars,
                 pwrvars>>

Received(p) == mem[p] # "empty"
Checked(p) == mem[p] = "checked"

ImemWait ==
  r92su_upload_mem_wait("imem_wait", Received("imem"), Checked("imem"), "sram")
SramWait ==
  r92su_upload_mem_wait("sram_wait", Received("sram"), Checked("sram"), "cpu")
DmemWait ==
  r92su_upload_mem_wait("dmem_wait", Received("dmem"), Received("dmem"),
                        "boot_wait")
BootWait ==
  r92su_upload_mem_wait("boot_wait", boot = "ready", boot = "ready", "late")

\* r92su_firmware_enable_cpu selects the clock, enables the CPU ...
EnableCpu ==
  /\ user = "cpu"
  /\ \E ok \in Transfers, enabled \in BOOLEAN :
       /\ ok => enabled
       /\ enabled => bus = "up" /\ state # "dead"
       /\ state' = AfterTransfer(ok)
       /\ boot' = IF enabled /\ boot = "reset" THEN "enabled" ELSE boot
  /\ user' = "cpu_wait"
  /\ UNCHANGED <<link, unbinding, bus, tries, opens, filevars, tx_wait, mem,
                 configured, stale, pwrvars>>

\* ... and polls until it has refilled IMEM.
CpuWait ==
  r92su_upload_mem_wait("cpu_wait", boot = "cpu", boot = "cpu", "dmem")

\* r92su_hw_late_mac_setup writes registers only.
r92su_hw_late_mac_setup ==
  /\ user = "late" /\ user' = "mac"
  /\ \E ok \in Transfers : state' = AfterTransfer(ok)
  /\ UNCHANGED <<link, unbinding, bus, tries, opens, filevars, tx_wait,
                 chipvars, pwrvars>>

\* r92su_init_mac: the receive filter, an I/O command that is polled, and
\* three commands to the firmware.  A timeout, or a command that cannot be
\* queued, ends the open.
r92su_init_mac ==
  /\ user = "mac"
  /\ \E ok \in Transfers :
       /\ state' = AfterTransfer(ok)
       /\ \/ user' = "idle" /\ UNCHANGED configured
          \/ user' = "recheck" /\ configured' = IF ok THEN opens ELSE configured
  /\ UNCHANGED <<link, unbinding, bus, tries, opens, filevars, tx_wait, mem,
                 boot, stale, pwrvars>>

\* Mutant: the state is not looked at again.
OpenRecheck_Trusts ==
  /\ user = "recheck" /\ user' = "set"
  /\ UNCHANGED <<state, link, unbinding, bus, tries, opens, filevars,
                 tx_wait, chipvars, pwrvars>>

OpenRecheck ==
  /\ user = "recheck"
  /\ user' = IF state = "stop" THEN "set" ELSE "idle"
  /\ UNCHANGED <<state, link, unbinding, bus, tries, opens, filevars,
                 tx_wait, chipvars, pwrvars>>

OpenSet ==
  /\ user = "set" /\ user' = "idle"
  /\ state' = "open" /\ link' = "up"
  /\ UNCHANGED <<unbinding, bus, tries, opens, filevars, tx_wait, chipvars,
                 pwrvars>>

-----------------------------------------------------------------------------
(* Power requests, ndo_stop and unbinding *)

\* r92su_set_power: the driver's toggle always flips, the register only when
\* the write gets through.
r92su_set_power(ok) ==
  /\ rpwm_tog' = 1 - rpwm_tog
  /\ hrpwm_tog' = IF ok THEN 1 - rpwm_tog ELSE hrpwm_tog

\* r92su_bss_connect_work has reported a successful join.
ConnectPower ==
  /\ user = "idle" /\ state = "open"
  /\ \E ok \in Transfers : r92su_set_power(ok) /\ state' = AfterTransfer(ok)
  /\ UNCHANGED <<link, unbinding, bus, user, tries, opens, filevars, tx_wait,
                 chipvars>>

\* r92su_stop: lower the power, switch the chip off and set the state, the
\* last two only while the device has not died.
r92su_stop ==
  /\ user = "idle" /\ link = "up" /\ link' = "down"
  /\ \E ok, off \in Transfers :
       /\ r92su_set_power(ok)
       /\ LET alive == AfterTransfer(ok) = "open"
          IN  /\ state' = IF ~alive THEN AfterTransfer(ok)
                          ELSE IF off \/ unbinding THEN "stop" ELSE "dead"
              /\ boot' \in (IF alive /\ bus = "up" THEN {"off"} ELSE {})
                             \cup (IF alive /\ off THEN {} ELSE {boot})
  /\ UNCHANGED <<unbinding, bus, user, tries, opens, filevars, tx_wait, mem,
                 configured, stale>>

\* r92su_unregister, after unregister_netdev has closed the interface, and
\* the rest of r92su_usb_disconnect.
r92su_unregister ==
  /\ user = "idle" /\ link = "down" /\ unbinding
  /\ user' = "freed" /\ state' = "unload"
  /\ fw' = "null" /\ tx_wait' = << >>
  /\ UNCHANGED <<link, unbinding, bus, tries, opens, fw_dmem, chipvars,
                 pwrvars>>

-----------------------------------------------------------------------------
(* The device, the bus and the USB core *)

\* Receive completions and firmware events mark a live device dead.
r92su_mark_dead ==
  /\ state \notin {"dead", "unload"} /\ state' = "dead"
  /\ UNCHANGED <<link, unbinding, bus, user, tries, opens, filevars, tx_wait,
                 chipvars, pwrvars>>

Unplug ==
  /\ bus = "up" /\ bus' = "gone"
  /\ UNCHANGED <<state, link, unbinding, user, tries, opens, filevars,
                 tx_wait, chipvars, pwrvars>>

Unbind ==
  /\ ~unbinding /\ unbinding' = TRUE
  /\ UNCHANGED <<state, link, bus, user, tries, opens, filevars, tx_wait,
                 chipvars, pwrvars>>

\* A queued block reaches the chip.
ChipReceives ==
  /\ tx_wait # << >> /\ bus = "up"
  /\ tx_wait' = Tail(tx_wait)
  /\ mem' = IF Head(tx_wait)[3] THEN [mem EXCEPT ![Head(tx_wait)[1]] = "done"] ELSE mem
  /\ stale' = (stale \/ Head(tx_wait)[2] # opens)
  /\ UNCHANGED <<state, link, unbinding, bus, user, tries, opens, filevars,
                 boot, configured, pwrvars>>

\* A queued block is lost with the device.
BlockLost ==
  /\ tx_wait # << >> /\ bus = "gone"
  /\ tx_wait' = Tail(tx_wait)
  /\ state' = IF state = "unload" THEN state ELSE AfterTransfer(FALSE)
  /\ UNCHANGED <<link, unbinding, bus, user, tries, opens, filevars,
                 chipvars, pwrvars>>

\* The chip reports a part that it received whole.
ChipChecks(p) ==
  /\ mem[p] = "done" /\ ~stale
  /\ mem' = [mem EXCEPT ![p] = "checked"]
  /\ UNCHANGED <<state, link, unbinding, bus, user, tries, opens, filevars,
                 tx_wait, boot, configured, stale, pwrvars>>

ChipBoots ==
  /\ \/ boot = "enabled" /\ boot' = "cpu"
     \/ boot = "cpu" /\ Received("dmem") /\ boot' = "ready"
  /\ UNCHANGED <<state, link, unbinding, bus, user, tries, opens, filevars,
                 tx_wait, mem, configured, stale, pwrvars>>

-----------------------------------------------------------------------------
OpenStep ==
  \/ OpenStopped \/ r92su_hw_early_mac_setup
  \/ \E p \in Parts : r92su_upload_firmware_part(p)
  \/ ImemWait \/ SramWait \/ EnableCpu \/ CpuWait \/ DmemWait \/ BootWait
  \/ r92su_hw_late_mac_setup \/ r92su_init_mac \/ OpenRecheck \/ OpenSet

Next ==
  \/ \E file \in {"null", "bad", "good"} : OpenLoad(file)
  \/ OpenStep
  \/ ConnectPower \/ r92su_stop \/ r92su_unregister
  \/ r92su_mark_dead \/ Unplug \/ Unbind
  \/ ChipReceives \/ BlockLost \/ ChipBoots
  \/ \E p \in Parts : ChipChecks(p)

Spec == Init /\ [][Next]_vars

\* ndo_open runs on a thread that the scheduler does not starve.
FairSpec == Spec /\ WF_vars(OpenStep)

-----------------------------------------------------------------------------
(* Properties *)

\* An interface that r92su_open has opened runs on a chip that was reset,
\* loaded, started, booted and configured by that same call: the waits of
\* fw.c, and the second look at the state for what they read from a device
\* that died meanwhile.  While the interface is being unbound a failed read
\* leaves no trace in the state.
OpenIsBooted ==
  state = "open" /\ ~unbinding =>
    /\ Checked("imem") /\ Checked("sram") /\ Received("dmem")
    /\ boot = "ready" /\ configured = opens

\* No part of the firmware an open interface runs was mixed with a block
\* that an earlier, abandoned upload had left in the bulk queue: the check
\* reports in r92su_upload_mem_wait turn such an image down.
ImageIntact == state = "open" /\ ~unbinding => ~stale

\* r92su_open returns: every wait in it is bounded.
OpenEnds == user \in Opening ~> user = "idle"

-----------------------------------------------------------------------------
(***************************************************************************)
(* What the repository says and the code does not do; no configuration lists *)
(* these, TLC violates each of them in the module's instance.              *)
(***************************************************************************)

\* What fw.c says of r92su_load_firmware, that it loads and parses the file
\* once: what r92su_upload_firmware sends has been parsed.
UploadsParsedFirmware == user \in Uploading => fw = "good"

\* What hw.c says of the write in r92su_hw_early_mac_setup: after it, driver
\* and firmware are back in the initial state and agree on the toggle.
RpwmBackInSync ==
  user = "imem" /\ state = "stop" /\ ~unbinding => rpwm_tog = hrpwm_tog
=============================================================================
