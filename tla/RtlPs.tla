------------------------------- MODULE RtlPs -------------------------------
(***************************************************************************)
(* Radio power in rtlwifi (ps.c, core.c, pci.c) for the chip of the default *)
(* build that saves power in software, the RTL8192SE (rtl8192se/hw.c):      *)
(* inactive power save (IPS) switches an idle radio off, leisure power save *)
(* (LPS) puts a linked one to sleep between beacons.  Both go through       *)
(* rtl_ps_set_rf_state, which is serialised by the flag                     *)
(* rfchange_inprogress; the callers decide, before they get there, from     *)
(* variables that no lock protects.                                         *)
(*                                                                         *)
(* Four contexts run: the stack ("stk": mac80211's calls, one at a time)    *)
(* and the delayed works ips_nic_off_wq ("off"), ps_work ("ps") and         *)
(* ps_rfon_wq ("wake"), which the unordered rtl_wq runs beside each other.  *)
(* The rfkill poll takes the flag too; it leaves the state and the reasons  *)
(* alone, so only the time that it takes on a halted adapter shows.         *)
(* The tests that _rtl_ps_inactive_ps is called after, and its setting of   *)
(* swrf_processing, are one step; inactive_pwrstate, which nobody writes    *)
(* while swrf_processing is set, is then the argument of the call.          *)
(***************************************************************************)
EXTENDS RtlPsState, Naturals, FiniteSets

CONSTANT MaxRaces   \* bound: the stack stops calling after more kinds of race

Threads == {"stk", "off", "ps", "wake"}
Works == {"off", "ps", "wake"}
Nobody == "nobody"

radio == <<rf, reason, inprog, swrf, halted, nic>>
mac == <<hal, link, scanning, skip, p2p>>
lps == <<swps, multi>>
threads == <<stage_of, by, lock>>
stack == <<idle, conf_ps, mlme, vif>>
history == <<raced, slept, broken>>
vars == <<radio, mac, lps, threads, stack, pend, call, history>>

RfStates == {"ON", "OFF", "SLEEP"}
Reasons == {"IPS", "PS"}
Stages == {"rest", "lock", "enter", "hw", "set", "leave", "ret"}

TypeOK ==
  /\ rf \in RfStates /\ reason \subseteq Reasons
  /\ {inprog, swrf, halted, nic, hal, scanning, skip, p2p, swps, multi,
      idle, conf_ps, vif, raced, slept, broken} \subseteq BOOLEAN
  /\ link \in {"NOLINK", "LINKING", "LINKED", "SCANNING"}
  /\ pend \subseteq Works
  /\ lock \in Threads \cup {Nobody}
  /\ stage_of \in [Threads -> Stages]
  /\ by \in Reasons
  /\ call \in {"rest", "cfg", "add", "all", "ps_on", "ps_off", "ps_end",
             "auth", "key", "scan", "stop", "stop_wait", "stop_hw", "gone"}
  /\ mlme \in {"none", "auth", "assoc"}

\* The probed device before its first rtl_op_start.
Init ==
  /\ rf = "ON" /\ reason = {} /\ inprog = FALSE /\ swrf = FALSE
  /\ halted = FALSE /\ nic = FALSE
  /\ hal = FALSE /\ link = "NOLINK" /\ scanning = FALSE /\ skip = FALSE
  /\ p2p = FALSE
  /\ swps = FALSE /\ multi = FALSE
  /\ pend = {} /\ lock = Nobody /\ call = "rest" /\ by = "IPS"
  /\ stage_of = [t \in Threads |-> "rest"]
  /\ idle = TRUE /\ conf_ps = FALSE /\ mlme = "none" /\ vif = FALSE
  /\ raced = FALSE /\ slept = FALSE /\ broken = FALSE

----------------------------------------------------------------------------
(* rtl_ps_set_rf_state and rtl92se_phy_set_rf_power_state                   *)

Goto(t, stage) == stage_of' = [stage_of EXCEPT ![t] = stage]

\* The arguments of the thread's call of rtl_ps_set_rf_state.
To(t) == CASE t = "off" -> "OFF" [] t = "ps" -> "SLEEP" [] OTHER -> "ON"
By(t) == CASE t = "off" -> "IPS" [] t = "stk" -> by [] OTHER -> "PS"

\* Mutant: swrf_processing is left set after nic_on.
Returned_KeepsSwrf(t) ==
  /\ Goto(t, IF t = "ps" THEN "ret" ELSE "rest")
  /\ swrf' = (swrf /\ t # "off")
  /\ lock' = IF By(t) = "PS" THEN Nobody ELSE lock
  /\ by' = IF t = "stk" THEN "IPS" ELSE by

\* Its return: _rtl_ps_inactive_ps clears swrf_processing, the LPS functions
\* give lps_lock back and ps_work goes on to queue the wake-up.
Returned(t) ==
  /\ Goto(t, IF t = "ps" THEN "ret" ELSE "rest")
  /\ swrf' = (swrf /\ By(t) # "IPS")
  /\ lock' = IF By(t) = "PS" THEN Nobody ELSE lock
  /\ by' = IF t = "stk" THEN "IPS" ELSE by

\* The flag is taken and the reasons are updated; ERFON is carried out only
\* when no reason is left.
SetRfEnter(t) ==
  /\ At(t, "enter") /\ ~inprog
  /\ inprog' = TRUE
  /\ reason' = IF To(t) = "ON" THEN reason \ {By(t)} ELSE reason \cup {By(t)}
  /\ Goto(t, IF To(t) = "ON" /\ reason' # {} THEN "leave" ELSE "hw")
  /\ UNCHANGED <<rf, swrf, halted, nic, mac, lps, by, lock, stack, pend, call, history>>

\* The changes that may take longer than the 100 ms a caller waits: those
\* that initialise or disable the adapter, and the flag that is never given back.
LongChange ==
  \/ \E t \in Threads : At(t, "hw") /\ To(t) # "SLEEP" /\ To(t) # rf
  \/ call \in {"stop_hw", "gone"}

\* The rfkill poll has the flag: on a halted adapter it powers the chip up and
\* down again, which can take as long.  It runs under conf_mutex, so that
\* rtl_op_start, rtl_op_config and all of rtl_op_stop but its nic_on do not
\* meet it.
PollHolds ==
  ~inprog /\ halted /\ call \in {"rest", "add", "auth", "key", "scan", "stop"}

\* "Wait too long, return false to avoid to be stuck here."
SetRfTimeout(t) ==
  /\ At(t, "enter")
  /\ PollHolds \/ (inprog /\ LongChange)
  /\ Returned(t)
  /\ UNCHANGED <<rf, reason, inprog, halted, nic, mac, lps, stack, pend, call, history>>

\* rtl92se_phy_set_rf_power_state, nothing to do: the state is the one asked
\* for, or a radio that is off is asked to sleep.
RfUnchanged(t) ==
  /\ At(t, "hw")
  /\ \/ To(t) = rf
     \/ To(t) = "SLEEP" /\ rf = "OFF"
  /\ Goto(t, "leave")
  /\ UNCHANGED <<radio, mac, lps, by, lock, stack, pend, call, history>>

\* rtl92se_card_disable: the adapter is halted, which is recorded (halts)
\* unless its clock cannot be switched, and the link state dropped.
CardDisable(halts) ==
  nic' = FALSE /\ link' = "NOLINK" /\ halted' = (halted \/ halts)

\* rtl_deinit_deferred_work: queued works are cancelled, running ones are not
\* waited for.
CancelWorks == pend' = {}

\* rtl_ps_enable_nic, with the outcome of hw_init.
EnableNic(ok) == nic' = (nic \/ ok)

\* rtl_ps_disable_nic, for a caller that records the halt itself.
DisableNic == CancelWorks /\ CardDisable(TRUE)

\* ERFON: rtl_ps_enable_nic is tried up to ten times when the adapter was
\* halted; the tenth failure is not looked at.
RfOn(t) ==
  /\ At(t, "hw") /\ To(t) = "ON" /\ rf # "ON"
  /\ IF rf = "OFF" /\ halted
     THEN \E ok \in BOOLEAN : EnableNic(ok) /\ broken' = (broken \/ ~ok)
     ELSE UNCHANGED <<nic, broken>>
  /\ halted' = (halted /\ rf # "OFF")
  /\ Goto(t, "set")
  /\ UNCHANGED <<rf, reason, inprog, swrf, mac, lps, by, lock, stack, pend, call,
                 raced, slept>>

\* ERFOFF: rtl_ps_disable_nic cancels the deferred works and disables the
\* card, which also drops the link state.
RfOff(t) ==
  /\ At(t, "hw") /\ To(t) = "OFF" /\ rf # "OFF"
  /\ DisableNic
  /\ Goto(t, "set")
  /\ UNCHANGED <<rf, reason, inprog, swrf, hal, scanning, skip, p2p, lps, by, lock, stack,
                 call, history>>

\* Mutant: the test of ERFOFF is dropped.
RfSleep_FromOff(t) ==
  /\ At(t, "hw") /\ To(t) = "SLEEP" /\ rf # "SLEEP"
  /\ Goto(t, "set")
  /\ UNCHANGED <<radio, mac, lps, by, lock, stack, pend, call, history>>

\* ERFSLEEP: the rings are drained for at most 640 us and the radio sleeps.
RfSleep(t) ==
  /\ At(t, "hw") /\ To(t) = "SLEEP" /\ rf = "ON"
  /\ Goto(t, "set")
  /\ UNCHANGED <<radio, mac, lps, by, lock, stack, pend, call, history>>

\* The new state is recorded, the flag released and the call returns.
SetRfLeave(t) ==
  /\ stage_of[t] \in {"set", "leave"}
  /\ rf' = IF At(t, "set") THEN To(t) ELSE rf
  /\ inprog' = FALSE
  /\ Returned(t)
  /\ UNCHANGED <<reason, halted, nic, mac, lps, stack, pend, call, history>>

----------------------------------------------------------------------------
(* The delayed works                                                        *)

\* rtl_ips_nic_off_wq_callback up to _rtl_ps_inactive_ps.
NicOffRun ==
  /\ "off" \in pend /\ At("off", "rest")
  /\ pend' = pend \ {"off"}
  /\ IF /\ vif /\ ~p2p /\ link = "NOLINK" /\ hal /\ call # "key"
        /\ rf = "ON" /\ ~swrf /\ ~scanning
     THEN Goto("off", "enter") /\ swrf' = TRUE
     ELSE UNCHANGED <<stage_of, swrf>>
  /\ UNCHANGED <<rf, reason, inprog, halted, nic, mac, lps, by, lock, stack, call, history>>

\* rtl_swlps_wq_callback and rtl_swlps_rf_sleep up to the lock: whether the
\* null frame was acknowledged, the link is old enough and the traffic low is
\* left open (ok).
PsWorkRun ==
  /\ "ps" \in pend /\ At("ps", "rest")
  /\ pend' = pend \ {"ps"}
  /\ \E ok \in BOOLEAN :
       IF ok /\ swps /\ call # "key" /\ link = "LINKED" /\ ~inprog
       THEN Goto("ps", "lock")
       ELSE UNCHANGED stage_of
  /\ UNCHANGED <<radio, mac, lps, by, lock, stack, call, history>>

\* Mutant: the wake-up is not queued.
PsWorkReturn_NoWake ==
  /\ At("ps", "ret")
  /\ Goto("ps", "rest")
  /\ UNCHANGED <<radio, mac, lps, by, lock, stack, call, history, pend>>

\* After the lock has been given back the wake-up is queued.
PsWorkReturn ==
  /\ At("ps", "ret")
  /\ pend' = pend \cup {"wake"}
  /\ Goto("ps", "rest")
  /\ UNCHANGED <<radio, mac, lps, by, lock, stack, call, history>>

\* rtl_swlps_rfon_wq_callback, rtl_swlps_rf_awake.
WakeRun ==
  /\ "wake" \in pend /\ At("wake", "rest")
  /\ pend' = pend \ {"wake"}
  /\ IF link = "LINKED" THEN Goto("wake", "lock") ELSE UNCHANGED stage_of
  /\ UNCHANGED <<radio, mac, lps, by, lock, stack, call, history>>

\* spin_lock_irqsave(&rtlpriv->locks.lps_lock).
TakeLpsLock(t) ==
  /\ At(t, "lock") /\ lock = Nobody
  /\ lock' = t
  /\ Goto(t, "enter")
  /\ UNCHANGED <<radio, mac, lps, by, stack, pend, call, history>>

----------------------------------------------------------------------------
(* mac80211's calls                                                         *)

RacesSeen == Cardinality({i \in 1 .. 3 : history[i]})

\* The stack may make its next call.
Free == StackAt("rest") /\ RacesSeen <= MaxRaces

\* Mutant: < for <= in the comparison with RF_CHANGE_BY_IPS.
NicOn_StrictlyBelow ==
  /\ pend' = pend \ {"off"}
  /\ IF rf # "ON" /\ ~swrf /\ reason = {}
     THEN Goto("stk", "enter") /\ swrf' = TRUE
     ELSE UNCHANGED <<stage_of, swrf>>
  /\ raced' = (raced \/ ~At("off", "rest"))
  /\ UNCHANGED <<rf, reason, inprog, halted, nic, by, lock, slept, broken>>

\* rtl_ips_nic_on: the work is cancelled, not waited for.
NicOn ==
  /\ pend' = pend \ {"off"}
  /\ IF rf # "ON" /\ ~swrf /\ reason \subseteq {"IPS"}
     THEN Goto("stk", "enter") /\ swrf' = TRUE
     ELSE UNCHANGED <<stage_of, swrf>>
  /\ raced' = (raced \/ ~At("off", "rest"))
  /\ UNCHANGED <<rf, reason, inprog, halted, nic, by, lock, slept, broken>>

Begin(o) == Free /\ call' = o
NoRadio == UNCHANGED <<radio, threads, history>>

\* rtl_op_start with rtl_pci_start; a failed hw_init leaves the hal stopped.
\* (It returns 0 and starts nothing while the driver is being probed or
\* removed: the hal stays stopped, where the model begins.)
OpStart ==
  /\ Free /\ ~hal
  /\ \E ok \in BOOLEAN :
       /\ hal' = ok /\ nic' = ok
       /\ halted' = (halted /\ ~ok)
  /\ UNCHANGED <<rf, reason, inprog, swrf, link, scanning, skip, p2p, lps, threads,
                 idle, conf_ps, mlme, vif, pend, call, history>>

\* rtl_op_add_interface.
AddInterface ==
  /\ Begin("add") /\ hal /\ ~vif
  /\ NicOn
  /\ UNCHANGED <<mac, lps, idle, conf_ps, mlme, vif>>

AddInterfaceEnd ==
  /\ StackAt("add")
  /\ vif' = TRUE /\ call' = "all"
  /\ NoRadio
  /\ UNCHANGED <<mac, lps, idle, conf_ps, mlme, pend>>

\* The first rtl_op_config: everything changes, idle and without PS.
ConfigAll ==
  /\ StackAt("all")
  /\ call' = "rest" /\ idle' = TRUE
  /\ pend' = {"off"}
  /\ swps' = FALSE
  /\ NoRadio
  /\ UNCHANGED <<mac, multi, conf_ps, mlme, vif>>

\* rtl_op_config of any kind returns at once while a scan is skipped.
ConfigSkipped ==
  /\ Free /\ vif /\ skip
  /\ \/ mlme = "assoc" /\ conf_ps' = ~conf_ps
     \/ UNCHANGED conf_ps
  /\ slept' = TRUE
  /\ UNCHANGED <<radio, mac, lps, threads, idle, mlme, vif, pend, call, raced, broken>>

\* IEEE80211_CONF_CHANGE_IDLE, idle: rtl_ips_nic_off.
ConfigIdle ==
  /\ Free /\ vif /\ ~skip /\ ~idle /\ mlme = "none" /\ ~scanning
  /\ idle' = TRUE
  /\ pend' = pend \cup {"off"}
  /\ NoRadio
  /\ UNCHANGED <<mac, lps, conf_ps, mlme, vif, call>>

\* IEEE80211_CONF_CHANGE_IDLE, no longer idle.
ConfigBusy ==
  /\ Begin("cfg") /\ vif /\ ~skip /\ idle
  /\ idle' = FALSE
  /\ NicOn
  /\ UNCHANGED <<mac, lps, conf_ps, mlme, vif>>

\* What every other change, and rtl_op_stop, begins with: a radio that is off
\* is switched on.  o says what is left to do.
NicOnIfOff(o) ==
  /\ Begin(o)
  /\ IF rf = "OFF"
     THEN NicOn
     ELSE NoRadio /\ UNCHANGED pend
  /\ UNCHANGED <<mac, lps>>

Config ==
  /\ vif /\ ~skip
  /\ NicOnIfOff("cfg")
  /\ UNCHANGED <<idle, conf_ps, mlme, vif>>

\* IEEE80211_CONF_CHANGE_PS: mac80211 asks for it of an associated station.
ConfigPs ==
  /\ vif /\ ~skip /\ mlme = "assoc"
  /\ NicOnIfOff(IF conf_ps THEN "ps_off" ELSE "ps_on")
  /\ conf_ps' = ~conf_ps
  /\ UNCHANGED <<idle, mlme, vif>>

\* The end of rtl_op_config, or of rtl_op_sw_scan_start.
ConfigEnd ==
  /\ StackAt("cfg") \/ StackAt("scan")
  /\ call' = "rest"
  /\ NoRadio
  /\ UNCHANGED <<mac, lps, stack, pend>>

ConfigPsOn ==
  /\ StackAt("ps_on")
  /\ pend' = (pend \ {"ps", "wake"}) \cup (IF multi THEN {} ELSE {"ps"})
  /\ swps' = TRUE
  /\ call' = "rest"
  /\ NoRadio
  /\ UNCHANGED <<mac, multi, stack>>

ConfigPsOff ==
  /\ StackAt("ps_off")
  /\ pend' = pend \ {"ps", "wake"}
  /\ IF link = "LINKED"
     THEN Goto("stk", "lock") /\ by' = "PS"
     ELSE UNCHANGED <<stage_of, by>>
  /\ call' = "ps_end"
  /\ slept' = (slept \/ At("ps", "lock") \/ (link # "LINKED" /\ ~At("ps", "rest")))
  /\ UNCHANGED <<radio, mac, lps, lock, stack, raced, broken>>

ConfigPsOffEnd ==
  /\ StackAt("ps_end")
  /\ swps' = FALSE
  /\ call' = "rest"
  /\ NoRadio
  /\ UNCHANGED <<mac, multi, stack, pend>>

\* rtl_op_tx of an authentication frame, rtl_tx_mgmt_proc.
TxAuth ==
  /\ Begin("auth") /\ vif /\ hal /\ ~idle /\ ~scanning /\ mlme = "none"
  /\ rf = "ON"
  /\ mlme' = "auth"
  /\ NicOn
  /\ UNCHANGED <<mac, lps, idle, conf_ps, vif>>

TxAuthEnd ==
  /\ StackAt("auth")
  /\ link' = "LINKING"
  /\ call' = "rest"
  /\ NoRadio
  /\ UNCHANGED <<hal, scanning, skip, p2p, lps, stack, pend>>

\* The access point does not answer; the driver is not told.
AuthFails ==
  /\ Free /\ mlme = "auth"
  /\ mlme' = "none"
  /\ NoRadio
  /\ UNCHANGED <<mac, lps, idle, conf_ps, vif, pend, call>>

\* rtl_op_bss_info_changed, BSS_CHANGED_ASSOC.
Assoc ==
  /\ Free /\ mlme = "auth" /\ rf = "ON" /\ ~scanning
  /\ mlme' = "assoc" /\ link' = "LINKED"
  /\ NoRadio
  /\ UNCHANGED <<hal, scanning, skip, p2p, lps, idle, conf_ps, vif, pend, call>>

\* mac80211 leaves PS mode before it reports the loss of the link.
Unassoc ==
  /\ Free /\ mlme = "assoc" /\ ~conf_ps
  /\ mlme' = "none" /\ link' = "NOLINK"
  /\ NoRadio
  /\ UNCHANGED <<hal, scanning, skip, p2p, lps, idle, conf_ps, vif, pend, call>>

\* rtl_op_sw_scan_start when the traffic is too high to scan.
ScanSkipped ==
  /\ Free /\ vif /\ ~idle /\ ~scanning /\ link = "LINKED"
  /\ scanning' = TRUE /\ skip' = TRUE
  /\ NoRadio
  /\ UNCHANGED <<hal, link, p2p, lps, idle, conf_ps, mlme, vif, pend, call>>

\* rtl_op_sw_scan_start.
ScanStart ==
  /\ Begin("scan") /\ vif /\ ~idle /\ ~scanning /\ mlme # "auth"
  /\ scanning' = TRUE
  /\ IF link = "LINKED"
     THEN /\ link' = "SCANNING"
          /\ slept' = (slept \/ rf = "SLEEP" \/ ~At("ps", "rest"))
          /\ UNCHANGED <<radio, threads, pend, raced, broken>>
     ELSE NicOn /\ UNCHANGED link
  /\ UNCHANGED <<hal, skip, p2p, lps, idle, conf_ps, mlme, vif>>

\* rtl_op_sw_scan_complete: a scan that has changed the channel three times is
\* taken for one of P2P; the number of changes is left open.  It returns before
\* that, and before it restores the link state, when the traffic (of a linked
\* station) has become high.
ScanComplete ==
  /\ Free /\ scanning
  /\ scanning' = FALSE /\ skip' = FALSE
  /\ \E busy \in (IF link \in {"LINKED", "SCANNING"} THEN BOOLEAN ELSE {FALSE}) :
       /\ link' = IF link = "SCANNING" /\ ~busy THEN "LINKED" ELSE link
       /\ p2p' \in (IF busy THEN {p2p} ELSE BOOLEAN)
  /\ NoRadio
  /\ UNCHANGED <<hal, lps, idle, conf_ps, mlme, vif, pend, call>>

\* rtl_op_set_key.
SetKey ==
  /\ Begin("key") /\ vif
  /\ NicOn
  /\ UNCHANGED <<hal, link, scanning, skip, p2p, lps, idle, conf_ps, mlme, vif>>

SetKeyEnd ==
  /\ StackAt("key")
  /\ call' = "rest"
  /\ NoRadio
  /\ UNCHANGED <<hal, link, scanning, skip, p2p, lps, stack, pend>>

\* rtl_op_remove_interface: mac80211 has ended scan and link before.
RemoveInterface ==
  /\ Free /\ vif /\ mlme = "none" /\ ~scanning
  /\ vif' = FALSE /\ link' = "NOLINK"
  /\ NoRadio
  /\ UNCHANGED <<hal, scanning, skip, p2p, lps, idle, conf_ps, mlme, pend, call>>

\* rtl_op_stop.
OpStop ==
  /\ hal /\ ~vif
  /\ NicOnIfOff("stop")
  /\ UNCHANGED <<idle, conf_ps, mlme, vif>>

\* ... rtl_deinit_deferred_work and rtl_pci_stop up to its wait.
OpStopDeinit ==
  /\ StackAt("stop")
  /\ link' = "NOLINK" /\ hal' = FALSE
  /\ CancelWorks
  /\ call' = "stop_wait"
  /\ NoRadio
  /\ UNCHANGED <<scanning, skip, p2p, lps, stack>>

\* ... which takes the flag after 100 ms whoever holds it.
OpStopTake ==
  /\ StackAt("stop_wait")
  /\ inprog => LongChange
  /\ broken' = (broken \/ inprog)
  /\ inprog' = TRUE
  /\ call' = "stop_hw"
  /\ UNCHANGED <<rf, reason, swrf, halted, nic, mac, lps, threads, stack, pend,
                 raced, slept>>

\* ... and gives it back, unless the firmware was not found (max_fw_size is 0
\* then), for which the driver is being unbound.
OpStopDisable ==
  /\ StackAt("stop_hw")
  /\ \E halts \in BOOLEAN : CardDisable(halts)
  /\ \/ inprog' = FALSE /\ call' = "rest"
     \/ call' = "gone" /\ UNCHANGED inprog
  /\ UNCHANGED <<rf, reason, swrf, hal, scanning, skip, p2p, lps, threads,
                 stack, pend, history>>

\* rtl_swlps_beacon: a beacon of the network, heard by a radio that is on;
\* without buffered multicast the radio may sleep again.
Beacon ==
  /\ hal /\ rf = "ON" /\ link = "LINKED" /\ swps /\ conf_ps
  /\ \E m \in BOOLEAN :
       /\ multi' = m
       /\ pend' = IF m THEN pend ELSE pend \cup {"ps"}
  /\ NoRadio
  /\ UNCHANGED <<mac, swps, stack, call>>

----------------------------------------------------------------------------

SetRfStep(t) ==
  \/ SetRfEnter(t) \/ SetRfTimeout(t) \/ RfUnchanged(t) \/ RfOn(t) \/ RfOff(t)
  \/ RfSleep(t) \/ SetRfLeave(t)

OffStep == SetRfStep("off") \/ NicOffRun
PsStep == SetRfStep("ps") \/ PsWorkRun \/ PsWorkReturn \/ TakeLpsLock("ps")
WakeStep == SetRfStep("wake") \/ WakeRun \/ TakeLpsLock("wake")

\* What the stack does of an operation it has begun.
StackContinues ==
  \/ SetRfStep("stk") \/ TakeLpsLock("stk")
  \/ AddInterfaceEnd \/ ConfigAll \/ ConfigEnd \/ ConfigPsOn \/ ConfigPsOff
  \/ ConfigPsOffEnd \/ TxAuthEnd \/ SetKeyEnd
  \/ OpStopDeinit \/ OpStopTake \/ OpStopDisable

StackBegins ==
  \/ OpStart \/ AddInterface \/ ConfigSkipped \/ ConfigIdle \/ ConfigBusy
  \/ Config \/ ConfigPs \/ TxAuth \/ AuthFails \/ Assoc \/ Unassoc
  \/ ScanSkipped \/ ScanStart \/ ScanComplete \/ SetKey
  \/ RemoveInterface \/ OpStop

Next ==
  \/ OffStep \/ PsStep \/ WakeStep \/ StackContinues \/ StackBegins
  \/ Beacon

Spec == Init /\ [][Next]_vars

\* The work queue runs what is queued, a spin lock is eventually obtained and
\* an operation that was begun goes on; mac80211 need not call again.
Fairness ==
  /\ WF_vars(OffStep) /\ WF_vars(StackContinues)
  /\ SF_vars(PsStep) /\ SF_vars(WakeStep)

FairSpec == Spec /\ Fairness

----------------------------------------------------------------------------
(* Properties                                                               *)

\* A linked station that sleeps wakes up again, whatever PS changes, beacons
\* and works intervene.  (Unless the sleep was decided before PS mode was left
\* and carried out afterwards, or a scan began over it: rtl_swlps_rf_awake
\* does nothing while the state is not MAC80211_LINKED.)
SleepEnds ==
  (rf = "SLEEP" /\ link = "LINKED") ~> (rf = "ON" \/ link # "LINKED" \/ slept)

\* An idle interface without a link does not keep its radio on: the queued
\* nic_off work switches it off unless the stack calls again.  (Unless a scan
\* was taken for one of P2P: the work then does nothing and the radio stays on
\* until the interface has been busy and idle again with p2p_in_use cleared.)
IdleGoesOff ==
  ("off" \in pend /\ vif /\ idle /\ link = "NOLINK" /\ StackAt("rest"))
    ~> (rf # "ON" \/ p2p \/ ~vif \/ ~idle \/ ~StackAt("rest"))
=============================================================================
