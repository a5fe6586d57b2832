----------------------------- MODULE RtlPsState -----------------------------
(***************************************************************************)
(* The state of module RtlPs and the safety properties it has to keep, for *)
(* RtlPs, which adds the steps, and for the theorems in RtlUsbProofs.      *)
(***************************************************************************)

VARIABLES
  rf,       \* ppsc->rfpwr_state: ERFON, ERFOFF, ERFSLEEP
  reason,   \* ppsc->rfoff_reason: RF_CHANGE_BY_IPS < RF_CHANGE_BY_PS
  inprog,   \* ppsc->rfchange_inprogress
  swrf,     \* ppsc->swrf_processing
  halted,   \* RT_IN_PS_LEVEL(ppsc, RT_RF_OFF_LEVL_HALT_NIC)
  nic,      \* the adapter is initialised (hw_init) and not disabled
  hal,      \* !is_hal_stop(rtlhal)
  link,     \* mac->link_state
  scanning, \* mac->act_scanning
  skip,     \* mac->skip_scan
  p2p,      \* mac->p2p_in_use
  swps,     \* psc.sw_ps_enabled
  multi,    \* psc.multi_buffered
  pend,     \* the delayed works that are queued
  lock,     \* the owner of lps_lock
  stage_of, \* per thread, where it is in rtl_ps_set_rf_state
  by,       \* the changesource of the stack's call
  call,     \* what the stack's operation does once nic_on has returned;
            \* "key" stands for sec.being_setkey too
  idle,     \* hw->conf.flags & IEEE80211_CONF_IDLE
  conf_ps,  \* hw->conf.flags & IEEE80211_CONF_PS
  mlme,     \* mac80211's own view of the link
  vif,      \* a station interface exists (mac->opmode)
  raced,    \* history: nic_on was called while the nic_off work was running
  slept,    \* history: a sleep outlived the PS mode, or a scan found one
  broken    \* history: the flag was taken by force, or hw_init failed

At(t, stage) == stage_of[t] = stage
StackAt(o) == call = o /\ At("stk", "rest")

\* Whenever no change is in progress the recorded state of the radio agrees
\* with the recorded reasons - on exactly when nothing keeps it off - and a
\* radio that is not off belongs to an adapter that runs, whatever the works
\* and the stack overtook.  (Not after rtl_pci_stop took the flag by force, nor
\* after hw_init failed ten times, which set_rf_power_state takes for success.)
RadioMatches ==
  ~inprog /\ ~broken =>
    /\ (rf = "ON") = (reason = {})
    /\ hal /\ rf # "OFF" => nic

\* IPS never leaves the stack without its radio: once the interface is not
\* idle, each call of mac80211 returns with a radio that is not off.  (Unless
\* nic_on met a nic_off work that had made its tests - it is cancelled, not
\* waited for - or a late sleep left RF_CHANGE_BY_PS behind, which nic_on
\* does not override.)
WorkKeepsRadio ==
  hal /\ vif /\ ~idle /\ StackAt("rest") /\ ~raced /\ ~slept => rf # "OFF"
=============================================================================
