-------------------------------- MODULE Join --------------------------------
(***************************************************************************)
(* Joining and leaving a network in the r92su driver: r92su_connect,       *)
(* r92su_join_ibss, r92su_disconnect, the connect and disconnect works,    *)
(* the join and del_sta events, and what r92su_open, r92su_stop and        *)
(* r92su_change_virtual_intf do to them (r92su/main.c, r92su/event.c).     *)
(*                                                                         *)
(* The contexts are those of module Scan: user (the RTNL holder), worker   *)
(* (the work queue's thread) and irq (the receive handler, under no lock). *)
(* Every section under r92su->lock is one action: irq touches nothing that *)
(* these sections read twice except the state, and a r92su_mark_dead that  *)
(* lands between a test and r92su_set_state is overwritten without leaving *)
(* a trace in these variables.  What runs outside of the lock, the end of  *)
(* the connect work and the cancellations of r92su_stop, has steps of its  *)
(* own.                                                                    *)
(*                                                                         *)
(* One network is in reach.  Its struct r92su_bss_priv lives in cfg80211's *)
(* entry, so assoc_ie and group_key outlive the driver's interest in it.   *)
(* A pointer is "null", valid or "freed" (it dangles).  The wait inside    *)
(* r92su_internal_scan is the gap between ConnectEnter and the steps from  *)
(* user = "connect"; module Scan has its details.                          *)
(***************************************************************************)
EXTENDS JoinState, Naturals, Sequences, SequencesExt

CONSTANT
  IfTypes       \* interface types the user may select

ASSUME IfTypesAssumption == IfTypes \subseteq {"station", "adhoc", "monitor"}

\* What only the user's requests change.
ifvars == <<iftype, retried>>

bssvars == <<want_connect_bss, connect_bss, connect_result, assoc_ie,
             group_key, sta>>
vars == <<state, iftype, link, user, worker, queue, irq, bssvars, sme,
          fw_join, retried>>

Works == {"connect", "disconnect"}

TypeOK ==
  /\ state \in {"dead", "unload", "stop", "open", "connected"}
  /\ iftype \in {"station", "adhoc", "monitor"}
  /\ link \in {"down", "up"}
  /\ user \in {"idle", "connect", "stop", "cancel_connect",
               "cancel_disconnect", "unregister", "gone"}
  /\ worker \in Works \cup {"idle", "connect_free"}
  /\ queue \in Seq(Works) /\ IsInjective(queue)
  /\ irq \in {"idle", "join_queue"}
  /\ want_connect_bss \in {"null", "bss"}
  /\ connect_bss \in {"null", "bss"}
  /\ connect_result \in {"null", "ok", "fail", "freed"}
  /\ assoc_ie \in {"null", "valid", "freed"}
  /\ group_key \in {"null", "valid", "freed"}
  /\ sta \in {"null", "valid"}
  /\ sme \in {"idle", "connecting", "connected"}
  /\ fw_join \in {"idle", "busy"}
  /\ retried \in BOOLEAN

Init ==
  /\ state = "stop"
  /\ iftype = "station"
  /\ link = "down"
  /\ user = "idle"
  /\ worker = "idle"
  /\ queue = << >>
  /\ irq = "idle"
  /\ want_connect_bss = "null" /\ connect_bss = "null"
  /\ connect_result = "null"
  /\ assoc_ie = "null" /\ group_key = "null" /\ sta = "null"
  /\ sme = "idle"
  /\ fw_join = "idle"
  /\ retried = FALSE

(***************************************************************************)
(* State tests, the work queue, kfree                                      *)
(***************************************************************************)
r92su_is_open == state \in {"open", "connected"}
r92su_is_connected == state = "connected"

InQueue(w) == \E i \in DOMAIN queue : queue[i] = w

\* queue_work: a no-op for a work that is already pending.
QueueWork(w) == IF InQueue(w) THEN queue ELSE Append(queue, w)

\* cancel_work: takes a pending work off the queue.
CancelWork(w) ==
  IF InQueue(w)
  THEN RemoveAt(queue, CHOOSE i \in DOMAIN queue : queue[i] = w)
  ELSE queue

KFree(p) == IF p = "null" THEN "null" ELSE "freed"

(***************************************************************************)
(* Leaving a network                                                       *)
(***************************************************************************)

\* r92su_bss_free: assoc_ie is freed but the pointer is not reset.
r92su_bss_free ==
  /\ assoc_ie' = KFree(assoc_ie)
  /\ group_key' = "null"
  /\ sta' = "null"

\* Mutant: the state stays R92SU_CONNECTED.
r92su_bss_free_connected_KeepsState ==
  /\ connect_bss' = "null"
  /\ IF connect_bss = "bss"
     THEN r92su_bss_free
     ELSE UNCHANGED <<assoc_ie, group_key, sta>>
  /\ UNCHANGED <<state, want_connect_bss, connect_result>>

r92su_bss_free_connected ==
  /\ state' = IF r92su_is_connected THEN "open" ELSE state
  /\ connect_bss' = "null"
  /\ IF connect_bss = "bss"
     THEN r92su_bss_free
     ELSE UNCHANGED <<assoc_ie, group_key, sta>>
  /\ UNCHANGED <<want_connect_bss, connect_result>>

(***************************************************************************)
(* User: interface up, interface type                                      *)
(***************************************************************************)

\* An earlier join has not been worked off: neither r92su_disconnect nor a
\* new request takes it back.
join_under_way ==
  \/ fw_join = "busy" \/ irq = "join_queue"
  \/ InQueue("connect") \/ worker \in {"connect", "connect_free"}

\* r92su_open; a failure changes nothing here.  The firmware starts afresh.
r92su_open ==
  /\ user = "idle" /\ link = "down"
  /\ state = "stop"
  /\ state' = IF iftype = "monitor" THEN "connected" ELSE "open"
  /\ link' = "up"
  /\ fw_join' = "idle"
  /\ retried' = FALSE
  /\ UNCHANGED <<iftype, user, worker, queue, irq, bssvars, sme>>

\* cfg80211 forgets a pending join when the type changes.
r92su_change_virtual_intf(t) ==
  /\ user = "idle"
  /\ state = "stop"
  /\ iftype' = t
  /\ sme' = IF t = iftype THEN sme ELSE "idle"
  /\ UNCHANGED <<state, link, user, worker, queue, irq, bssvars, fw_join,
                 retried>>

(***************************************************************************)
(* User: joining                                                           *)
(***************************************************************************)

\* r92su_connect or r92su_join_ibss is called and r92su_internal_scan
\* begins.  cfg80211 lets a station ask again while a join is pending.
ConnectEnter ==
  /\ user = "idle" /\ link = "up"
  /\ \/ iftype = "station" /\ sme # "connected"
     \/ iftype = "adhoc" /\ sme = "idle"
  /\ retried' = (retried \/ join_under_way)
  /\ sme' = "connecting"
  /\ user' = "connect"
  /\ UNCHANGED <<state, iftype, link, worker, queue, irq, bssvars, fw_join>>

\* cfg80211 after a refused request: what the driver reported in the
\* meantime is looked at when the request is over.
SmeAfterError == IF connect_bss = "bss" THEN "connected" ELSE "idle"

\* r92su_internal_scan returns an error.
ConnectNoScan ==
  /\ user = "connect"
  /\ sme' = SmeAfterError
  /\ user' = "idle"
  /\ UNCHANGED <<state, ifvars, link, worker, queue, irq, bssvars, fw_join>>

\* The device is closed by now (or, for an IBSS, cfg80211_inform_bss fails):
\* err is still 0 from the scan, so the caller believes in a pending join.
ConnectNothing ==
  /\ user = "connect"
  /\ r92su_is_open => iftype = "adhoc"
  /\ user' = "idle"
  /\ UNCHANGED <<state, ifvars, link, worker, queue, irq, bssvars, sme,
                 fw_join>>

\* r92su_connect_set_shared_key: a station may bring a WEP key.
SharedKey ==
  \/ UNCHANGED group_key
  \/ iftype = "station" /\ group_key' = "valid"

\* The error paths under "out:".  A refused key upload leaves a freed key in
\* the slot unless an uploaded one is there; a refused join command leaves
\* assoc_ie dangling and the key in place.
ConnectError ==
  /\ user = "connect"
  /\ r92su_is_open
  /\ \/ \* cfg80211_get_bss: no such network
        iftype = "station" /\ UNCHANGED <<assoc_ie, group_key>>
     \/ \* r92su_connect_set_auth, r92su_ibss_build_ie, ..._build_fw_bss
        assoc_ie' = KFree(assoc_ie) /\ UNCHANGED group_key
     \/ \* r92su_connect_set_shared_key: the upload is refused
        /\ iftype = "station"
        /\ assoc_ie' = KFree(assoc_ie)
        /\ group_key' = IF group_key = "valid" THEN "valid" ELSE "freed"
     \/ \* r92su_internal_connect: no memory, or a refused command
        assoc_ie' \in {"null", "freed"} /\ SharedKey
  /\ want_connect_bss' = "null"
  /\ sme' = SmeAfterError
  /\ user' = "idle"
  /\ UNCHANGED <<state, ifvars, link, worker, queue, irq, connect_bss,
                 connect_result, sta, fw_join>>

\* r92su_internal_connect: the join command goes to the firmware.
ConnectJoin ==
  /\ user = "connect"
  /\ r92su_is_open
  /\ SharedKey
  /\ assoc_ie' = "valid"
  /\ want_connect_bss' = "bss"
  /\ fw_join' = "busy"
  /\ user' = "idle"
  /\ UNCHANGED <<state, ifvars, link, worker, queue, irq, connect_bss,
                 connect_result, sta, sme>>

(***************************************************************************)
(* User: leaving, interface down, unplug                                   *)
(***************************************************************************)

\* r92su_disconnect and r92su_leave_ibss.  cfg80211 calls them for a
\* connection and for a pending one; an IBSS it considers left afterwards.
LeaveNetwork ==
  /\ sme # "idle"
  /\ r92su_bss_free_connected
  /\ sme' = IF reports_disconnect \/ iftype = "adhoc" THEN "idle" ELSE sme

r92su_disconnect ==
  /\ user = "idle" /\ link = "up"
  /\ LeaveNetwork
  /\ UNCHANGED <<ifvars, link, user, worker, queue, irq, fw_join>>

\* NETDEV_GOING_DOWN: cfg80211 leaves the network before ndo_stop.
GoingDown ==
  /\ user = "idle" /\ link = "up"
  /\ user' = "stop"
  /\ \/ LeaveNetwork
     \/ sme = "idle" /\ UNCHANGED <<state, bssvars, sme>>
  /\ UNCHANGED <<ifvars, link, worker, queue, irq, fw_join>>

\* r92su_stop, the section under the lock.
StopLocked ==
  LET leaves == r92su_is_connected /\ connect_bss = "bss"
  IN
  /\ user = "stop"
  /\ state' = IF r92su_is_open THEN "stop" ELSE state
  /\ connect_bss' = IF r92su_is_connected THEN "null" ELSE connect_bss
  /\ want_connect_bss' = "null"
  /\ sme' = IF leaves /\ iftype = "station" THEN "idle" ELSE sme
  /\ IF leaves \/ want_connect_bss = "bss"
     THEN assoc_ie' = KFree(assoc_ie) /\ group_key' = "null"
     ELSE UNCHANGED <<assoc_ie, group_key>>
  /\ sta' = "null"
  /\ user' = "cancel_connect"
  /\ UNCHANGED <<ifvars, link, worker, queue, irq, connect_result, fw_join>>

\* cancel_work_sync(connect_bss_work)
StopCancelConnect ==
  /\ user = "cancel_connect"
  /\ worker \in {"idle", "disconnect"}
  /\ queue' = CancelWork("connect")
  /\ user' = "cancel_disconnect"
  /\ UNCHANGED <<state, ifvars, link, worker, irq, bssvars, sme, fw_join>>

\* cancel_work_sync(disconnect_work)
StopCancelDisconnect ==
  /\ user = "cancel_disconnect" /\ worker # "disconnect"
  /\ queue' = CancelWork("disconnect")
  /\ link' = "down"
  /\ user' = "idle"
  /\ UNCHANGED <<state, ifvars, worker, irq, bssvars, sme, fw_join>>

\* r92su_unregister, after unregister_netdev closed the interface.
UnregisterBegin ==
  /\ user = "idle" /\ link = "down"
  /\ state' = "unload"
  /\ user' = "unregister"
  /\ UNCHANGED <<ifvars, link, worker, queue, irq, bssvars, sme, fw_join>>

\* destroy_workqueue drains the queue.
UnregisterEnd ==
  /\ user = "unregister" /\ worker = "idle" /\ queue = << >>
  /\ user' = "gone"
  /\ UNCHANGED <<state, ifvars, link, worker, queue, irq, bssvars, sme,
                 fw_join>>

(***************************************************************************)
(* The work queue                                                          *)
(***************************************************************************)

\* The thread takes the next work, which is no longer pending.
StartWork ==
  /\ worker = "idle" /\ queue # << >>
  /\ worker' = Head(queue)
  /\ queue' = Tail(queue)
  /\ UNCHANGED <<state, ifvars, link, user, irq, bssvars, sme, fw_join>>

r92su_disconnect_work ==
  /\ worker = "disconnect"
  /\ r92su_bss_free_connected
  /\ sme' = IF reports_disconnect THEN "idle" ELSE sme
  /\ worker' = "idle"
  /\ UNCHANGED <<ifvars, link, user, queue, irq, fw_join>>

\* r92su_bss_connect_work, the early exits.  With no join wanted the result
\* is freed and connect_result keeps pointing at it; with no result the
\* network is freed although want_connect_bss keeps pointing at it.
ConnectWorkOut ==
  /\ worker = "connect"
  /\ \/ /\ ~r92su_is_open
        /\ worker' = "idle"
        /\ UNCHANGED connect_result
     \/ /\ r92su_is_open /\ want_connect_bss = "null"
        /\ connect_result' = KFree(connect_result)
        /\ worker' = "idle"
     \/ /\ r92su_is_open /\ want_connect_bss = "bss" /\ connect_result = "null"
        /\ worker' = "connect_free"
        /\ UNCHANGED connect_result
  /\ UNCHANGED <<state, ifvars, link, user, queue, irq, want_connect_bss,
                 connect_bss, assoc_ie, group_key, sta, sme, fw_join>>

\* Mutant: a failed join is not reported.
ConnectWorkFail_Silent ==
  /\ worker = "connect"
  /\ r92su_is_open /\ want_connect_bss = "bss" /\ connect_result # "null"
  /\ connect_result' = "null"
  /\ assoc_ie' = "null"
  /\ worker' = "connect_free"
  /\ UNCHANGED <<state, ifvars, link, user, queue, irq, want_connect_bss,
                 connect_bss, group_key, sta, sme, fw_join>>

\* A refused, malformed or unaffordable join; only a station is told.
\* want_connect_bss is left in place.
ConnectWorkFail ==
  /\ worker = "connect"
  /\ r92su_is_open /\ want_connect_bss = "bss" /\ connect_result # "null"
  /\ connect_result' = "null"
  /\ sme' = IF iftype = "station" THEN "idle" ELSE sme
  /\ assoc_ie' = "null"
  /\ worker' = "connect_free"
  /\ UNCHANGED <<state, ifvars, link, user, queue, irq, want_connect_bss,
                 connect_bss, group_key, sta, fw_join>>

\* Mutant: the status of a successful join is not updated.
ConnectWorkJoin_WrongStatus ==
  /\ worker = "connect"
  /\ r92su_is_open /\ want_connect_bss = "bss"
  /\ connect_result \in {"ok", "freed"}
  /\ connect_result' = "null"
  /\ sta' = "valid"
  /\ connect_bss' = "bss"
  /\ want_connect_bss' = "null"
  /\ state' = "connected"
  /\ sme' = "idle"
  /\ assoc_ie' = "null"
  /\ worker' = "idle"
  /\ UNCHANGED <<ifvars, link, user, queue, irq, group_key, fw_join>>

\* A successful join.
ConnectWorkJoin ==
  /\ worker = "connect"
  /\ r92su_is_open /\ want_connect_bss = "bss"
  /\ connect_result \in {"ok", "freed"}
  /\ connect_result' = "null"
  /\ sta' = "valid"
  /\ connect_bss' = "bss"
  /\ want_connect_bss' = "null"
  /\ state' = "connected"
  /\ sme' = "connected"
  /\ assoc_ie' = "null"
  /\ worker' = "idle"
  /\ UNCHANGED <<ifvars, link, user, queue, irq, group_key, fw_join>>

\* The network of a failed join is freed after the lock was released.
ConnectWorkFree ==
  /\ worker = "connect_free"
  /\ r92su_bss_free
  /\ worker' = "idle"
  /\ UNCHANGED <<state, ifvars, link, user, queue, irq, want_connect_bss,
                 connect_bss, connect_result, sme, fw_join>>

(***************************************************************************)
(* C2H events, in the completion handler of a receive URB                  *)
(***************************************************************************)

\* The handler is idle and r92su_rx_usb_cb lets the transfer pass.
IrqReady == irq = "idle" /\ state \notin {"dead", "unload"}

\* c2h_join_bss_event: a second result is ignored; "null" if kmemdup fails.
JoinEvent(r) ==
  /\ IrqReady /\ fw_join = "busy"
  /\ fw_join' = "idle"
  /\ IF connect_result # "null"
     THEN UNCHANGED <<connect_result, irq>>
     ELSE connect_result' = r /\ irq' = "join_queue"
  /\ UNCHANGED <<state, ifvars, link, user, worker, queue, want_connect_bss,
                 connect_bss, assoc_ie, group_key, sta, sme>>

JoinQueue ==
  /\ irq = "join_queue"
  /\ irq' = "idle"
  /\ queue' = QueueWork("connect")
  /\ UNCHANGED <<state, ifvars, link, user, worker, bssvars, sme, fw_join>>

\* c2h_del_sta_event: the access point, or the IBSS peer, is gone.  It comes
\* through on a stopped interface too: the work is then queued for nothing.
c2h_del_sta_event ==
  /\ IrqReady
  /\ IF iftype = "station"
     THEN queue' = QueueWork("disconnect") /\ UNCHANGED sta
     ELSE sta' = "null" /\ UNCHANGED queue
  /\ UNCHANGED <<state, ifvars, link, user, worker, irq, want_connect_bss,
                 connect_bss, connect_result, assoc_ie, group_key, sme,
                 fw_join>>

\* A malformed or unknown event, a clipped transfer, an USB error.
r92su_mark_dead ==
  /\ state \notin {"dead", "unload"}
  /\ state' = "dead"
  /\ UNCHANGED <<ifvars, link, user, worker, queue, irq, bssvars, sme,
                 fw_join>>

(***************************************************************************)
(* The specification.  Fairness: the work queue's thread and an interrupt  *)
(* handler that has started make progress.                                 *)
(***************************************************************************)
UserNext ==
  \/ r92su_open
  \/ \E t \in IfTypes : r92su_change_virtual_intf(t)
  \/ ConnectEnter \/ ConnectNoScan \/ ConnectNothing \/ ConnectError
  \/ ConnectJoin
  \/ r92su_disconnect
  \/ GoingDown \/ StopLocked \/ StopCancelConnect \/ StopCancelDisconnect
  \/ UnregisterBegin \/ UnregisterEnd

ConnectWork ==
  ConnectWorkOut \/ ConnectWorkFail \/ ConnectWorkJoin \/ ConnectWorkFree

WorkerNext == StartWork \/ r92su_disconnect_work \/ ConnectWork

IrqNext ==
  \/ \E r \in {"ok", "fail", "null"} : JoinEvent(r)
  \/ JoinQueue
  \/ c2h_del_sta_event
  \/ r92su_mark_dead

Next == UserNext \/ WorkerNext \/ IrqNext

Spec == Init /\ [][Next]_vars

Fairness ==
  /\ WF_vars(StartWork)
  /\ WF_vars(r92su_disconnect_work)
  /\ WF_vars(ConnectWork)
  /\ WF_vars(JoinQueue)

FairSpec == Spec /\ Fairness

(***************************************************************************)
(* Properties                                                              *)
(***************************************************************************)

\* A join event the driver accepts while a station waits for it is reported
\* to cfg80211, unless the device leaves R92SU_OPEN or the join is given up.
AcceptedJoinReported ==
  (/\ irq = "join_queue" /\ connect_result \in {"ok", "fail"}
   /\ want_connect_bss = "bss" /\ state = "open" /\ iftype = "station")
  ~> (sme # "connecting" \/ state # "open" \/ want_connect_bss = "null")

-----------------------------------------------------------------------------
(***************************************************************************)
(* What the repository says and the code does not do; no configuration lists *)
(* these, TLC violates each of them in the module's instance.              *)
(***************************************************************************)

\* r92su.h:235 "only valid during connect": assoc_ie is set only while a
\* join is wanted.
AssocIeOnlyDuringConnect == assoc_ie # "null" => want_connect_bss = "bss"

\* main.c:1570 "wait for keys and stas to be freed": no key of the network
\* and no station is left when r92su_stop returns.
KeysFreedByStop == link = "down" => group_key # "valid" /\ sta = "null"
=============================================================================
