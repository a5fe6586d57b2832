-------------------------------- MODULE Scan --------------------------------
(***************************************************************************)
(* Scanning in the r92su driver: r92su_scan and r92su_internal_scan, the   *)
(* delayed survey_done_work, the survey events of the firmware, the        *)
(* service work and what r92su_open, r92su_stop and r92su_unregister do to *)
(* all of them (r92su/main.c, r92su/event.c, r92su/hw.c).                  *)
(*                                                                         *)
(* Four contexts interleave:                                               *)
(*   user    the holder of the RTNL: every cfg80211 and netdev operation,  *)
(*           including one that sleeps inside r92su_internal_scan, and the *)
(*           unplug, which needs the RTNL to unregister the netdev;        *)
(*   worker  the driver's single threaded work queue, a FIFO;              *)
(*   irq     the completion handler of the receive URBs: C2H events and    *)
(*           r92su_mark_dead, under no lock;                               *)
(*   service r92su_hw_service_work, on the system's queue.                 *)
(* The mutex r92su->lock is shared by user, worker and service.  A section *)
(* under it is one action unless irq can make a difference in its middle;  *)
(* then it is several, and Locked holds between them.                      *)
(*                                                                         *)
(* Every handler is restricted to the variables declared here; what the    *)
(* same handlers do to a join is in module Join.  R92SU_OPEN and           *)
(* R92SU_CONNECTED are both "open": r92su_is_open does not tell them       *)
(* apart.  The two join works, which share the queue and always run to     *)
(* completion, are left out: they only delay the works modelled here.      *)
(***************************************************************************)
EXTENDS Naturals, Sequences, SequencesExt

CONSTANTS
  MaxDone,     \* bound: unconsumed completions of scan_done
  MaxList      \* bound: entries of add_bss_list

ASSUME BoundsAssumption == MaxDone \in Nat \ {0} /\ MaxList \in Nat \ {0}

VARIABLES
  state,         \* enum r92su_state_t, as far as r92su_is_open tells
  link,          \* "up" while IFF_UP is set
  user,          \* where the RTNL holder is
  worker,        \* the work the queue's thread is running
  queue,         \* FIFO of queued works; a pending work is not queued twice
  timer,         \* "armed": survey_done_work waits for its delay
  irq,           \* where the receive handler is
  service,       \* "on": service_work is pending
  scan_request,  \* r92su->scan_request
  scan_done,     \* completion scan_done: its counter
  scanned,       \* "yes": r92su->scanned
  add_bss_list,  \* length of the llist of surveyed networks
  cfg_scan,      \* external: "req" while cfg80211 has a scan outstanding
  fw_scan        \* external: "busy" while the firmware surveys

workvars == <<worker, queue, timer, service>>
scanvars == <<scan_request, scan_done, scanned, cfg_scan>>
vars == <<state, link, user, workvars, irq, scanvars, add_bss_list, fw_scan>>

Works == {"survey", "add"}

TypeOK ==
  /\ state \in {"dead", "unload", "stop", "open"}
  /\ link \in {"down", "up"}
  /\ user \in {"idle", "open_hw", "open_set", "scan_queue", "isc_queue",
               "isc_wait", "stop", "cancel_survey", "cancel_add", "drain",
               "unregister", "gone"}
  /\ worker \in Works \cup {"idle"}
  /\ queue \in Seq(Works)
  /\ timer \in {"off", "armed"}
  /\ irq \in {"idle", "survey_queue_add", "done_cancel", "done_queue"}
  /\ service \in {"off", "on"}
  /\ scan_request \in {"null", "req"}
  /\ scan_done \in Nat
  /\ scanned \in {"no", "yes"}
  /\ add_bss_list \in Nat
  /\ cfg_scan \in {"null", "req"}
  /\ fw_scan \in {"idle", "busy"}

Init ==
  /\ state = "stop"
  /\ link = "down"
  /\ user = "idle"
  /\ worker = "idle"
  /\ queue = << >>
  /\ timer = "off"
  /\ irq = "idle"
  /\ service = "off"
  /\ scan_request = "null" /\ cfg_scan = "null"
  /\ scan_done = 0
  /\ scanned = "no"
  /\ add_bss_list = 0
  /\ fw_scan = "idle"

(***************************************************************************)
(* The state test, the mutex and the work queue                            *)
(***************************************************************************)
r92su_is_open == state = "open"

\* r92su->lock is held between two actions.
Locked == user \in {"open_hw", "open_set", "scan_queue"}

InQueue(w) == \E i \in DOMAIN queue : queue[i] = w

\* queue_work: a no-op for a work that is already pending.
QueueWork(w) == IF InQueue(w) THEN queue ELSE Append(queue, w)

\* cancel_work: takes a pending work off the queue.
CancelWork(w) ==
  IF InQueue(w)
  THEN RemoveAt(queue, CHOOSE i \in DOMAIN queue : queue[i] = w)
  ELSE queue

survey_pending == timer = "armed" \/ InQueue("survey")

\* queue_delayed_work(wq, survey_done_work, R92SU_SCAN_TIMEOUT)
ArmSurveyTimeout == timer' = IF survey_pending THEN timer ELSE "armed"

(***************************************************************************)
(* User: r92su_open                                                        *)
(***************************************************************************)

\* Up to the first state test.  The uploaded firmware starts from scratch.
OpenBegin ==
  /\ user = "idle" /\ link = "down"
  /\ state = "stop"
  /\ user' = "open_hw"
  /\ fw_scan' = "idle"
  /\ UNCHANGED <<state, link, workvars, irq, scanvars, add_bss_list>>

\* A hardware step fails, or the second state test does.
OpenFail ==
  /\ user = "open_hw"
  /\ user' = "idle"
  /\ UNCHANGED <<state, link, workvars, irq, scanvars, add_bss_list, fw_scan>>

OpenRecheck ==
  /\ user = "open_hw"
  /\ state = "stop"
  /\ user' = "open_set"
  /\ UNCHANGED <<state, link, workvars, irq, scanvars, add_bss_list, fw_scan>>

OpenSet ==
  /\ user = "open_set"
  /\ state' = "open"
  /\ service' = "on"
  /\ link' = "up"
  /\ user' = "idle"
  /\ UNCHANGED <<worker, queue, timer, irq, scanvars, add_bss_list, fw_scan>>

(***************************************************************************)
(* User: r92su_scan.  cfg80211 offers one request at a time; the refusals  *)
(* (-EINVAL, -EAGAIN, a failed command) change nothing.                    *)
(***************************************************************************)
ScanSubmit ==
  /\ user = "idle" /\ link = "up"
  /\ cfg_scan = "null"
  /\ scan_done < MaxDone
  /\ r92su_is_open
  /\ scan_request = "null"
  /\ scan_request' = "req" /\ cfg_scan' = "req"
  /\ fw_scan' = "busy"
  /\ user' = "scan_queue"
  /\ UNCHANGED <<state, link, workvars, irq, scan_done, scanned,
                 add_bss_list>>

\* Mutant: r92su_scan relies on the firmware's done event alone.
ScanQueue_NoTimeout ==
  /\ user = "scan_queue"
  /\ user' = "idle"
  /\ UNCHANGED <<state, link, workvars, irq, scanvars, add_bss_list, fw_scan>>

ScanQueue ==
  /\ user = "scan_queue"
  /\ ArmSurveyTimeout
  /\ user' = "idle"
  /\ UNCHANGED <<state, link, worker, queue, service, irq, scanvars,
                 add_bss_list, fw_scan>>

(***************************************************************************)
(* User: r92su_internal_scan, on behalf of r92su_connect or                *)
(* r92su_join_ibss.  A recent scan makes it return at once.                *)
(***************************************************************************)
InternalScanSubmit ==
  /\ user = "idle" /\ link = "up"
  /\ scan_done < MaxDone
  /\ scanned = "no"
  /\ r92su_is_open
  /\ fw_scan' = "busy"
  /\ user' = "isc_queue"
  /\ UNCHANGED <<state, link, workvars, irq, scanvars, add_bss_list>>

InternalScanQueue ==
  /\ user = "isc_queue"
  /\ ArmSurveyTimeout
  /\ user' = "isc_wait"
  /\ UNCHANGED <<state, link, worker, queue, service, irq, scanvars,
                 add_bss_list, fw_scan>>

\* wait_for_completion(&r92su->scan_done)
InternalScanWait ==
  /\ user = "isc_wait"
  /\ scan_done > 0
  /\ scan_done' = scan_done - 1
  /\ user' = "idle"
  /\ UNCHANGED <<state, link, workvars, irq, scan_request, scanned, cfg_scan,
                 add_bss_list, fw_scan>>

(***************************************************************************)
(* User: r92su_stop                                                        *)
(***************************************************************************)

\* Mutant: the pending request is forgotten instead of reported.
StopLocked_ForgetsScan ==
  /\ user = "idle" /\ link = "up"
  /\ state' = IF r92su_is_open THEN "stop" ELSE state
  /\ scan_request' = "null"
  /\ user' = "cancel_survey"
  /\ UNCHANGED <<link, workvars, irq, scan_done, scanned, cfg_scan,
                 add_bss_list, fw_scan>>

\* The section under the lock.  The scan is reported as aborted.
StopLocked ==
  /\ user = "idle" /\ link = "up"
  /\ state' = IF r92su_is_open THEN "stop" ELSE state
  /\ cfg_scan' = IF scan_request = "req" THEN "null" ELSE cfg_scan
  /\ scan_request' = "null"
  /\ user' = "cancel_survey"
  /\ UNCHANGED <<link, workvars, irq, scan_done, scanned, add_bss_list,
                 fw_scan>>

\* cancel_delayed_work_sync(survey_done_work), then service_work.
StopCancelSurvey ==
  /\ user = "cancel_survey" /\ worker # "survey"
  /\ queue' = CancelWork("survey")
  /\ timer' = "off"
  /\ service' = "off"
  /\ user' = "cancel_add"
  /\ UNCHANGED <<state, link, worker, irq, scanvars, add_bss_list, fw_scan>>

StopCancelAdd ==
  /\ user = "cancel_add" /\ worker # "add"
  /\ queue' = CancelWork("add")
  /\ user' = "drain"
  /\ UNCHANGED <<state, link, worker, timer, service, irq, scanvars,
                 add_bss_list, fw_scan>>

\* Mutant: the list is left to a work that was cancelled.
StopDrain_Keeps ==
  /\ user = "drain"
  /\ link' = "down"
  /\ user' = "idle"
  /\ UNCHANGED <<state, workvars, irq, scanvars, add_bss_list, fw_scan>>

\* llist_del_all: the networks no work will report are dropped.
StopDrain ==
  /\ user = "drain"
  /\ add_bss_list' = 0
  /\ link' = "down"
  /\ user' = "idle"
  /\ UNCHANGED <<state, workvars, irq, scanvars, fw_scan>>

(***************************************************************************)
(* User: r92su_unregister, after unregister_netdev closed the interface    *)
(***************************************************************************)
UnregisterBegin ==
  /\ user = "idle" /\ link = "down"
  /\ state' = "unload"
  /\ user' = "unregister"
  /\ UNCHANGED <<link, workvars, irq, scanvars, add_bss_list, fw_scan>>

\* destroy_workqueue drains the queue.
UnregisterEnd ==
  /\ user = "unregister" /\ worker = "idle" /\ queue = << >>
  /\ user' = "gone"
  /\ UNCHANGED <<state, link, workvars, irq, scanvars, add_bss_list, fw_scan>>

(***************************************************************************)
(* The work queue and the service work                                     *)
(***************************************************************************)

\* R92SU_SCAN_TIMEOUT has passed.
SurveyTimeout ==
  /\ timer = "armed"
  /\ timer' = "off"
  /\ queue' = Append(queue, "survey")
  /\ UNCHANGED <<state, link, user, worker, service, irq, scanvars,
                 add_bss_list, fw_scan>>

\* The thread takes the next work, which is no longer pending.
StartWork ==
  /\ worker = "idle" /\ queue # << >>
  /\ worker' = Head(queue)
  /\ queue' = Tail(queue)
  /\ UNCHANGED <<state, link, user, timer, service, irq, scanvars,
                 add_bss_list, fw_scan>>

\* Mutant: only a scan of cfg80211's completes scan_done.
r92su_survey_done_work_NoComplete ==
  /\ worker = "survey" /\ ~Locked
  /\ IF r92su_is_open
     THEN /\ cfg_scan' = IF scan_request = "req" THEN "null" ELSE cfg_scan
          /\ scan_request' = "null"
          /\ scanned' = "yes"
          /\ scan_done' = scan_done + (IF scan_request = "req" THEN 1 ELSE 0)
     ELSE UNCHANGED scanvars
  /\ worker' = "idle"
  /\ UNCHANGED <<state, link, user, queue, timer, service, irq, add_bss_list,
                 fw_scan>>

r92su_survey_done_work ==
  /\ worker = "survey" /\ ~Locked
  /\ IF r92su_is_open
     THEN /\ cfg_scan' = IF scan_request = "req" THEN "null" ELSE cfg_scan
          /\ scan_request' = "null"
          /\ scanned' = "yes"
          /\ scan_done' = scan_done + 1
     ELSE UNCHANGED scanvars
  /\ worker' = "idle"
  /\ UNCHANGED <<state, link, user, queue, timer, service, irq, add_bss_list,
                 fw_scan>>

\* The networks found are handed to cfg80211; no lock is taken.
r92su_bss_add_work ==
  /\ worker = "add"
  /\ add_bss_list' = 0
  /\ worker' = "idle"
  /\ UNCHANGED <<state, link, user, queue, timer, service, irq, scanvars,
                 fw_scan>>

\* Every two seconds the last scan is declared stale.
r92su_hw_service_work ==
  /\ service = "on" /\ ~Locked
  /\ IF r92su_is_open
     THEN scanned' = "no" /\ UNCHANGED service
     ELSE service' = "off" /\ UNCHANGED scanned
  /\ UNCHANGED <<state, link, user, worker, queue, timer, irq, scan_request,
                 scan_done, cfg_scan, add_bss_list, fw_scan>>

(***************************************************************************)
(* C2H events, in the completion handler of a receive URB                  *)
(***************************************************************************)

\* The handler is idle and r92su_rx_usb_cb lets the transfer pass.
IrqReady == irq = "idle" /\ state \notin {"dead", "unload"}

\* c2h_survey_event: llist_add ...
SurveyEventAdd ==
  /\ IrqReady /\ fw_scan = "busy"
  /\ add_bss_list < MaxList
  /\ add_bss_list' = add_bss_list + 1
  /\ irq' = "survey_queue_add"
  /\ UNCHANGED <<state, link, user, workvars, scanvars, fw_scan>>

\* ... and queue_work.
SurveyEventQueue ==
  /\ irq = "survey_queue_add"
  /\ queue' = QueueWork("add")
  /\ irq' = "idle"
  /\ UNCHANGED <<state, link, user, worker, timer, service, scanvars,
                 add_bss_list, fw_scan>>

\* c2h_survey_done_event: the state test ...
SurveyDoneCheck ==
  /\ IrqReady /\ fw_scan = "busy"
  /\ fw_scan' = "idle"
  /\ irq' = IF r92su_is_open THEN "done_cancel" ELSE "idle"
  /\ UNCHANGED <<state, link, user, workvars, scanvars, add_bss_list>>

\* Mutant: the result of cancel_delayed_work is read the wrong way round.
SurveyDoneCancel_Inverted ==
  /\ irq = "done_cancel"
  /\ irq' = IF survey_pending THEN "idle" ELSE "done_queue"
  /\ timer' = "off"
  /\ queue' = CancelWork("survey")
  /\ UNCHANGED <<state, link, user, worker, service, scanvars, add_bss_list,
                 fw_scan>>

\* ... cancel_delayed_work ...
SurveyDoneCancel ==
  /\ irq = "done_cancel"
  /\ irq' = IF survey_pending THEN "done_queue" ELSE "idle"
  /\ timer' = "off"
  /\ queue' = CancelWork("survey")
  /\ UNCHANGED <<state, link, user, worker, service, scanvars, add_bss_list,
                 fw_scan>>

\* ... and queue_delayed_work with no delay.
SurveyDoneQueue ==
  /\ irq = "done_queue"
  /\ irq' = "idle"
  /\ queue' = IF survey_pending THEN queue ELSE Append(queue, "survey")
  /\ UNCHANGED <<state, link, user, worker, timer, service, scanvars,
                 add_bss_list, fw_scan>>

\* A malformed or unknown event, a clipped transfer, an USB error.
r92su_mark_dead ==
  /\ state \notin {"dead", "unload"}
  /\ state' = "dead"
  /\ UNCHANGED <<link, user, workvars, irq, scanvars, add_bss_list, fw_scan>>

(***************************************************************************)
(* The specification.  Fairness: the thread of the work queue and an       *)
(* interrupt handler that has started make progress, timers fire, a system *)
(* call that has started goes on while it can.  Nothing is assumed of the  *)
(* firmware: no event needs to come.                                       *)
(***************************************************************************)
UserNext ==
  \/ OpenBegin \/ OpenFail \/ OpenRecheck \/ OpenSet
  \/ ScanSubmit \/ ScanQueue
  \/ InternalScanSubmit \/ InternalScanQueue \/ InternalScanWait
  \/ StopLocked \/ StopCancelSurvey \/ StopCancelAdd \/ StopDrain
  \/ UnregisterBegin \/ UnregisterEnd

WorkerNext ==
  \/ StartWork
  \/ r92su_survey_done_work \/ r92su_bss_add_work

IrqNext ==
  \/ SurveyEventAdd \/ SurveyEventQueue
  \/ SurveyDoneCheck \/ SurveyDoneCancel \/ SurveyDoneQueue
  \/ r92su_mark_dead

Next ==
  UserNext \/ WorkerNext \/ SurveyTimeout \/ r92su_hw_service_work \/ IrqNext

Spec == Init /\ [][Next]_vars

Fairness ==
  /\ WF_vars(ScanQueue \/ InternalScanQueue)
  /\ WF_vars(InternalScanWait)
  /\ WF_vars(OpenFail \/ OpenSet)
  /\ WF_vars(SurveyTimeout)
  /\ WF_vars(SurveyEventQueue \/ SurveyDoneCancel \/ SurveyDoneQueue)
  /\ WF_vars(StartWork)
  /\ WF_vars(r92su_bss_add_work)
  /\ SF_vars(r92su_survey_done_work)

FairSpec == Spec /\ Fairness

(***************************************************************************)
(* Properties                                                              *)
(***************************************************************************)

\* The driver and cfg80211 agree on whether a scan is outstanding: every
\* accepted request is answered exactly once, by r92su_survey_done_work or
\* by r92su_stop, whichever comes first.
ScanPaired == scan_request = cfg_scan

\* A survey that somebody waits for has something left that will end it.
survey_will_end ==
  survey_pending \/ worker = "survey" \/ irq = "done_queue"

\* No wakeup is lost while the device lives: a pending scan request and a
\* r92su_internal_scan asleep on scan_done both have a survey_done_work
\* that is pending, running or about to be queued again (or, the sleeper, a
\* completion to consume).  The event handler cancels and requeues the same
\* work without a lock.
NoLostScan ==
  state = "open" =>
    /\ scan_request = "req" /\ user # "scan_queue" => survey_will_end
    /\ user = "isc_wait" => scan_done > 0 \/ survey_will_end

\* Every surveyed network on add_bss_list has an add_bss_work coming, or
\* r92su_stop or the event handler is about to deal with it: nothing is
\* left on the list by r92su_stop cancelling the work.
NoStrandedBss ==
  add_bss_list > 0 =>
    \/ InQueue("add") \/ worker = "add" \/ irq = "survey_queue_add"
    \/ user = "drain"

\* A scan request ends, whatever the firmware does, unless the device dies.
ScanEnds == scan_request = "req" ~> (scan_request = "null" \/ state = "dead")

\* A r92su_connect asleep in r92su_internal_scan, with the RTNL held, wakes
\* up, whatever the firmware does, unless the device dies.
WaitEnds == user = "isc_wait" ~> (user # "isc_wait" \/ state = "dead")

-----------------------------------------------------------------------------
(***************************************************************************)
(* What the repository says and the code does not do: Scan_stop_race.cfg   *)
(* lists the first; TLC violates the second in the module's instance.      *)
(***************************************************************************)

\* event.c:87 "prevent race with r92su_stop": the done event leaves no
\* survey_done_work behind once r92su_stop has returned.
NoSurveyAfterStop ==
  link = "down" => ~survey_pending /\ worker # "survey"

\* r92su.h:67 "unresponsive": only unloading the driver ends R92SU_DEAD.
DeadStaysDead == [][state = "dead" => state' \in {"dead", "unload"}]_vars
=============================================================================
