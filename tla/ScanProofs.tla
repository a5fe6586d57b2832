----------------------------- MODULE ScanProofs -----------------------------
(***************************************************************************)
(* Proofs about Scan for every bound on the counter of scan_done and on    *)
(* the list of surveyed networks.                                          *)
(***************************************************************************)
EXTENDS Scan, TLAPS

(***************************************************************************)
(* The inductive invariant                                                 *)
(***************************************************************************)

\* r92su_open starts from an interface that is down, r92su_stop from one
\* that is up; while it is down, or going down, no request is pending.
DownIsQuiet ==
  /\ user \in {"open_hw", "open_set", "unregister", "gone"} => link = "down"
  /\ user \in {"scan_queue", "isc_queue", "isc_wait", "cancel_survey",
               "cancel_add", "drain"} => link = "up"
  /\ link = "down" \/ user \in {"cancel_survey", "cancel_add", "drain"} =>
       state # "open" /\ scan_request = "null"

IInv == TypeOK /\ ScanPaired /\ DownIsQuiet /\ NoLostScan /\ NoStrandedBss

(***************************************************************************)
(* Lemmas on the work queue                                                *)
(***************************************************************************)
Has(q, w) == \E i \in DOMAIN q : q[i] = w

\* Queueing a work keeps the pending ones.
LEMMA AppendKeeps ==
  ASSUME NEW q \in Seq(Works), NEW w \in Works, NEW v
  PROVE  /\ Append(q, w) \in Seq(Works)
         /\ Has(Append(q, w), w)
         /\ Has(q, v) => Has(Append(q, w), v)
<1>1. /\ Append(q, w) \in Seq(Works) /\ Len(Append(q, w)) = Len(q) + 1
      /\ \A i \in 1..Len(q) : Append(q, w)[i] = q[i]
      /\ Append(q, w)[Len(q) + 1] = w /\ Len(q) \in Nat
  OBVIOUS
<1>2. DOMAIN Append(q, w) = 1..(Len(q) + 1) /\ DOMAIN q = 1..Len(q)
  BY <1>1
<1>3. QED
  BY <1>1, <1>2 DEF Has

\* Taking the oldest work off the queue keeps the others pending.
LEMMA TailKeeps ==
  ASSUME NEW q \in Seq(Works), q # << >>, NEW v, Has(q, v), Head(q) # v
  PROVE  Has(Tail(q), v)
<1>1. PICK i \in 1..Len(q) : q[i] = v
  BY DEF Has
<1>2. i # 1
  BY <1>1
<1>3. i - 1 \in DOMAIN Tail(q) /\ Tail(q)[i - 1] = v
  BY <1>1, <1>2
<1>4. QED
  BY <1>3 DEF Has

\* Cancelling one work keeps the others pending.
LEMMA RemoveKeeps ==
  ASSUME NEW q \in Seq(Works), NEW i \in DOMAIN q, NEW v, Has(q, v), q[i] # v
  PROVE  Has(RemoveAt(q, i), v)
<1> DEFINE a == SubSeq(q, 1, i - 1)
           b == SubSeq(q, i + 1, Len(q))
<1>1. PICK k \in 1..Len(q) : q[k] = v
  BY DEF Has
<1>2. /\ a \in Seq(Works) /\ Len(a) = i - 1
      /\ \A n \in 1..(i - 1) : a[n] = q[n]
  OBVIOUS
<1>3. /\ b \in Seq(Works) /\ Len(b) = Len(q) - i
      /\ \A n \in 1..(Len(q) - i) : b[n] = q[n + i]
  OBVIOUS
<1>4. /\ RemoveAt(q, i) = a \o b /\ DOMAIN (a \o b) = 1..(Len(q) - 1)
      /\ \A n \in 1..(Len(q) - 1) :
           (a \o b)[n] = IF n < i THEN a[n] ELSE b[n - (i - 1)]
  <2>1. RemoveAt(q, i) = a \o b
    BY DEF RemoveAt
  <2> HIDE DEF a, b
  <2>2. Len(a \o b) = Len(q) - 1 /\ a \o b \in Seq(Works)
    BY <1>2, <1>3
  <2>3. \A n \in 1..Len(a \o b) :
          (a \o b)[n] = IF n <= Len(a) THEN a[n] ELSE b[n - Len(a)]
    BY <1>2, <1>3
  <2>4. QED
    BY <1>2, <2>1, <2>2, <2>3
<1> HIDE DEF a, b
<1>5. CASE k < i
  <2>1. k \in 1..(Len(q) - 1) /\ (a \o b)[k] = v
    BY <1>1, <1>2, <1>4, <1>5
  <2>2. QED
    BY <1>4, <2>1 DEF Has
<1>6. CASE k > i
  <2>1. k - 1 \in 1..(Len(q) - 1) /\ ~(k - 1 < i)
    BY <1>1, <1>6
  <2>2. k - i \in 1..(Len(q) - i) /\ (k - 1) - (i - 1) = k - i /\ (k - i) + i = k
    BY <1>1, <1>6
  <2>3. (a \o b)[k - 1] = v
    BY <1>1, <1>3, <1>4, <2>1, <2>2
  <2>4. QED
    BY <1>4, <2>1, <2>3 DEF Has
<1>7. QED
  BY <1>1, <1>5, <1>6

\* ... and leaves a queue of works.
LEMMA RemoveType ==
  ASSUME NEW q \in Seq(Works), NEW i \in DOMAIN q
  PROVE  RemoveAt(q, i) \in Seq(Works)
  BY DEF RemoveAt

\* cancel_work takes nothing but its work off the queue.
LEMMA CancelKeeps ==
  ASSUME TypeOK, NEW w \in Works
  PROVE  /\ CancelWork(w) \in Seq(Works)
         /\ \A v : v # w /\ InQueue(v) => Has(CancelWork(w), v)
         /\ ~InQueue(w) => CancelWork(w) = queue
<1>1. CASE InQueue(w)
  <2> DEFINE i == CHOOSE i \in DOMAIN queue : queue[i] = w
  <2>1. i \in DOMAIN queue /\ queue[i] = w
    BY <1>1 DEF InQueue
  <2>2. CancelWork(w) = RemoveAt(queue, i) /\ queue \in Seq(Works)
    BY <1>1 DEF CancelWork, TypeOK
  <2> HIDE DEF i
  <2>3. ASSUME NEW v, v # w, InQueue(v)
        PROVE  Has(CancelWork(w), v)
    BY <2>1, <2>2, <2>3, RemoveKeeps DEF InQueue, Has
  <2>4. QED
    BY <1>1, <2>1, <2>2, <2>3, RemoveType
<1>2. CASE ~InQueue(w)
  BY <1>2 DEF CancelWork, TypeOK, InQueue, Has
<1>3. QED
  BY <1>1, <1>2

\* The steps that change the queue, by what they do to it.
LEMMA QueueCases ==
  ASSUME [Next]_vars
  PROVE  \/ UNCHANGED queue /\ ~StartWork
         \/ StopCancelSurvey \/ StopCancelAdd \/ SurveyTimeout \/ StartWork
         \/ SurveyEventQueue \/ SurveyDoneCancel \/ SurveyDoneQueue
  BY DEF Next, UserNext, WorkerNext, IrqNext, vars, workvars, OpenBegin,
         OpenFail, OpenRecheck, OpenSet, ScanSubmit, ScanQueue,
         InternalScanSubmit, InternalScanQueue, InternalScanWait, StopLocked,
         StopDrain, UnregisterBegin, UnregisterEnd, r92su_survey_done_work,
         r92su_bss_add_work, r92su_hw_service_work, SurveyEventAdd,
         SurveyDoneCheck, r92su_mark_dead

\* Pending works stay pending until they are cancelled or taken to run.
LEMMA QueueStep ==
  ASSUME TypeOK, [Next]_vars
  PROVE  /\ queue' \in Seq(Works)
         /\ InQueue("survey") =>
              \/ Has(queue', "survey") \/ StopCancelSurvey \/ SurveyDoneCancel
              \/ StartWork /\ worker' = "survey"
         /\ InQueue("add") =>
              \/ Has(queue', "add") \/ StopCancelAdd
              \/ StartWork /\ worker' = "add"
<1> DEFINE Kept(v) == InQueue(v) => Has(queue', v)
<1>0. queue \in Seq(Works) /\ "survey" \in Works /\ "add" \in Works
      /\ "survey" # "add"
  BY DEF TypeOK, Works
<1>1. ASSUME UNCHANGED queue
      PROVE  queue' \in Seq(Works) /\ Kept("survey") /\ Kept("add")
  BY <1>0, <1>1 DEF InQueue, Has
<1>2. ASSUME NEW w \in Works, queue' = Append(queue, w)
      PROVE  queue' \in Seq(Works) /\ Kept("survey") /\ Kept("add")
  BY <1>0, <1>2, AppendKeeps DEF InQueue, Has
<1>3. CASE StopCancelSurvey \/ SurveyDoneCancel
  BY <1>0, <1>3, CancelKeeps DEF StopCancelSurvey, SurveyDoneCancel
<1>4. CASE StopCancelAdd
  BY <1>0, <1>4, CancelKeeps DEF StopCancelAdd
<1>5. CASE StartWork
  <2>1. /\ queue # << >> /\ worker' = Head(queue) /\ queue' = Tail(queue)
    BY <1>5 DEF StartWork
  <2>2. queue' \in Seq(Works)
    BY <1>0, <2>1
  <2>3. \A v : InQueue(v) => worker' = v \/ Has(queue', v)
    BY <1>0, <2>1, TailKeeps DEF InQueue, Has
  <2>4. QED
    BY <1>5, <2>2, <2>3
<1>6. CASE SurveyTimeout \/ SurveyEventQueue \/ SurveyDoneQueue
  BY <1>0, <1>1, <1>2, <1>6
     DEF SurveyTimeout, SurveyEventQueue, SurveyDoneQueue, QueueWork
<1>7. QED
  BY <1>1, <1>3, <1>4, <1>5, <1>6, QueueCases

(***************************************************************************)
(* The invariant is inductive                                              *)
(***************************************************************************)

\* Initially nothing is queued, listed or requested.
LEMMA InitIInv == Init => IInv
  BY DEF Init, IInv, TypeOK, ScanPaired, DownIsQuiet, NoLostScan,
         NoStrandedBss, Works

\* Type correctness is preserved.
LEMMA TypeStep ==
  ASSUME TypeOK, [Next]_vars
  PROVE  TypeOK'
<1>1. queue' \in Seq(Works)
  BY QueueStep
<1>2. CASE UserNext
  BY <1>1, <1>2
     DEF UserNext, TypeOK, workvars, scanvars, OpenBegin, OpenFail,
         OpenRecheck, OpenSet, ScanSubmit, ScanQueue, InternalScanSubmit,
         InternalScanQueue, InternalScanWait, StopLocked, StopCancelSurvey,
         StopCancelAdd, StopDrain, UnregisterBegin, UnregisterEnd,
         ArmSurveyTimeout, r92su_is_open
<1>3. CASE StartWork
  <2>1. Head(queue) \in Works
    BY <1>3 DEF StartWork, TypeOK
  <2>2. QED
    BY <1>1, <1>3, <2>1 DEF StartWork, TypeOK, scanvars
<1>4. CASE r92su_survey_done_work \/ r92su_bss_add_work
  BY <1>1, <1>4
     DEF r92su_survey_done_work, r92su_bss_add_work, TypeOK, scanvars
<1>5. CASE SurveyTimeout \/ r92su_hw_service_work
  BY <1>1, <1>5 DEF SurveyTimeout, r92su_hw_service_work, TypeOK, scanvars
<1>6. CASE IrqNext
  BY <1>1, <1>6
     DEF IrqNext, SurveyEventAdd, SurveyEventQueue, SurveyDoneCheck,
         SurveyDoneCancel, SurveyDoneQueue, r92su_mark_dead, TypeOK,
         workvars, scanvars
<1>7. CASE UNCHANGED vars
  BY <1>7 DEF vars, workvars, scanvars, TypeOK
<1>8. QED
  BY <1>2, <1>3, <1>4, <1>5, <1>6, <1>7 DEF Next, WorkerNext

\* A request is accepted while the interface is up, and answered before it
\* is down.
LEMMA QuietStep ==
  ASSUME TypeOK, ScanPaired, DownIsQuiet, [Next]_vars
  PROVE  ScanPaired' /\ DownIsQuiet'
<1>1. CASE UserNext
  BY <1>1
     DEF UserNext, TypeOK, workvars, scanvars, OpenBegin, OpenFail,
         OpenRecheck, OpenSet, ScanSubmit, ScanQueue, InternalScanSubmit,
         InternalScanQueue, InternalScanWait, StopLocked, StopCancelSurvey,
         StopCancelAdd, StopDrain, UnregisterBegin, UnregisterEnd,
         r92su_is_open, ScanPaired, DownIsQuiet
<1>2. CASE WorkerNext
  BY <1>2
     DEF WorkerNext, StartWork, r92su_survey_done_work, r92su_bss_add_work,
         scanvars, TypeOK, ScanPaired, DownIsQuiet
<1>3. CASE SurveyTimeout \/ r92su_hw_service_work \/ IrqNext
  BY <1>3
     DEF SurveyTimeout, r92su_hw_service_work, IrqNext, SurveyEventAdd,
         SurveyEventQueue, SurveyDoneCheck, SurveyDoneCancel,
         SurveyDoneQueue, r92su_mark_dead, scanvars, ScanPaired, DownIsQuiet
<1>4. CASE UNCHANGED vars
  BY <1>4 DEF vars, scanvars, ScanPaired, DownIsQuiet
<1>5. QED
  BY <1>1, <1>2, <1>3, <1>4 DEF Next

\* What will end a survey goes on being there, except that r92su_stop
\* cancels it and that survey_done_work ends the survey.
LEMMA SurveySurvives ==
  ASSUME TypeOK, [Next]_vars, survey_will_end
  PROVE  survey_will_end' \/ StopCancelSurvey \/ r92su_survey_done_work
<1>0. ASSUME Has(queue', "survey") \/ timer' = "armed"
             \/ worker' = "survey" \/ irq' = "done_queue"
      PROVE  survey_will_end'
  BY <1>0 DEF survey_will_end, survey_pending, InQueue, Has
<1>1. CASE SurveyDoneCancel
  BY <1>0, <1>1 DEF SurveyDoneCancel, survey_will_end
<1>2. CASE SurveyDoneQueue
  <2>1. CASE survey_pending
    BY <1>0, <1>2, <2>1 DEF SurveyDoneQueue, survey_pending, InQueue, Has
  <2>2. CASE ~survey_pending
    BY <1>0, <1>2, <2>2, AppendKeeps DEF SurveyDoneQueue, TypeOK, Works
  <2>3. QED
    BY <2>1, <2>2
<1>3. CASE SurveyTimeout
  BY <1>0, <1>3, AppendKeeps DEF SurveyTimeout, TypeOK, Works
<1>4. ASSUME ~SurveyDoneCancel, ~SurveyDoneQueue, ~SurveyTimeout,
             ~StopCancelSurvey, ~r92su_survey_done_work
      PROVE  /\ timer = "armed" => timer' = "armed"
             /\ worker = "survey" => worker' = "survey"
             /\ irq = "done_queue" => irq' = "done_queue"
  BY <1>4
     DEF Next, UserNext, WorkerNext, IrqNext, vars, workvars, OpenBegin,
         OpenFail, OpenRecheck, OpenSet, ScanSubmit, ScanQueue,
         InternalScanSubmit, InternalScanQueue, InternalScanWait, StopLocked,
         StopCancelAdd, StopDrain, UnregisterBegin, UnregisterEnd, StartWork,
         r92su_bss_add_work, r92su_hw_service_work, SurveyEventAdd,
         SurveyEventQueue, SurveyDoneCheck, r92su_mark_dead,
         ArmSurveyTimeout, IrqReady
<1>5. QED
  BY <1>0, <1>1, <1>2, <1>3, <1>4, QueueStep
     DEF survey_will_end, survey_pending

\* No wakeup is lost.
LEMMA NoLostStep ==
  ASSUME TypeOK, DownIsQuiet, NoLostScan, [Next]_vars
  PROVE  NoLostScan'
<1> SUFFICES ASSUME state' = "open"
             PROVE  /\ scan_request' = "req" /\ user' # "scan_queue" =>
                         survey_will_end'
                    /\ user' = "isc_wait" => scan_done' > 0 \/ survey_will_end'
  BY DEF NoLostScan
<1>1. CASE StopCancelSurvey
  BY <1>1 DEF StopCancelSurvey, DownIsQuiet
<1>2. CASE r92su_survey_done_work
  BY <1>2 DEF r92su_survey_done_work, r92su_is_open, TypeOK
<1>3. CASE OpenSet
  BY <1>3 DEF OpenSet, DownIsQuiet, scanvars
<1>4. CASE ScanQueue \/ InternalScanQueue
  <2>1. survey_pending'
    BY <1>4
       DEF ScanQueue, InternalScanQueue, ArmSurveyTimeout, survey_pending,
           InQueue
  <2>2. QED
    BY <2>1 DEF survey_will_end
<1>5. ASSUME ~StopCancelSurvey, ~r92su_survey_done_work, ~OpenSet,
             ~ScanQueue, ~InternalScanQueue
      PROVE  /\ state = "open"
             /\ scan_request' = "req" /\ user' # "scan_queue" =>
                  scan_request = "req" /\ user # "scan_queue"
             /\ user' = "isc_wait" => user = "isc_wait" /\ scan_done' = scan_done
  BY <1>5
     DEF Next, UserNext, WorkerNext, IrqNext, vars, workvars, scanvars,
         OpenBegin, OpenFail, OpenRecheck, ScanSubmit, InternalScanSubmit,
         InternalScanWait, StopLocked, StopCancelAdd, StopDrain,
         UnregisterBegin, UnregisterEnd, StartWork, SurveyTimeout,
         r92su_bss_add_work, r92su_hw_service_work, SurveyEventAdd,
         SurveyEventQueue, SurveyDoneCheck, SurveyDoneCancel,
         SurveyDoneQueue, r92su_mark_dead, r92su_is_open
<1>6. QED
  BY <1>1, <1>2, <1>3, <1>4, <1>5, SurveySurvives DEF NoLostScan

\* No surveyed network is stranded.
LEMMA NoStrandedStep ==
  ASSUME TypeOK, NoStrandedBss, [Next]_vars
  PROVE  NoStrandedBss'
<1>0. ASSUME \/ add_bss_list' = 0 \/ Has(queue', "add") \/ worker' = "add"
             \/ irq' = "survey_queue_add" \/ user' = "drain"
      PROVE  NoStrandedBss'
  BY <1>0 DEF NoStrandedBss, InQueue, Has
<1>1. CASE StopCancelAdd \/ StopDrain \/ r92su_bss_add_work \/ SurveyEventAdd
  BY <1>0, <1>1
     DEF StopCancelAdd, StopDrain, r92su_bss_add_work, SurveyEventAdd
<1>2. CASE SurveyEventQueue
  <2>1. Has(queue', "add")
    BY <1>2, AppendKeeps
       DEF SurveyEventQueue, QueueWork, InQueue, Has, TypeOK, Works
  <2>2. QED
    BY <1>0, <2>1
<1>3. ASSUME ~StopCancelAdd, ~StopDrain, ~r92su_bss_add_work,
             ~SurveyEventAdd, ~SurveyEventQueue
      PROVE  /\ add_bss_list' = add_bss_list
             /\ worker = "add" => worker' = "add"
             /\ irq = "survey_queue_add" => irq' = "survey_queue_add"
             /\ user = "drain" => user' = "drain"
  BY <1>3
     DEF Next, UserNext, WorkerNext, IrqNext, vars, workvars, OpenBegin,
         OpenFail, OpenRecheck, OpenSet, ScanSubmit, ScanQueue,
         InternalScanSubmit, InternalScanQueue, InternalScanWait, StopLocked,
         StopCancelSurvey, UnregisterBegin, UnregisterEnd, StartWork,
         SurveyTimeout, r92su_survey_done_work, r92su_hw_service_work,
         SurveyDoneCheck, SurveyDoneCancel, SurveyDoneQueue, r92su_mark_dead,
         IrqReady
<1>4. add_bss_list' = 0 \/ add_bss_list' > 0
  BY TypeStep DEF TypeOK
<1>5. QED
  BY <1>0, <1>1, <1>2, <1>3, <1>4, QueueStep DEF NoStrandedBss

\* The inductive invariant holds in every behaviour.
LEMMA Inductive == Spec => []IInv
<1>1. ASSUME IInv, [Next]_vars PROVE IInv'
  BY <1>1, TypeStep, QuietStep, NoLostStep, NoStrandedStep DEF IInv
<1>2. QED
  BY InitIInv, <1>1, PTL DEF Spec

(***************************************************************************)
(* Theorems                                                                *)
(***************************************************************************)

\* Type correctness of the scan machinery.
THEOREM TypeCorrect == Spec => []TypeOK
  BY Inductive, PTL DEF IInv

\* Whatever survey_done_work, the events of the firmware, r92su_stop and a
\* dying device do to each other, the driver and cfg80211 agree on whether a
\* scan is outstanding.
THEOREM ScanAnsweredOnce == Spec => []ScanPaired
  BY Inductive, PTL DEF IInv

\* While the device is open, whoever waits for a survey has something left
\* that will end it, however the event handler's cancel and requeue of
\* survey_done_work interleaves with its timeout and with the next scan.
THEOREM ScanNotLost == Spec => []NoLostScan
  BY Inductive, PTL DEF IInv

\* r92su_stop cancels add_bss_work and leaves no network on add_bss_list.
THEOREM BssNotStranded == Spec => []NoStrandedBss
  BY Inductive, PTL DEF IInv
=============================================================================
