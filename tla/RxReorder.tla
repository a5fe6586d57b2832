----------------------------- MODULE RxReorder -----------------------------
(***************************************************************************)
(* The receive reorder buffer of one traffic identifier (r92su/rx.c:       *)
(* r92su_rx_reorder_ampdu, r92su_reorder_release_frame, ..._release_frames,*)
(* r92su_reorder_sta_release, r92su_reorder_tid_timer; r92su/sta.c:        *)
(* r92su_sta_alloc_tid, r92su_free_tid_rcu).                               *)
(*                                                                         *)
(* Two contexts use the buffer: "rx", the receive tasklet with a frame in  *)
(* hand, and "timer", the reorder timer.  tid->lock serialises them; each  *)
(* iteration of the loops under it is one action, and the loop variables   *)
(* (target, index, j, skipped) belong to the lock's holder.                *)
(*                                                                         *)
(* A frame is the number of its MSDU counted from the start of the         *)
(* session; the sequence number on the air is that number modulo Mod.  The *)
(* code sees sequence numbers only.  count is the unwrapped head_seq, a    *)
(* history variable.                                                       *)
(***************************************************************************)
EXTENDS Integers, Sequences, FiniteSets

CONSTANTS
  Mod,      \* IEEE80211_SN_MODULO (4096)
  Size,     \* tid->size (32)
  Ssn,      \* tid->ssn: the first MSDU of the session
  MaxFrame, \* bound: the last MSDU of the session
  None      \* an empty slot of reorder_buf

\* The slot of a sequence number survives the wrap only if Size divides Mod.
ASSUME ReorderAssumption ==
  /\ Mod \in Nat /\ Size \in Nat \ {0} /\ Ssn \in 0..(Mod - 1)
  /\ Mod % Size = 0 /\ 4 * Size <= Mod
  /\ MaxFrame \in Nat /\ Ssn <= MaxFrame
  /\ None \notin Int

VARIABLES
  head_seq, len,   \* of struct r92su_rx_tid
  reorder_buf,     \* slot -> frame or None
  late,            \* slots whose reorder_time has passed
  reorder_timer,   \* "on": the timer is pending
  lock,            \* holder of tid->lock, or "free"
  pc,              \* where each context is
  skb,             \* the frame the tasklet works on
  frames,          \* context -> its list of released frames
  target, index, j, skipped,  \* local variables under the lock
  tid,             \* "live"; "unlinked" from its station; "freed"
  count,           \* history: head_seq, not wrapped
  last             \* history: the last frame released

tidvars == <<head_seq, len, reorder_buf, late, count>>
locals == <<target, index, j, skipped>>
vars == <<tidvars, reorder_timer, lock, pc, skb, frames, locals, tid, last>>

Ctx == {"rx", "timer"}
Slots == 0..(Size - 1)
Frames == Ssn..MaxFrame

TypeOK ==
  /\ head_seq \in 0..(Mod - 1)
  /\ len \in 0..Size
  /\ reorder_buf \in [Slots -> Frames \cup {None}]
  /\ late \in SUBSET Slots
  /\ reorder_timer \in {"off", "on"}
  /\ lock \in Ctx \cup {"free"}
  /\ pc \in [Ctx -> {"idle", "lock", "advance", "store", "release", "scan",
                     "flush", "rearm", "drop", "handler"}]
  /\ skb \in Frames
  /\ frames \in [Ctx -> Seq(Frames)]
  /\ target \in 0..(Mod - 1)
  /\ index \in Slots /\ j \in Slots
  /\ skipped \in 0..Size
  /\ tid \in {"live", "unlinked", "freed"}
  /\ count \in Nat
  /\ last \in Int

\* r92su_sta_alloc_tid
Init ==
  /\ head_seq = Ssn
  /\ len = 0
  /\ reorder_buf = [i \in Slots |-> None]
  /\ late = {}
  /\ reorder_timer = "off"
  /\ lock = "free"
  /\ pc = [c \in Ctx |-> "idle"]
  /\ skb = Ssn
  /\ frames = [c \in Ctx |-> << >>]
  /\ target = 0 /\ index = 0 /\ j = 0 /\ skipped = 0
  /\ tid = "live"
  /\ count = Ssn
  /\ last = Ssn - 1

(***************************************************************************)
(* ieee80211_sn_less and friends: arithmetic on sequence numbers           *)
(***************************************************************************)
seq(f) == f % Mod
\* Mutant: sequence numbers compared without regard to their wrap.
sn_less_NoWrap(a, b) == a < b

sn_less(a, b) == (a - b) % Mod > Mod \div 2
sn_add(a, b) == (a + b) % Mod
sn_sub(a, b) == (a - b) % Mod

\* The slot of a sequence number: relative to ssn, modulo the buffer's size.
Slot(s) == sn_sub(s, Ssn) % Size

\* Mutant: the slots skipped over a gap are not added to head_seq.
ReleaseFrame_ForgetsGap(c, i, n) ==
  /\ head_seq' = sn_add(head_seq, 1)
  /\ count' = count + 1
  /\ IF reorder_buf[i] = None
     THEN UNCHANGED <<len, reorder_buf, late, frames, last>>
     ELSE /\ len' = len - 1
          /\ reorder_buf' = [reorder_buf EXCEPT ![i] = None]
          /\ late' = late \ {i}
          /\ frames' = [frames EXCEPT ![c] = Append(@, reorder_buf[i])]
          /\ last' = reorder_buf[i]

(***************************************************************************)
(* r92su_reorder_release_frame after head_seq has moved over n more slots  *)
(***************************************************************************)
ReleaseFrame(c, i, n) ==
  /\ head_seq' = sn_add(head_seq, n + 1)
  /\ count' = count + n + 1
  /\ IF reorder_buf[i] = None
     THEN UNCHANGED <<len, reorder_buf, late, frames, last>>
     ELSE /\ len' = len - 1
          /\ reorder_buf' = [reorder_buf EXCEPT ![i] = None]
          /\ late' = late \ {i}
          /\ frames' = [frames EXCEPT ![c] = Append(@, reorder_buf[i])]
          /\ last' = reorder_buf[i]

Goto(c, p) == pc' = [pc EXCEPT ![c] = p]

(***************************************************************************)
(* r92su_rx_reorder_ampdu                                                  *)
(***************************************************************************)

\* A frame arrives: any of the session's that is less than half of the
\* sequence space away from the head (new, late, repeated, or after a gap).
RxFrame(f) ==
  /\ tid = "live" /\ lock = "free" /\ pc["rx"] = "idle"
  /\ f - count \in (1 - Mod \div 2)..(Mod \div 2 - 1)
  /\ lock' = "rx"
  /\ skb' = f
  /\ \/ /\ sn_less(seq(f), head_seq)
        /\ Goto("rx", "drop")
        /\ UNCHANGED target
     \/ /\ ~sn_less(seq(f), head_seq)
        /\ sn_less(seq(f), head_seq + Size)
        /\ Goto("rx", "store")
        /\ UNCHANGED target
     \/ /\ ~sn_less(seq(f), head_seq)
        /\ ~sn_less(seq(f), head_seq + Size)
        /\ target' = sn_add(sn_sub(seq(f), Size), 1)
        /\ Goto("rx", "advance")
  /\ UNCHANGED <<tidvars, reorder_timer, frames, index, j, skipped, tid,
                 last>>

\* r92su_reorder_release_frames(target)
RxAdvance ==
  /\ pc["rx"] = "advance"
  /\ IF sn_less(head_seq, target)
     THEN ReleaseFrame("rx", Slot(head_seq), 0) /\ UNCHANGED pc
     ELSE Goto("rx", "store") /\ UNCHANGED <<tidvars, frames, last>>
  /\ UNCHANGED <<reorder_timer, lock, skb, locals, tid>>

RxStore ==
  LET i == Slot(seq(skb))
  IN
  /\ pc["rx"] = "store"
  /\ \/ \* a duplicate
        /\ reorder_buf[i] # None
        /\ Goto("rx", "drop")
        /\ UNCHANGED <<tidvars, lock, frames, last>>
     \/ \* the expected frame, nothing buffered
        /\ reorder_buf[i] = None
        /\ seq(skb) = head_seq /\ len = 0
        /\ head_seq' = sn_add(seq(skb), 1)
        /\ count' = count + 1
        /\ frames' = [frames EXCEPT !["rx"] = Append(@, skb)]
        /\ last' = skb
        /\ lock' = "free"
        /\ Goto("rx", "handler")
        /\ UNCHANGED <<len, reorder_buf, late>>
     \/ \* buffered
        /\ reorder_buf[i] = None
        /\ ~(seq(skb) = head_seq /\ len = 0)
        /\ reorder_buf' = [reorder_buf EXCEPT ![i] = skb]
        /\ late' = late \ {i}
        /\ len' = len + 1
        /\ Goto("rx", "release")
        /\ UNCHANGED <<head_seq, count, lock, frames, last>>
  /\ UNCHANGED <<reorder_timer, skb, locals, tid>>

\* drop_unlock: r92su_rx_data purges the list and frees the frame.
RxDrop ==
  /\ pc["rx"] = "drop"
  /\ frames' = [frames EXCEPT !["rx"] = << >>]
  /\ lock' = "free"
  /\ Goto("rx", "idle")
  /\ UNCHANGED <<tidvars, reorder_timer, skb, locals, tid, last>>

(***************************************************************************)
(* r92su_reorder_sta_release, by the tasklet or by the timer               *)
(***************************************************************************)

ReleaseStart(c) ==
  LET i == Slot(head_seq)
  IN
  /\ pc[c] = "release"
  /\ index' = i
  /\ IF len # 0 /\ reorder_buf[i] = None
     THEN Goto(c, "scan") /\ skipped' = 1 /\ j' = (i + 1) % Size
     ELSE Goto(c, "flush") /\ UNCHANGED <<skipped, j>>
  /\ UNCHANGED <<tidvars, reorder_timer, lock, skb, frames, target, tid,
                 last>>

\* The loop over the slots behind a gap.
ReleaseScan(c) ==
  /\ pc[c] = "scan"
  /\ \/ /\ j = index
        /\ Goto(c, "rearm")
        /\ UNCHANGED <<tidvars, reorder_timer, lock, frames, last, j,
                       skipped>>
     \/ /\ j # index /\ reorder_buf[j] = None
        /\ skipped' = skipped + 1
        /\ j' = (j + 1) % Size
        /\ UNCHANGED <<tidvars, reorder_timer, lock, pc, frames, last>>
     \/ /\ j # index /\ reorder_buf[j] # None
        /\ skipped # 0 /\ j \notin late
        /\ reorder_timer' = "on"
        /\ lock' = "free"
        /\ Goto(c, "handler")
        /\ UNCHANGED <<tidvars, frames, last, j, skipped>>
     \/ /\ j # index /\ reorder_buf[j] # None
        /\ skipped = 0 \/ j \in late
        /\ ReleaseFrame(c, j, skipped)
        /\ skipped' = 0
        /\ j' = (j + 1) % Size
        /\ UNCHANGED <<reorder_timer, lock, pc>>
  /\ UNCHANGED <<skb, target, index, tid>>

\* The loop over the frames that are in order.
ReleaseFlush(c) ==
  /\ pc[c] = "flush"
  /\ IF reorder_buf[Slot(head_seq)] # None
     THEN ReleaseFrame(c, Slot(head_seq), 0) /\ UNCHANGED pc
     ELSE Goto(c, "rearm") /\ UNCHANGED <<tidvars, frames, last>>
  /\ UNCHANGED <<reorder_timer, lock, skb, locals, tid>>

\* Mutant: the timer is stopped once something was released.
ReleaseRearm_Stops(c) ==
  /\ pc[c] = "rearm"
  /\ reorder_timer' = IF len # 0 /\ frames[c] = << >> THEN "on" ELSE "off"
  /\ lock' = "free"
  /\ Goto(c, "handler")
  /\ UNCHANGED <<tidvars, skb, frames, locals, tid, last>>

\* mod_timer or del_timer, and tid->lock is released.
ReleaseRearm(c) ==
  /\ pc[c] = "rearm"
  /\ reorder_timer' = IF len # 0 THEN "on" ELSE "off"
  /\ lock' = "free"
  /\ Goto(c, "handler")
  /\ UNCHANGED <<tidvars, skb, frames, locals, tid, last>>

\* r92su_rx_handler takes the list, under rx_path.
Handler(c) ==
  /\ pc[c] = "handler"
  /\ frames' = [frames EXCEPT ![c] = << >>]
  /\ Goto(c, "idle")
  /\ UNCHANGED <<tidvars, reorder_timer, lock, skb, locals, tid, last>>

(***************************************************************************)
(* r92su_reorder_tid_timer, the passing of time, r92su_free_tid_rcu        *)
(***************************************************************************)
TimerFires ==
  /\ reorder_timer = "on" /\ pc["timer"] = "idle"
  /\ reorder_timer' = "off"
  /\ Goto("timer", "lock")
  /\ UNCHANGED <<tidvars, lock, skb, frames, locals, tid, last>>

\* Mutant: the timer only tries the lock.
TimerLocks_Try ==
  /\ pc["timer"] = "lock"
  /\ \/ tid = "live" /\ lock = "free"
        /\ lock' = "timer" /\ Goto("timer", "release")
     \/ (tid = "unlinked" \/ lock # "free")
        /\ Goto("timer", "idle") /\ UNCHANGED lock
  /\ UNCHANGED <<tidvars, reorder_timer, skb, frames, locals, tid, last>>

\* A session without station, or a disconnected device, makes the timer
\* return at once.
TimerLocks ==
  /\ pc["timer"] = "lock"
  /\ \/ tid = "live" /\ lock = "free"
        /\ lock' = "timer" /\ Goto("timer", "release")
     \/ tid = "unlinked"
        /\ Goto("timer", "idle") /\ UNCHANGED lock
  /\ UNCHANGED <<tidvars, reorder_timer, skb, frames, locals, tid, last>>

\* HT_RX_REORDER_BUF_TIMEOUT passes for a buffered frame.
GetsLate(i) ==
  /\ reorder_buf[i] # None /\ i \notin late
  /\ late' = late \cup {i}
  /\ UNCHANGED <<head_seq, len, reorder_buf, count, reorder_timer, lock, pc,
                 skb, frames, locals, tid, last>>

\* The station goes or opens another session: new frames do not find this
\* one any more.  The tasklet may be in the middle of it.
r92su_free_tid ==
  /\ tid = "live"
  /\ tid' = "unlinked"
  /\ UNCHANGED <<tidvars, reorder_timer, lock, pc, skb, frames, locals, last>>

\* After the grace period (the tasklet has left) and del_timer_sync (the
\* timer has left and is not pending), the buffered frames are freed.
r92su_free_tid_rcu ==
  /\ tid = "unlinked"
  /\ pc["rx"] = "idle" /\ pc["timer"] = "idle"
  /\ tid' = "freed"
  /\ reorder_timer' = "off"
  /\ len' = 0
  /\ reorder_buf' = [i \in Slots |-> None]
  /\ late' = {}
  /\ UNCHANGED <<head_seq, count, lock, pc, skb, frames, locals, last>>

(***************************************************************************)
(* The specification.  Fairness: a context that holds the lock goes on, a  *)
(* pending timer fires, time passes; the timer gets the lock although the  *)
(* tasklet keeps coming back to it (a ticket lock), hence the strong one.  *)
(***************************************************************************)
Release(c) ==
  ReleaseStart(c) \/ ReleaseScan(c) \/ ReleaseFlush(c) \/ ReleaseRearm(c)

RxNext == RxAdvance \/ RxStore \/ RxDrop \/ Release("rx") \/ Handler("rx")

TimerNext == TimerLocks \/ Release("timer") \/ Handler("timer")

Next ==
  \/ \E f \in Frames : RxFrame(f)
  \/ RxNext
  \/ TimerFires \/ TimerNext
  \/ \E i \in Slots : GetsLate(i)
  \/ r92su_free_tid \/ r92su_free_tid_rcu

Spec == Init /\ [][Next]_vars

Fairness ==
  /\ WF_vars(RxNext)
  /\ SF_vars(TimerNext)
  /\ WF_vars(TimerFires)
  /\ \A i \in Slots : WF_vars(GetsLate(i))

FairSpec == Spec /\ Fairness

-----------------------------------------------------------------------------
(***************************************************************************)
(* Properties                                                              *)
(***************************************************************************)
Buffered == {i \in Slots : reorder_buf[i] # None}

\* tid->len is the number of frames buffered: it alone decides whether the
\* expected frame bypasses the buffer and whether the timer is stopped.
LenMatches == len = Cardinality(Buffered)

\* The buffer is consistent: the count is exact, every buffered frame sits in
\* the slot its sequence number selects and lies in [head_seq, head_seq +
\* size), in unwrapped numbers, so that two frames of the window never want
\* the same slot, and the wrapped head_seq stays the image of the true one
\* across the end of the sequence space.
WindowHolds ==
  /\ LenMatches
  /\ head_seq = seq(count)
  /\ \A i \in Buffered :
       /\ i = Slot(seq(reorder_buf[i]))
       /\ reorder_buf[i] \in count..(count + Size - 1)

\* No frame waits with nobody coming for it: outside of tid->lock, a frame in
\* the buffer of a live session has the timer pending, or the timer handler
\* about to look.
NoFrameForgotten ==
  tid = "live" /\ lock = "free" /\ Buffered # {} =>
    reorder_timer = "on" \/ pc["timer"] = "lock"

\* Frames leave the buffer in the order they were sent and at most once,
\* whatever the order, the gaps and the repetitions they arrived in, and
\* whichever context releases them.
InOrder == [][last' # last => last' > last]_vars

\* A buffered frame does not stay for ever when a frame before it is lost.
BufferedIsReleased ==
  \A i \in Slots : reorder_buf[i] # None /\ tid = "live" ~>
                      reorder_buf[i] = None \/ tid # "live"
============================================================================
