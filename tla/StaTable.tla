------------------------------ MODULE StaTable ------------------------------
(***************************************************************************)
(* The station table (r92su/sta.c) and its users.  Three contexts change   *)
(* it: "irq", the firmware's station events (r92su/event.c); "proc", the   *)
(* holder of r92su->lock (connect work, disconnect and stop in             *)
(* r92su/main.c); and "work", the end of the connect work after a failed   *)
(* join, which runs without that lock.  Readers are the receive and        *)
(* transmit paths.                                                         *)
(*                                                                         *)
(* sta_lock covers the linking and the unlinking of a station, each of     *)
(* which is one step here; the lookup before an unlinking is not covered.  *)
(* A station is freed after an RCU grace period: when every context that   *)
(* was inside a read-side section at call_rcu has left it.  Unlinking a    *)
(* station a second time follows poisoned list pointers and queues its rcu *)
(* head twice: nothing is said about what comes after it.                  *)
(***************************************************************************)
EXTENDS Integers, FiniteSets, FiniteSetsExt

CONSTANTS
  Sta,       \* station objects
  Readers,   \* contexts of the data path
  FwIds,     \* mac ids the firmware hands out, unchecked by the driver
  BSS_MACID, \* mac id of the access point or of the IBSS
  MAX_STA,   \* r92su_stop deletes the mac ids below it
  None

ASSUME StaTableAssumption ==
  /\ FwIds \subseteq Nat /\ BSS_MACID \in Nat /\ MAX_STA \in Nat
  /\ None \notin Sta /\ IsFiniteSet(Sta)
  /\ Readers \cap {"irq", "proc", "work"} = {}

Ids == FwIds \cup {BSS_MACID}
Writers == {"irq", "proc", "work"}
Ctx == Writers \cup Readers

VARIABLES
  where,       \* where a station is: "unused", "new", "linked", "unlinked"
               \* or "freed"
  mac_id,      \* sta->mac_id
  sta_num,     \* r92su->sta_num, an unsigned int; -1 stands for its maximum
  connect_bss, \* "set" while there is a connected bss
  bss_sta,     \* bss_priv->sta
  todo,        \* writer -> mac ids it still has to delete
  new,         \* writer -> station it links then, or None
  held,        \* context -> the station it holds, or None
  rcu,         \* contexts inside an RCU read-side section
  gp,          \* station -> contexts its grace period waits for
  from_bss,    \* readers that took their station from bss_priv->sta
  calls,       \* history: how often call_rcu was called for a station
  rejoined,    \* history: a join ended while a bss was connected already
  fw_bss,      \* history: a firmware event was about BSS_MACID
  overlap      \* history: two contexts allocated one mac id at a time

history == <<rejoined, fw_bss, overlap>>

vars == <<where, mac_id, sta_num, connect_bss, bss_sta, todo, new, held, rcu,
          gp, from_bss, calls, rejoined, fw_bss, overlap>>

TypeOK ==
  /\ where \in [Sta -> {"unused", "new", "linked", "unlinked", "freed"}]
  /\ mac_id \in [Sta -> Ids \cup {None}]
  /\ sta_num \in (IF \A s \in Sta : calls[s] <= 1 THEN 0
                 ELSE -Cardinality(Sta))..Cardinality(Sta)
  /\ connect_bss \in {"set", "null"}
  /\ bss_sta \in Sta \cup {None}
  /\ todo \in [Writers -> SUBSET Ids]
  /\ new \in [Writers -> Sta \cup {None}]
  /\ held \in [Ctx -> Sta \cup {None}]
  /\ rcu \in SUBSET Ctx
  /\ gp \in [Sta -> SUBSET Ctx]
  /\ from_bss \in SUBSET Readers
  /\ calls \in [Sta -> 0..2]
  /\ rejoined \in BOOLEAN /\ fw_bss \in BOOLEAN /\ overlap \in BOOLEAN

Init ==
  /\ where = [s \in Sta |-> "unused"]
  /\ mac_id = [s \in Sta |-> None]
  /\ sta_num = 0
  /\ connect_bss = "null"
  /\ bss_sta = None
  /\ todo = [c \in Writers |-> {}]
  /\ new = [c \in Writers |-> None]
  /\ held = [c \in Ctx |-> None]
  /\ rcu = {}
  /\ gp = [s \in Sta |-> {}]
  /\ from_bss = {}
  /\ calls = [s \in Sta |-> 0]
  /\ rejoined = FALSE /\ fw_bss = FALSE /\ overlap = FALSE

Linked == {s \in Sta : where[s] = "linked"}

Idle(c) == todo[c] = {} /\ new[c] = None /\ held[c] = None

(***************************************************************************)
(* r92su_sta_del: look the station up, then unlink it                      *)
(***************************************************************************)
LeaveRcu(c) ==
  /\ rcu' = rcu \ {c}
  /\ gp' = [s \in Sta |-> gp[s] \ {c}]

StaDelFind(c) ==
  LET id == Min(todo[c])
      found == {s \in Linked : mac_id[s] = id}
  IN
  /\ todo[c] # {} /\ held[c] = None
  /\ \/ /\ found = {}
        /\ todo' = [todo EXCEPT ![c] = @ \ {id}]
        /\ UNCHANGED <<held, rcu>>
     \/ \E s \in found :
          /\ held' = [held EXCEPT ![c] = s]
          /\ rcu' = rcu \cup {c}
          /\ UNCHANGED todo
  /\ UNCHANGED <<where, mac_id, sta_num, connect_bss, bss_sta, new, gp,
                 from_bss, calls, history>>

\* list_del_rcu under sta_lock, and call_rcu.
StaDelUnlink(c) ==
  LET s == held[c]
  IN
  /\ s # None
  /\ where' = [where EXCEPT ![s] = "unlinked"]
  /\ sta_num' = sta_num - 1
  /\ held' = [held EXCEPT ![c] = None]
  /\ todo' = [todo EXCEPT ![c] = @ \ {mac_id[s]}]
  /\ calls' = [calls EXCEPT ![s] = IF @ < 2 THEN @ + 1 ELSE @]
  /\ rcu' = rcu \ {c}
  /\ gp' = [t \in Sta |-> IF t = s THEN rcu \ {c} ELSE gp[t] \ {c}]
  /\ UNCHANGED <<mac_id, connect_bss, bss_sta, new, from_bss, history>>

(***************************************************************************)
(* r92su_sta_alloc: remove the old station of that id, link the new one    *)
(***************************************************************************)

\* Some context is about to link a station with this mac id.
Allocating(id) == \E c \in Writers : new[c] # None /\ mac_id[new[c]] = id

\* Mutant: an old station with that id stays in the list.
StaAlloc_KeepsOld(c, id) ==
  /\ Idle(c)
  /\ \E s \in Sta :
       /\ where[s] = "unused"
       /\ where' = [where EXCEPT ![s] = "new"]
       /\ new' = [new EXCEPT ![c] = s]
       /\ mac_id' = [mac_id EXCEPT ![s] = id]
  /\ overlap' = (overlap \/ Allocating(id))
  /\ UNCHANGED <<sta_num, connect_bss, bss_sta, held, rcu, gp, from_bss,
                 calls, todo>>

StaAlloc(c, id) ==
  /\ Idle(c)
  /\ \E s \in Sta :
       /\ where[s] = "unused"
       /\ where' = [where EXCEPT ![s] = "new"]
       /\ new' = [new EXCEPT ![c] = s]
       /\ mac_id' = [mac_id EXCEPT ![s] = id]
  /\ todo' = [todo EXCEPT ![c] = {id}]
  /\ overlap' = (overlap \/ Allocating(id))
  /\ UNCHANGED <<sta_num, connect_bss, bss_sta, held, rcu, gp, from_bss, calls>>

\* The connect work, the only caller with the lock, publishes the bss next.
StaAllocLink(c) ==
  /\ new[c] # None /\ todo[c] = {}
  /\ where' = [where EXCEPT ![new[c]] = "linked"]
  /\ sta_num' = sta_num + 1
  /\ new' = [new EXCEPT ![c] = None]
  /\ IF c = "proc"
     THEN bss_sta' = new[c] /\ connect_bss' = "set"
     ELSE UNCHANGED <<bss_sta, connect_bss>>
  /\ UNCHANGED <<mac_id, todo, held, rcu, gp, from_bss, calls, history>>

(***************************************************************************)
(* The callers                                                             *)
(***************************************************************************)
c2h_add_sta_event(id) ==
  /\ StaAlloc("irq", id)
  /\ fw_bss' = (fw_bss \/ id = BSS_MACID)
  /\ UNCHANGED rejoined

\* r92su_sta_get finds the station by its address; not in station mode.
c2h_del_sta_event(s) ==
  /\ Idle("irq")
  /\ s \in Linked
  /\ todo' = [todo EXCEPT !["irq"] = {mac_id[s]}]
  /\ fw_bss' = (fw_bss \/ mac_id[s] = BSS_MACID)
  /\ UNCHANGED <<where, mac_id, sta_num, connect_bss, bss_sta, new, held, rcu,
                 gp, from_bss, calls, rejoined, overlap>>

\* A join succeeds, perhaps while there is a connection.
r92su_bss_connect_work ==
  /\ Idle("work")
  /\ StaAlloc("proc", BSS_MACID)
  /\ rejoined' = (rejoined \/ connect_bss = "set")
  /\ UNCHANGED fw_bss

\* A join fails: r92su_bss_free takes the station of whatever bss is
\* connected out, after the lock was released.
r92su_bss_connect_fails ==
  /\ Idle("work") /\ Idle("proc")
  /\ todo' = [todo EXCEPT !["work"] = {BSS_MACID}]
  /\ rejoined' = (rejoined \/ connect_bss = "set")
  /\ UNCHANGED <<where, mac_id, sta_num, connect_bss, bss_sta, new, held, rcu,
                 gp, from_bss, calls, fw_bss, overlap>>

\* Mutant: the station goes while the bss is still published.
LeaveBss_Late(ids) ==
  /\ Idle("proc")
  /\ todo' = [todo EXCEPT !["proc"] = ids]
  /\ UNCHANGED <<where, mac_id, sta_num, connect_bss, bss_sta, new, held, rcu,
                 gp, from_bss, calls, history>>

\* r92su_bss_free_connected: the bss is unpublished, then its station goes.
LeaveBss(ids) ==
  /\ Idle("proc")
  /\ connect_bss' = "null"
  /\ todo' = [todo EXCEPT !["proc"] = ids]
  /\ UNCHANGED <<where, mac_id, sta_num, bss_sta, new, held, rcu, gp, from_bss,
                 calls, history>>

r92su_disconnect == connect_bss = "set" /\ LeaveBss({BSS_MACID})

\* r92su_stop: disconnect, then every mac id below MAX_STA.
r92su_stop == LeaveBss({id \in Ids : id < MAX_STA})

(***************************************************************************)
(* Readers and RCU                                                         *)
(***************************************************************************)
ReaderEnters(r) ==
  /\ r \notin rcu
  /\ connect_bss = "set"
  /\ rcu' = rcu \cup {r}
  /\ UNCHANGED <<where, mac_id, sta_num, connect_bss, bss_sta, todo, new,
                 held, gp, from_bss, calls, history>>

\* r92su_sta_get, or else the station of the bss.
ReaderLooks(r) ==
  /\ r \in rcu /\ held[r] = None
  /\ \/ /\ \E s \in Linked : held' = [held EXCEPT ![r] = s]
        /\ UNCHANGED from_bss
     \/ /\ held' = [held EXCEPT ![r] = bss_sta]
        /\ from_bss' = from_bss \cup {r}
  /\ UNCHANGED <<where, mac_id, sta_num, connect_bss, bss_sta, todo, new, rcu,
                 gp, calls, history>>

ReaderLeaves(r) ==
  /\ r \in rcu
  /\ held' = [held EXCEPT ![r] = None]
  /\ from_bss' = from_bss \ {r}
  /\ LeaveRcu(r)
  /\ UNCHANGED <<where, mac_id, sta_num, connect_bss, bss_sta, todo, new,
                 calls, history>>

r92su_free_sta_rcu(s) ==
  /\ where[s] = "unlinked" /\ gp[s] = {}
  /\ where' = [where EXCEPT ![s] = "freed"]
  /\ UNCHANGED <<mac_id, sta_num, connect_bss, bss_sta, todo, new, held, rcu,
                 gp, from_bss, calls, history>>

\* What is unlinked was unlinked once.
UnlinkedOnce == \A s \in Sta : calls[s] <= 1

Next ==
  /\ UnlinkedOnce
  /\ \/ \E c \in Writers : StaDelFind(c) \/ StaDelUnlink(c) \/ StaAllocLink(c)
     \/ \E id \in FwIds : c2h_add_sta_event(id)
     \/ r92su_bss_connect_work \/ r92su_bss_connect_fails
     \/ r92su_disconnect \/ r92su_stop
     \/ \E r \in Readers : ReaderEnters(r) \/ ReaderLooks(r) \/ ReaderLeaves(r)
     \/ \E s \in Sta : c2h_del_sta_event(s) \/ r92su_free_sta_rcu(s)

Spec == Init /\ [][Next]_vars

-----------------------------------------------------------------------------
(***************************************************************************)
(* Properties                                                              *)
(***************************************************************************)

\* At most one station in the table has a given mac id, which is what the
\* descriptors of the hardware identify it by, although r92su_sta_alloc
\* removes the old station of an id outside sta_lock.  Only two allocations
\* of one id at a time leave two stations behind.
UniqueMacId ==
  overlap \/ \A s, t \in Linked : mac_id[s] = mac_id[t] => s = t

\* No context holds a station that has been freed.  For one found in the
\* table RCU sees to that whatever the writers do.  The station of the
\* connected bss is safe because r92su_bss_free_connected unpublishes the
\* bss first; it is not once another join ended during the connection or
\* the firmware named BSS_MACID, which delete the station of a bss that
\* stays published.
NoUseAfterFree ==
  \A c \in Ctx :
    held[c] # None /\ (c \in from_bss => ~rejoined /\ ~fw_bss) =>
      where[held[c]] # "freed"
=============================================================================
