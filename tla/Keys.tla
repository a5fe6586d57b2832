-------------------------------- MODULE Keys --------------------------------
(***************************************************************************)
(* The keys of a connection (r92su/main.c: r92su_internal_add_key,         *)
(* r92su_add_key, r92su_del_key, and the freeing of keys with their bss    *)
(* and station; r92su/sta.c: r92su_key_alloc, r92su_key_free).             *)
(*                                                                         *)
(* A slot is the pairwise key of the station ("sta") or one of the group   *)
(* keys of the bss.  The operations hold r92su->lock, so none begins while *)
(* another waits for the firmware; the data path reads the slots under RCU *)
(* and holds on to the key it found.  r92su_key_free frees after a grace   *)
(* period, kfree at once.                                                  *)
(***************************************************************************)
EXTENDS Integers, FiniteSets

CONSTANTS
  Key,        \* key objects
  GroupIdx,   \* indices of the group keys
  Readers,    \* contexts of the data path
  nohwcrypt,  \* the module parameter: "yes", keys are not uploaded
  None

ASSUME KeysAssumption ==
  /\ None \notin Key \cup GroupIdx \cup {"sta"}
  /\ "sta" \notin GroupIdx
  /\ nohwcrypt \in {"yes", "no"}

VARIABLES
  connected, \* "yes" in R92SU_CONNECTED
  slot,      \* sta_key and group_key[]: a key or None
  life,      \* of a key: "unused", "live", "dying" (a grace period), "freed"
  uploaded,  \* the keys whose flag uploaded is set
  fw,        \* external: the key the firmware has in a slot, or None
  held,      \* reader -> the key it holds, or None
  rcu,       \* readers inside a read-side section
  gp,        \* key -> readers its grace period waits for
  deleting,  \* the slot whose key the firmware has deleted, or None
  refused    \* history: "yes" once a command could not be submitted

vars == <<connected, slot, life, uploaded, fw, held, rcu, gp, deleting,
          refused>>

Slot == GroupIdx \cup {"sta"}

TypeOK ==
  /\ connected \in {"yes", "no"}
  /\ slot \in [Slot -> Key \cup {None}]
  /\ life \in [Key -> {"unused", "live", "dying", "freed"}]
  /\ uploaded \in SUBSET Key
  /\ fw \in [Slot -> Key \cup {None}]
  /\ held \in [Readers -> Key \cup {None}]
  /\ rcu \in SUBSET Readers
  /\ gp \in [Key -> SUBSET Readers]
  /\ deleting \in Slot \cup {None}
  /\ refused \in {"yes", "no"}

Init ==
  /\ connected = "no"
  /\ slot = [i \in Slot |-> None]
  /\ life = [k \in Key |-> "unused"]
  /\ uploaded = {}
  /\ fw = [i \in Slot |-> None]
  /\ held = [r \in Readers |-> None]
  /\ rcu = {}
  /\ gp = [k \in Key |-> {}]
  /\ deleting = None
  /\ refused = "no"

(***************************************************************************)
(* r92su_key_free for every key of ks, which may include None; the key nk  *)
(* gets a new life                                                         *)
(***************************************************************************)
KeyFree(ks, nk, newlife) ==
  /\ life' = [k \in Key |-> IF k \in ks THEN "dying"
                            ELSE IF k = nk THEN newlife ELSE life[k]]
  /\ gp' = [k \in Key |-> IF k \in ks THEN rcu ELSE gp[k]]

\* The outcomes of r92su_h2c_set_key and r92su_h2c_set_sta_key.
Outcomes == {"ok", "fail"}

Refused(failed) == refused' = IF failed THEN "yes" ELSE refused

(***************************************************************************)
(* r92su_internal_add_key: upload, then publish                            *)
(***************************************************************************)
\* Mutant: the key that is replaced is forgotten.
r92su_add_key_Leaks(i) ==
  \E k \in Key, err \in Outcomes, found \in {"found", "missing"} :
    LET old == slot[i]
        up == nohwcrypt = "no" /\ err = "ok"
        failed == nohwcrypt = "no" /\ err = "fail"
        publishes == found = "found" /\ ~(failed /\ old \in uploaded)
    IN
    /\ connected = "yes" /\ deleting = None /\ life[k] = "unused"
    /\ found = "missing" => i = "sta" /\ old = None
    /\ fw' = IF up THEN [fw EXCEPT ![i] = k] ELSE fw
    /\ slot' = IF publishes THEN [slot EXCEPT ![i] = k] ELSE slot
    /\ uploaded' = (IF publishes THEN uploaded \ {old} ELSE uploaded)
                     \cup (IF up /\ publishes THEN {k} ELSE {})
    /\ KeyFree({}, k, IF publishes /\ ~failed THEN "live" ELSE "freed")
    /\ Refused(failed)
    /\ UNCHANGED <<connected, held, rcu, deleting>>

\* The station may have gone ("missing").  On an error the new key is freed
\* at once, published or not.
r92su_add_key(i) ==
  \E k \in Key, err \in Outcomes, found \in {"found", "missing"} :
    LET old == slot[i]
        up == nohwcrypt = "no" /\ err = "ok"
        failed == nohwcrypt = "no" /\ err = "fail"
        publishes == found = "found" /\ ~(failed /\ old \in uploaded)
    IN
    /\ connected = "yes" /\ deleting = None /\ life[k] = "unused"
    /\ found = "missing" => i = "sta" /\ old = None
    /\ fw' = IF up THEN [fw EXCEPT ![i] = k] ELSE fw
    /\ slot' = IF publishes THEN [slot EXCEPT ![i] = k] ELSE slot
    /\ uploaded' = (IF publishes THEN uploaded \ {old} ELSE uploaded)
                     \cup (IF up /\ publishes THEN {k} ELSE {})
    /\ KeyFree(IF publishes THEN {old} ELSE {}, k,
               IF publishes /\ ~failed THEN "live" ELSE "freed")
    /\ Refused(failed)
    /\ UNCHANGED <<connected, held, rcu, deleting>>

(***************************************************************************)
(* r92su_del_key                                                           *)
(***************************************************************************)
\* Outside of the RCU section the firmware is told to delete the key; one
\* that was never uploaded is freed, and nothing else.
r92su_del_key(i) ==
  LET old == slot[i]
  IN
  /\ connected = "yes" /\ deleting = None
  /\ \/ /\ old # None /\ old \notin uploaded
        /\ KeyFree({old}, None, "freed")
        /\ UNCHANGED <<fw, deleting, refused>>
     \/ /\ old = None \/ old \in uploaded
        /\ \E err \in Outcomes :
             /\ IF err = "ok" THEN fw' = [fw EXCEPT ![i] = None] /\ deleting' = i
                ELSE UNCHANGED <<fw, deleting>>
             /\ Refused(err = "fail")
        /\ UNCHANGED <<life, gp>>
  /\ UNCHANGED <<connected, slot, uploaded, held, rcu>>

\* Mutant: the slot keeps its pointer.
del_key_unpublish_Keeps ==
  /\ deleting # None
  /\ uploaded' = uploaded \ {slot[deleting]}
  /\ KeyFree({slot[deleting]}, None, "freed")
  /\ deleting' = None
  /\ UNCHANGED <<connected, slot, fw, held, rcu, refused>>

\* Mutant: the key is taken from the firmware only.
del_key_unpublish_FwOnly ==
  /\ deleting # None /\ deleting' = None
  /\ UNCHANGED <<connected, slot, life, uploaded, fw, held, rcu, gp, refused>>

\* The command was accepted: the key is looked up again and leaves its slot.
del_key_unpublish ==
  /\ deleting # None
  /\ slot' = [slot EXCEPT ![deleting] = None]
  /\ uploaded' = uploaded \ {slot[deleting]}
  /\ KeyFree({slot[deleting]}, None, "freed")
  /\ deleting' = None
  /\ UNCHANGED <<connected, fw, held, rcu, refused>>

(***************************************************************************)
(* The connection                                                          *)
(***************************************************************************)
Connect ==
  /\ connected = "no"
  /\ connected' = "yes"
  /\ UNCHANGED <<slot, life, uploaded, fw, held, rcu, gp, deleting, refused>>

\* r92su_bss_free and r92su_free_sta_rcu.  The firmware keeps its keys.
Leave ==
  /\ connected = "yes" /\ deleting = None
  /\ connected' = "no"
  /\ slot' = [i \in Slot |-> None]
  /\ KeyFree({slot[i] : i \in Slot}, None, "freed")
  /\ UNCHANGED <<uploaded, fw, held, rcu, deleting, refused>>

(***************************************************************************)
(* Readers and RCU                                                         *)
(***************************************************************************)
\* r92su_rx_find_key, r92su_tx_select_key
ReaderTakes(r, i) ==
  /\ r \notin rcu /\ connected = "yes"
  /\ slot[i] # None
  /\ rcu' = rcu \cup {r}
  /\ held' = [held EXCEPT ![r] = slot[i]]
  /\ UNCHANGED <<connected, slot, life, uploaded, fw, gp, deleting, refused>>

ReaderLeaves(r) ==
  /\ r \in rcu
  /\ rcu' = rcu \ {r}
  /\ held' = [held EXCEPT ![r] = None]
  /\ gp' = [k \in Key |-> gp[k] \ {r}]
  /\ UNCHANGED <<connected, slot, life, uploaded, fw, deleting, refused>>

GracePeriodEnds(k) ==
  /\ life[k] = "dying" /\ gp[k] = {}
  /\ life' = [life EXCEPT ![k] = "freed"]
  /\ uploaded' = uploaded \ {k}
  /\ UNCHANGED <<connected, slot, fw, held, rcu, gp, deleting, refused>>

Next ==
  \/ \E i \in Slot : r92su_add_key(i) \/ r92su_del_key(i)
  \/ del_key_unpublish
  \/ Connect \/ Leave
  \/ \E r \in Readers : ReaderLeaves(r) \/ \E i \in Slot : ReaderTakes(r, i)
  \/ \E k \in Key : GracePeriodEnds(k)

Spec == Init /\ [][Next]_vars

-----------------------------------------------------------------------------
(***************************************************************************)
(* Properties                                                              *)
(***************************************************************************)

\* "The station data itself is protected by RCU" (main.c): a key that the
\* data path found in a slot is not freed while it is used.  The code keeps
\* this as long as every command is accepted: r92su_internal_add_key frees a
\* key at once whose upload failed, although it has published it.  Without
\* hardware encryption it does not keep it at all: r92su_del_key frees a key
\* that was not uploaded and leaves it in its slot.
KeyUnderRcu ==
  refused = "no" =>
    \A r \in Readers : held[r] # None => life[held[r]] # "freed"

\* A key marked uploaded is the one that the firmware has in the slot: a
\* frame sent with it is encrypted with it.  Between the command that deletes
\* a key and its removal from the slot the code does not keep this (what
\* becomes of a frame that finds it there is in module TxPath).
UploadedIsInFirmware ==
  \A i \in Slot \ {deleting} : slot[i] \in uploaded => fw[i] = slot[i]

\* A live key is in one slot: none is lost when a key is replaced or deleted
\* and when the connection ends, and none belongs to two slots.
LiveIsOwned ==
  \A k \in Key : life[k] = "live" => Cardinality({i \in Slot : slot[i] = k}) = 1
=============================================================================
