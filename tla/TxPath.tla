------------------------------- MODULE TxPath -------------------------------
(***************************************************************************)
(* The transmit path of r92su/tx.c from r92su_start_xmit to r92su_usb_tx:  *)
(* which key a frame gets, its initialisation vector, and who encrypts it. *)
(*                                                                         *)
(* The network core serialises r92su_start_xmit per transmit queue, and    *)
(* the netdevice has several (alloc_netdev_mqs); the path takes no lock of *)
(* its own.  Keys are replaced under its feet by cfg80211 calls: these     *)
(* hold r92su->lock, and tell the firmware first and the data path later.  *)
(* Bytes are digits of base Byte; WEP counters have three of them, the     *)
(* others six.  Reading a counter and storing it incremented are two steps.*)
(***************************************************************************)
EXTENDS Integers, FiniteSets, Sequences

CONSTANTS
  Queues,     \* transmit queues of the netdevice
  GroupIdx,   \* indices of the group keys
  Ciphers,    \* ciphers to look at, of "wep", "tkip" and "ccmp"
  Byte,       \* 256 in the code
  WeakFrom,   \* first byte of the first weak WEP vector (3 in the code)
  KeyLen,     \* number of weak values of the first byte
  WepStarts,  \* bound: random starts of a WEP counter to look at
  MaxKey,     \* bound: keys installed in the run
  MaxFrames   \* bound: frames on their way or handed to the USB layer

ASSUME TxPathAssumption ==
  /\ Ciphers \subseteq {"wep", "tkip", "ccmp"}
  /\ {Byte, WeakFrom, KeyLen, MaxKey, MaxFrames} \subseteq Nat \ {0}
  /\ WeakFrom + KeyLen <= Byte
  /\ IsFiniteSet(Queues)
  /\ GroupIdx # {} /\ "sta" \notin GroupIdx

\* 2^24 and 2^48 in the code.
Wrap3 == Byte * Byte * Byte
Wrap6 == Byte * Byte * Byte * Wrap3

\* No key lives for 2^48 frames.
ASSUME WrapAssumption ==
  /\ MaxFrames + 1 < Wrap6
  /\ WepStarts \subseteq 0..(Wrap3 - 1)

NoKey == 0
Keys == 1..MaxKey
Slots == GroupIdx \cup {"sta"}
Digit == 0..(Byte - 1)

VARIABLES
  cipher,    \* the cipher of the network
  enc_sta,   \* bss_priv->sta->enc_sta: the network is an encrypted one
  hwcrypt,   \* not modparam_nohwcrypt: keys are uploaded to the firmware
  installed, \* number of keys allocated so far; the last is the newest
  slot,      \* bss_priv->sta->sta_key ("sta") and bss_priv->group_key[...]
  def,       \* bss_priv->def_uni_key_idx and def_multi_key_idx
  uploaded,  \* key -> key->uploaded
  fw,        \* external: slot -> the key the firmware has there, or NoKey
  op,        \* the cfg80211 call between the command and the slot, or NoOp
  tx_seq,    \* key -> its transmit counter
  tx,        \* queue -> the frame in r92su_tx
  air,       \* the frames handed to r92su_usb_tx
  raced,     \* history: keys whose counter two queues used at a time
  late       \* history: keys that left the firmware under a frame

mode == <<cipher, enc_sta, hwcrypt>>
keyring == <<installed, slot, def, uploaded, fw, op>>
vars == <<mode, keyring, tx_seq, tx, air, raced, late>>

Wrap == IF cipher = "wep" THEN Wrap3 ELSE Wrap6

NoOp == [call |-> "none"]
Op == [call : {"add", "del"}, slot : Slots, up : BOOLEAN]

NoFrame == [pc |-> "idle"]
Frame ==
  [pc : {"key", "iv", "inc", "submit"}, dest : {"unicast", "multicast"},
   proto : {"data", "control_port"}, key : {NoKey} \cup Keys,
   needs_encrypt : BOOLEAN, iv : Seq(Digit), seq : Nat, pn : Nat]

\* What the receiver sees of a frame.
Sent == [queue : Queues, proto : {"data", "control_port"},
         key : {NoKey} \cup Keys, iv : Seq(Digit), pn : Nat,
         by : {"none", "driver", "firmware", "nobody"}]

TypeOK ==
  /\ cipher \in Ciphers /\ enc_sta \in BOOLEAN /\ hwcrypt \in BOOLEAN
  /\ installed \in 0..MaxKey
  /\ slot \in [Slots -> 0..installed]
  /\ def \in [{"uni", "multi"} -> GroupIdx]
  /\ uploaded \subseteq Keys /\ fw \in [Slots -> 0..MaxKey]
  /\ op \in Op \cup {NoOp}
  /\ tx_seq \in [Keys -> 0..(Wrap - 1)]
  /\ tx \in [Queues -> Frame \cup {NoFrame}]
  /\ air \in Seq(Sent)
  /\ raced \subseteq Keys /\ late \subseteq Keys

\* A network was joined (enc_sta is what the join event said of it).
Init ==
  /\ cipher \in Ciphers /\ enc_sta \in BOOLEAN /\ hwcrypt \in BOOLEAN
  /\ installed = 0 /\ slot = [i \in Slots |-> NoKey]
  /\ \E i \in GroupIdx : def = [use \in {"uni", "multi"} |-> i]
  /\ uploaded = {} /\ fw = slot /\ op = NoOp
  /\ tx_seq = [k \in Keys |-> 0]
  /\ tx = [q \in Queues |-> NoFrame]
  /\ air = << >>
  /\ raced = {} /\ late = {}

-----------------------------------------------------------------------------
(* Keys come and go *)

\* r92su_key_alloc: where the counter of a new key starts.
FirstSeq == CASE cipher = "wep" -> WepStarts
              [] cipher = "tkip" -> {1}
              [] cipher = "ccmp" -> {0}

InFirmware(k) == \E i \in Slots : fw[i] = k

\* Frames on their way that are left to the firmware.
LeftToFirmware(k) ==
  {q \in Queues : /\ tx[q].pc \in {"iv", "inc", "submit"}
                  /\ k # NoKey /\ tx[q].key = k /\ ~tx[q].needs_encrypt}

\* The firmware takes key in the place of the one it has in slot i, which may
\* be the key of frames on their way.
Firmware(i, key) ==
  /\ fw' = [fw EXCEPT ![i] = key]
  /\ late' = IF LeftToFirmware(fw[i]) # {} THEN late \cup {fw[i]} ELSE late

\* r92su_internal_add_key: the key is allocated, and uploaded if the firmware
\* encrypts; the shared key of a WEP network is in any case (force_upload).
\* (A refused command is in module Keys.)
r92su_add_key(i) ==
  \E up \in {hwcrypt} \cup (IF cipher = "wep" /\ i # "sta" THEN {TRUE} ELSE {}) :
    /\ op = NoOp /\ installed < MaxKey
    /\ installed' = installed + 1
    /\ \E first \in FirstSeq : tx_seq' = [tx_seq EXCEPT ![installed'] = first]
    /\ IF up THEN Firmware(i, installed') ELSE UNCHANGED <<fw, late>>
    /\ op' = [call |-> "add", slot |-> i, up |-> up]
    /\ UNCHANGED <<mode, slot, def, uploaded, tx, air, raced>>

\* Mutant: the key is taken for an uploaded one without looking.
add_key_publish_Flags ==
  /\ op.call = "add"
  /\ slot' = [slot EXCEPT ![op.slot] = installed]
  /\ uploaded' = (uploaded \ {slot[op.slot]}) \cup {installed}
  /\ op' = NoOp
  /\ UNCHANGED <<mode, installed, def, fw, tx_seq, tx, air, raced, late>>

\* The new key is published, the old one is not an uploaded one any more.
add_key_publish ==
  /\ op.call = "add"
  /\ slot' = [slot EXCEPT ![op.slot] = installed]
  /\ uploaded' = (uploaded \ {slot[op.slot]})
                    \cup (IF op.up THEN {installed} ELSE {})
  /\ op' = NoOp
  /\ UNCHANGED <<mode, installed, def, fw, tx_seq, tx, air, raced, late>>

\* r92su_del_key: the key is taken from the firmware.  (One that was never
\* uploaded keeps its slot.)
r92su_del_key(i) ==
  /\ op = NoOp /\ slot[i] \in uploaded
  /\ Firmware(i, NoKey)
  /\ op' = [call |-> "del", slot |-> i, up |-> FALSE]
  /\ UNCHANGED <<mode, installed, slot, def, uploaded, tx_seq, tx, air, raced>>

\* The command was accepted: the key leaves its slot.
del_key_unpublish ==
  /\ op.call = "del"
  /\ slot' = [slot EXCEPT ![op.slot] = NoKey]
  /\ uploaded' = uploaded \ {slot[op.slot]}
  /\ op' = NoOp
  /\ UNCHANGED <<mode, installed, def, fw, tx_seq, tx, air, raced, late>>

\* r92su_set_default_key
r92su_set_default_key(i) ==
  /\ op = NoOp
  /\ \E uses \in SUBSET {"uni", "multi"} :
       def' = [use \in {"uni", "multi"} |-> IF use \in uses THEN i ELSE def[use]]
  /\ UNCHANGED <<mode, installed, slot, uploaded, fw, op, tx_seq, tx, air,
                 raced, late>>

-----------------------------------------------------------------------------
(* r92su_tx *)

Goes(q, frame) == tx' = [tx EXCEPT ![q] = frame]

\* r92su_start_xmit while connected: room is made, the station is found, the
\* 802.11 header is added.
r92su_tx(q, dest, proto) ==
  /\ tx[q] = NoFrame
  /\ Len(air) + Cardinality({r \in Queues : tx[r] # NoFrame}) < MaxFrames
  /\ Goes(q, [pc |-> "key", dest |-> dest, proto |-> proto, key |-> NoKey,
              needs_encrypt |-> FALSE, iv |-> << >>, seq |-> 0, pn |-> 0])
  /\ UNCHANGED <<mode, keyring, tx_seq, air, raced, late>>

\* The key for a destination: the group key for multicast, then the key of
\* the station, then the group key for unicast.
KeyFor(dest) ==
  LET multi == slot[def["multi"]]
  IN  IF dest = "multicast" /\ multi # NoKey THEN multi
      ELSE IF slot["sta"] # NoKey THEN slot["sta"] ELSE slot[def["uni"]]

\* The frame gets the key, and the driver encrypts it or leaves it to the
\* firmware: too late for a key that a cfg80211 call took from there and has
\* not unpublished yet.
WithKey(q, key) ==
  /\ Goes(q, [tx[q] EXCEPT !.pc = "iv", !.key = key,
                           !.needs_encrypt = key \notin uploaded])
  /\ late' = IF /\ op # NoOp /\ slot[op.slot] = key
                /\ key \in uploaded /\ ~InFirmware(key)
             THEN late \cup {key} ELSE late

\* Mutant: without a key the frame goes out as it is.
r92su_tx_select_key_Open(q) ==
  LET key == KeyFor(tx[q].dest)
  IN
  /\ tx[q].pc = "key"
  /\ IF enc_sta /\ key # NoKey THEN WithKey(q, key)
     ELSE Goes(q, [tx[q] EXCEPT !.pc = "submit"]) /\ UNCHANGED late
  /\ UNCHANGED <<mode, keyring, tx_seq, air, raced>>

\* Without a key only frames of the control port may leave.
r92su_tx_select_key(q) ==
  LET key == KeyFor(tx[q].dest)
      open == ~enc_sta \/ tx[q].proto = "control_port"
  IN
  /\ tx[q].pc = "key"
  /\ IF enc_sta /\ key # NoKey THEN WithKey(q, key)
     ELSE /\ Goes(q, IF open THEN [tx[q] EXCEPT !.pc = "submit"] ELSE NoFrame)
          /\ UNCHANGED late
  /\ UNCHANGED <<mode, keyring, tx_seq, air, raced>>

\* The bytes of a counter, the lowest first: it is shifted right, byte by byte.
bytes_of(seq) ==
  LET s1 == seq \div Byte
      s2 == s1 \div Byte
      s3 == s2 \div Byte
      s4 == s3 \div Byte
      s5 == s4 \div Byte
  IN  <<seq % Byte, s1 % Byte, s2 % Byte, s3 % Byte, s4 % Byte, s5 % Byte>>

\* Mutant: the two low bytes of a TKIP counter are swapped.
iv_bytes_Swapped(seq) ==
  LET b == bytes_of(seq)
  IN  CASE cipher = "wep" -> <<b[3], b[2], b[1]>>
        [] OTHER -> b

\* The bytes of the initialisation vector in the order they are sent (byte 1
\* of the TKIP vector, a function of the first, and the key id left out).
iv_bytes(seq) ==
  LET b == bytes_of(seq)
  IN  CASE cipher = "wep" -> <<b[3], b[2], b[1]>>
        [] cipher = "tkip" -> <<b[2], b[1], b[3], b[4], b[5], b[6]>>
        [] cipher = "ccmp" -> <<b[1], b[2], b[3], b[4], b[5], b[6]>>

\* r92su_rx_iv_handle puts a counter together again: (seq << 8) + byte.
rx_seq(iv) ==
  LET add(seq, byte) == seq * Byte + byte
  IN  CASE cipher = "wep" -> add(add(iv[1], iv[2]), iv[3])
        [] cipher = "tkip" ->
             add(add(add(add(add(iv[6], iv[5]), iv[4]), iv[3]), iv[1]), iv[2])
        [] cipher = "ccmp" ->
             add(add(add(add(add(iv[6], iv[5]), iv[4]), iv[3]), iv[2]), iv[1])

\* The first bytes of the weak vectors.
WeakFirst == WeakFrom..(WeakFrom + KeyLen - 1)

IsWeak(seq) == bytes_of(seq)[2] = Byte - 1 /\ bytes_of(seq)[3] \in WeakFirst

\* "filter weak wep iv"
filter_weak_iv(seq) ==
  IF cipher = "wep" /\ IsWeak(seq)
  THEN (seq + Byte) % Wrap ELSE seq

\* r92su_tx_add_iv, first half: the vector is written from the counter.
TxWriteIv(q) ==
  /\ tx[q].pc = "iv"
  /\ LET seq == filter_weak_iv(tx_seq[tx[q].key])
     IN  /\ tx_seq' = [tx_seq EXCEPT ![tx[q].key] = seq]
         /\ Goes(q, [tx[q] EXCEPT !.pc = "inc", !.seq = seq,
                                  !.iv = iv_bytes(seq)])
  /\ raced' = IF \E r \in Queues : tx[r].pc = "inc" /\ tx[r].key = tx[q].key
              THEN raced \cup {tx[q].key} ELSE raced
  /\ UNCHANGED <<mode, keyring, air, late>>

\* Mutant: the counter is not stored.
TxIncSeq_Forgets(q) ==
  /\ tx[q].pc = "inc"
  /\ Goes(q, [tx[q] EXCEPT !.pc = "submit", !.pn = tx[q].seq])
  /\ UNCHANGED <<mode, keyring, tx_seq, air, raced, late>>

\* Second half, pn = tx_seq++.  The compiler may read the counter again.
TxIncSeq(q) ==
  /\ tx[q].pc = "inc"
  /\ \E seq \in {tx[q].seq, tx_seq[tx[q].key]} :
       /\ tx_seq' = [tx_seq EXCEPT ![tx[q].key] = (seq + 1) % Wrap]
       /\ Goes(q, [tx[q] EXCEPT !.pc = "submit", !.pn = seq])
  /\ UNCHANGED <<mode, keyring, air, raced, late>>

\* r92su_tx_add_crypto and r92su_tx_fill_desc: the driver encrypts, or the
\* descriptor tells the firmware to, which may not have that key any more.
EncryptedBy(frame) == IF frame.key = NoKey THEN "none"
                      ELSE IF frame.needs_encrypt THEN "driver"
                      ELSE IF InFirmware(frame.key) THEN "firmware" ELSE "nobody"

\* The finished frame goes to r92su_usb_tx.
TxSubmit(q) ==
  /\ tx[q].pc = "submit"
  /\ air' = Append(air, [queue |-> q, proto |-> tx[q].proto,
                         key |-> tx[q].key, iv |-> tx[q].iv,
                         pn |-> tx[q].pn, by |-> EncryptedBy(tx[q])])
  /\ Goes(q, NoFrame)
  /\ UNCHANGED <<mode, keyring, tx_seq, raced, late>>

-----------------------------------------------------------------------------
TxNext(q) ==
  \/ \E dest \in {"unicast", "multicast"}, proto \in {"data", "control_port"} :
       r92su_tx(q, dest, proto)
  \/ r92su_tx_select_key(q) \/ TxWriteIv(q) \/ TxIncSeq(q) \/ TxSubmit(q)

Next ==
  \/ \E i \in Slots : r92su_add_key(i) \/ r92su_del_key(i)
  \/ add_key_publish \/ del_key_unpublish
  \/ \E i \in GroupIdx : r92su_set_default_key(i)
  \/ \E q \in Queues : TxNext(q)

Spec == Init /\ [][Next]_vars

-----------------------------------------------------------------------------
(* Properties *)

\* On an encrypted network no data frame leaves in the clear: the driver has
\* encrypted it, or the firmware, which it is left to, has its key, although
\* keys come, go and change their place between r92su_tx_select_key, which
\* reads key->uploaded, and r92su_usb_tx.  The code does not keep it for a
\* key that leaves the firmware while a frame with it is on its way, or that
\* a frame finds in its slot after it left: needs_encrypt is not looked at
\* again (tx.c:578).
NoPlaintext ==
  enc_sta => \A i \in DOMAIN air :
    air[i].proto = "data" =>
      air[i].by \in {"driver", "firmware"} \/ air[i].key \in late

\* Counters are fresh: no two frames share a key and a vector, which the
\* ciphers need, and the frames of a queue leave with increasing counters,
\* whatever the other queues send, because a receiver drops any that does not
\* (r92su_rx_iv_handle).  The code keeps it only while no two queues are
\* inside r92su_tx_add_iv with one key: tx_seq is read and incremented
\* without a lock (tx.c:218).
PnFresh ==
  cipher \in {"tkip", "ccmp"} =>
    \A i, j \in DOMAIN air :
      /\ i < j
      /\ air[i].key = air[j].key /\ air[i].key \notin raced \cup {NoKey}
      => /\ air[i].iv # air[j].iv
         /\ air[i].queue = air[j].queue => air[i].pn < air[j].pn

\* What r92su_rx_iv_handle reads from the vector is the counter the frame
\* was encrypted with: r92su_tx_add_iv writes one and keeps the other (which
\* the race at tx.c:218 may tell apart).
DecodesToPn ==
  \A i \in DOMAIN air :
    air[i].key \notin raced \cup {NoKey} => rx_seq(air[i].iv) = air[i].pn

=============================================================================
