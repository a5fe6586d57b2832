---------------------------- MODULE TxPathProofs -----------------------------
(***************************************************************************)
(* Proofs about TxPath for every finite set of transmit queues, every set  *)
(* of group key indices, every base of the bytes and every number of keys  *)
(* and frames: no plaintext on an encrypted network, vectors that decode   *)
(* to their counters, and fresh counters as long as no two queues use one  *)
(* at a time.                                                              *)
(***************************************************************************)
EXTENDS TxPath, FiniteSetTheorems, TLAPS

(***************************************************************************)
(* The inductive invariant                                                 *)
(***************************************************************************)

\* A frame has a key from r92su_tx_select_key on, if it gets one at all.
KeysKnown ==
  /\ \A q \in Queues :
       /\ tx[q].pc = "key" => tx[q].key = NoKey
       /\ tx[q].pc \in {"iv", "inc"} => tx[q].key # NoKey
       /\ tx[q].pc # "idle" => tx[q].key <= installed
  /\ \A i \in DOMAIN air : air[i].key <= installed

\* A data frame of an encrypted network past r92su_tx_select_key has one.
Covered ==
  enc_sta => \A q \in Queues :
    tx[q].pc \in {"iv", "inc", "submit"} /\ tx[q].proto = "data" =>
      tx[q].key # NoKey

\* A key in a slot that is marked uploaded is the one the firmware has there,
\* except in the slot a cfg80211 call is about to change; the key that call
\* has allocated is not known to the data path yet.
Keyring ==
  /\ \A k \in uploaded : k <= installed
  /\ \A i \in Slots : slot[i] \in uploaded =>
       fw[i] = slot[i] \/ (op # NoOp /\ op.slot = i)
  /\ op.call = "add" =>
       /\ installed \in Keys /\ installed \notin uploaded
       /\ \A i \in Slots : slot[i] # installed
       /\ op.up => fw[op.slot] = installed

\* A frame left to the firmware has a key from there, or a late one.
LeftPinned ==
  \A q \in Queues :
    /\ tx[q].pc \in {"iv", "inc", "submit"}
    /\ tx[q].key # NoKey /\ ~tx[q].needs_encrypt
    => InFirmware(tx[q].key) \/ tx[q].key \in late

\* Between writing the vector and storing the counter a queue is alone with
\* its key, and the counter is still the one the vector was written from.
AloneWithKey ==
  \A q \in Queues :
    tx[q].pc = "inc" /\ tx[q].key \notin raced =>
      /\ tx_seq[tx[q].key] = tx[q].seq
      /\ \A r \in Queues \ {q} : ~(tx[r].pc = "inc" /\ tx[r].key = tx[q].key)

\* The vector of a frame is written from the counter it leaves with.
VectorOf(iv, n) == n \in 0..(Wrap - 1) /\ iv = iv_bytes(n)

VectorsMatch ==
  /\ \A q \in Queues :
       tx[q].pc = "inc" => VectorOf(tx[q].iv, tx[q].seq)
  /\ \A q \in Queues :
       tx[q].pc = "submit" /\ tx[q].key \notin raced \cup {NoKey} =>
         VectorOf(tx[q].iv, tx[q].pn)
  /\ \A i \in DOMAIN air :
       air[i].key \notin raced \cup {NoKey} => VectorOf(air[i].iv, air[i].pn)

\* The frames that were encrypted with key k: about to go, and gone.
Ready(k) == {q \in Queues : tx[q].pc = "submit" /\ tx[q].key = k}
Gone(k) == {i \in DOMAIN air : air[i].key = k}

\* The counters that were used with key k lie below its counter, and differ.
FreshFor(k) ==
  /\ \A i \in Gone(k) : air[i].pn < tx_seq[k]
  /\ \A q \in Ready(k) : tx[q].pn < tx_seq[k]
  /\ \A i, j \in Gone(k) :
       i < j => /\ air[i].pn # air[j].pn
                /\ air[i].queue = air[j].queue => air[i].pn < air[j].pn
  /\ \A q \in Ready(k), i \in Gone(k) :
       /\ air[i].pn # tx[q].pn
       /\ air[i].queue = q => air[i].pn < tx[q].pn
  /\ \A q, r \in Ready(k) : q # r => tx[q].pn # tx[r].pn

\* The frames handed on, or about to be, and those on their way.
Submitting == {q \in Queues : tx[q].pc = "submit"}
Busy == {q \in Queues : tx[q] # NoFrame}

CountersFresh ==
  cipher # "wep" => \A k \in Keys \ raced : FreshFor(k)

\* No counter runs ahead of the frames, so that none wraps.
NoWrap ==
  /\ Len(air) + Cardinality(Busy) <= MaxFrames
  /\ cipher # "wep" =>
       \A k \in Keys \ raced :
         tx_seq[k] <= Len(air) + Cardinality(Submitting) + 1

IInv ==
  /\ TypeOK /\ KeysKnown /\ Keyring /\ Covered /\ LeftPinned /\ NoPlaintext
  /\ AloneWithKey /\ VectorsMatch /\ CountersFresh /\ NoWrap

(***************************************************************************)
(* The bytes of a counter                                                  *)
(***************************************************************************)

\* What the assumption says of the base.
LEMMA Bounds ==
  /\ Byte \in Nat /\ Byte >= 2 /\ MaxKey \in Nat \ {0} /\ MaxFrames \in Nat
  /\ Wrap3 \in Nat \ {0} /\ Wrap6 \in Nat /\ MaxFrames + 1 < Wrap6
<1>1. /\ Byte \in Nat /\ Byte >= 2 /\ MaxKey \in Nat \ {0}
      /\ MaxFrames \in Nat
  BY TxPathAssumption
<1>2. Byte * Byte \in Nat \ {0}
  BY <1>1
<1>3. Wrap3 \in Nat \ {0}
  BY <1>1, <1>2 DEF Wrap3
<1>4. Byte * Byte * Byte \in Nat
  BY <1>1, <1>2
<1>5. Wrap6 \in Nat
  BY <1>3, <1>4 DEF Wrap6
<1>6. QED
  BY <1>1, <1>3, <1>5, WrapAssumption

\* Shifting a counter right by a byte, and what is shifted out.
LEMMA ShiftIs ==
  ASSUME NEW x \in Nat
  PROVE  /\ x \div Byte \in Nat /\ x % Byte \in Digit
         /\ (x \div Byte) * Byte + (x % Byte) = x
<1>1. Byte \in Nat /\ Byte >= 2
  BY Bounds
<1>2. /\ x \div Byte \in Int /\ x % Byte \in 0..(Byte - 1)
      /\ (x \div Byte) * Byte + (x % Byte) = x
  BY <1>1
<1>3. x \div Byte >= 0
  BY <1>1
<1>4. QED
  BY <1>2, <1>3 DEF Digit

\* A byte less is left.
LEMMA ShiftBound ==
  ASSUME NEW x \in Nat, NEW m \in Nat, x < m * Byte
  PROVE  x \div Byte < m
<1> DEFINE y == x \div Byte
           z == x % Byte
<1>1. y \in Nat /\ z \in 0..(Byte - 1) /\ y * Byte + z = x /\ Byte \in Nat
  BY ShiftIs, Bounds DEF Digit
<1> HIDE DEF y, z
<1>2. CASE y >= m
  <2>1. y * Byte >= m * Byte
    BY <1>1, <1>2
  <2>2. QED
    BY <1>1, <2>1
<1>3. y < m
  BY <1>1, <1>2
<1>4. QED
  BY <1>3 DEF y

\* The last byte is all that is left.
LEMMA LastByte ==
  ASSUME NEW x \in Nat, x < Byte
  PROVE  x % Byte = x
<1>1. x < 1 * Byte
  BY Bounds
<1>2. x \div Byte < 1
  BY <1>1, ShiftBound
<1>3. x \div Byte = 0
  BY <1>2, ShiftIs
<1>4. x % Byte \in Int /\ 0 * Byte + (x % Byte) = x /\ 0 * Byte = 0
  BY <1>3, ShiftIs, Bounds DEF Digit
<1>5. QED
  BY <1>4

\* The receiver reads the counter that the sender wrote: three bytes ...
LEMMA Decode3 ==
  ASSUME NEW n \in Nat, n < Wrap3
  PROVE  LET b == bytes_of(n)
         IN  (b[3] * Byte + b[2]) * Byte + b[1] = n
<1> DEFINE s1 == n \div Byte
           s2 == s1 \div Byte
<1>1. s1 \in Nat /\ s1 * Byte + (n % Byte) = n
  BY ShiftIs
<1>2. s2 \in Nat /\ s2 * Byte + (s1 % Byte) = s1
  BY <1>1, ShiftIs
<1>3. s1 < Byte * Byte
  <2>1. Byte * Byte \in Nat /\ n < (Byte * Byte) * Byte
    BY Bounds DEF Wrap3
  <2>2. QED
    BY <2>1, ShiftBound
<1>4. s2 < Byte
  <2>1. s1 \in Nat /\ Byte \in Nat
    BY <1>1, Bounds
  <2>2. QED
    BY <1>3, <2>1, ShiftBound
<1>5. s2 % Byte = s2
  BY <1>2, <1>4, LastByte
<1>6. /\ bytes_of(n)[1] = n % Byte /\ bytes_of(n)[2] = s1 % Byte
      /\ bytes_of(n)[3] = s2 % Byte
  BY DEF bytes_of
<1> HIDE DEF s1, s2
<1>7. QED
  BY <1>1, <1>2, <1>5, <1>6

\* ... or six.
LEMMA Decode6 ==
  ASSUME NEW n \in Nat, n < Wrap6
  PROVE  LET b == bytes_of(n)
         IN  ((((b[6] * Byte + b[5]) * Byte + b[4]) * Byte + b[3]) * Byte
                + b[2]) * Byte + b[1] = n
<1> DEFINE s1 == n \div Byte
           s2 == s1 \div Byte
           s3 == s2 \div Byte
           s4 == s3 \div Byte
           s5 == s4 \div Byte
           m2 == Byte * Byte
           m3 == Byte * Byte * Byte
<1>0. Byte \in Nat /\ m2 \in Nat /\ m3 \in Nat /\ m2 * Byte = m3
  BY Bounds
<1>1. s1 \in Nat /\ s1 * Byte + (n % Byte) = n
  BY ShiftIs
<1>2. s2 \in Nat /\ s2 * Byte + (s1 % Byte) = s1
  BY <1>1, ShiftIs
<1>3. s3 \in Nat /\ s3 * Byte + (s2 % Byte) = s2
  BY <1>2, ShiftIs
<1>4. s4 \in Nat /\ s4 * Byte + (s3 % Byte) = s3
  BY <1>3, ShiftIs
<1>5. s5 \in Nat /\ s5 * Byte + (s4 % Byte) = s4
  BY <1>4, ShiftIs
<1>6. /\ bytes_of(n)[1] = n % Byte /\ bytes_of(n)[2] = s1 % Byte
      /\ bytes_of(n)[3] = s2 % Byte /\ bytes_of(n)[4] = s3 % Byte
      /\ bytes_of(n)[5] = s4 % Byte /\ bytes_of(n)[6] = s5 % Byte
  BY DEF bytes_of
<1>7. s3 < m3
  <2> HIDE DEF m2, m3
  <2>1. n < ((m3 * Byte) * Byte) * Byte
    <3>1. Wrap6 = m3 * m3 /\ m3 = Byte * Byte * Byte
      BY DEF Wrap6, Wrap3, m3
    <3>2. ((m3 * Byte) * Byte) * Byte = m3 * (Byte * Byte * Byte)
      BY <1>0
    <3>3. QED
      BY <3>1, <3>2
  <2>2. m3 * Byte \in Nat /\ (m3 * Byte) * Byte \in Nat
    BY <1>0
  <2>3. s1 < (m3 * Byte) * Byte
    BY <2>1, <2>2, ShiftBound
  <2>4. s2 < m3 * Byte
    <3> HIDE DEF s1
    <3>1. QED
      BY <1>1, <2>2, <2>3, ShiftBound
  <2>5. QED
    <3> HIDE DEF s2
    <3>1. QED
      BY <1>0, <1>2, <2>4, ShiftBound
<1> HIDE DEF m2, m3
<1>8. s4 < m2
  <2> HIDE DEF s3
  <2>1. QED
    BY <1>0, <1>3, <1>7, ShiftBound
<1>9. s5 < Byte
  <2> HIDE DEF s4
  <2>1. s4 < Byte * Byte
    BY <1>8 DEF m2
  <2>2. QED
    BY <1>0, <1>4, <2>1, ShiftBound
<1>10. s5 % Byte = s5
  <2> HIDE DEF s5
  <2>1. QED
    BY <1>5, <1>9, LastByte
<1> HIDE DEF s1, s2, s3, s4, s5
<1>11. QED
  BY <1>1, <1>2, <1>3, <1>4, <1>5, <1>6, <1>10

\* Every byte is one.
LEMMA BytesType ==
  ASSUME NEW n \in Nat
  PROVE  \A i \in 1..6 : bytes_of(n)[i] \in Digit
<1> DEFINE s1 == n \div Byte
           s2 == s1 \div Byte
           s3 == s2 \div Byte
           s4 == s3 \div Byte
           s5 == s4 \div Byte
<1>1. s1 \in Nat /\ n % Byte \in Digit
  BY ShiftIs
<1>2. s2 \in Nat /\ s1 % Byte \in Digit
  BY <1>1, ShiftIs
<1>3. s3 \in Nat /\ s2 % Byte \in Digit
  BY <1>2, ShiftIs
<1>4. s4 \in Nat /\ s3 % Byte \in Digit
  BY <1>3, ShiftIs
<1>5. s5 \in Nat /\ s4 % Byte \in Digit
  BY <1>4, ShiftIs
<1>6. s5 % Byte \in Digit
  BY <1>5, ShiftIs
<1>7. /\ bytes_of(n)[1] = n % Byte /\ bytes_of(n)[2] = s1 % Byte
      /\ bytes_of(n)[3] = s2 % Byte /\ bytes_of(n)[4] = s3 % Byte
      /\ bytes_of(n)[5] = s4 % Byte /\ bytes_of(n)[6] = s5 % Byte
  BY DEF bytes_of
<1> HIDE DEF s1, s2, s3, s4, s5
<1>8. QED
  BY <1>1, <1>2, <1>3, <1>4, <1>5, <1>6, <1>7

\* iv_bytes writes bytes ...
LEMMA IvType ==
  ASSUME cipher \in {"wep", "tkip", "ccmp"}, NEW n \in Nat
  PROVE  iv_bytes(n) \in Seq(Digit)
<1> DEFINE b == bytes_of(n)
<1>1. \A i \in 1..6 : b[i] \in Digit
  BY BytesType
<1> HIDE DEF b
<1>2. /\ <<b[3], b[2], b[1]>> \in Seq(Digit)
      /\ <<b[2], b[1], b[3], b[4], b[5], b[6]>> \in Seq(Digit)
      /\ <<b[1], b[2], b[3], b[4], b[5], b[6]>> \in Seq(Digit)
  BY <1>1
<1>3. iv_bytes(n) \in {<<b[3], b[2], b[1]>>,
                       <<b[2], b[1], b[3], b[4], b[5], b[6]>>,
                       <<b[1], b[2], b[3], b[4], b[5], b[6]>>}
  BY DEF iv_bytes, b
<1>4. QED
  BY <1>2, <1>3

\* ... which r92su_rx_iv_handle puts together again.
LEMMA IvDecodes ==
  ASSUME cipher \in {"wep", "tkip", "ccmp"}, NEW n \in 0..(Wrap - 1)
  PROVE  rx_seq(iv_bytes(n)) = n
<1> DEFINE b == bytes_of(n)
<1>1. n \in Nat /\ n < Wrap
  BY Bounds DEF Wrap
<1>2. CASE cipher = "wep"
  <2>1. (b[3] * Byte + b[2]) * Byte + b[1] = n
    BY <1>1, <1>2, Decode3 DEF Wrap
  <2>2. iv_bytes(n) = <<b[3], b[2], b[1]>>
    BY <1>2 DEF iv_bytes
  <2> HIDE DEF b
  <2>3. QED
    BY <1>2, <2>1, <2>2 DEF rx_seq
<1>3. CASE cipher # "wep"
  <2>1. ((((b[6] * Byte + b[5]) * Byte + b[4]) * Byte + b[3]) * Byte
           + b[2]) * Byte + b[1] = n
    BY <1>1, <1>3, Decode6 DEF Wrap
  <2>2. /\ cipher = "tkip" =>
             iv_bytes(n) = <<b[2], b[1], b[3], b[4], b[5], b[6]>>
        /\ cipher = "ccmp" =>
             iv_bytes(n) = <<b[1], b[2], b[3], b[4], b[5], b[6]>>
    BY DEF iv_bytes
  <2> HIDE DEF b
  <2>3. QED
    BY <1>3, <2>1, <2>2 DEF rx_seq
<1>4. QED
  BY <1>2, <1>3

(***************************************************************************)
(* Frames and their number                                                 *)
(***************************************************************************)

\* A frame on its way is a record of its fields.
LEMMA FrameOf ==
  ASSUME TypeOK, NEW q \in Queues
  PROVE  /\ tx[q].pc # "idle" => tx[q] \in Frame
         /\ tx[q].pc \in {"idle", "key", "iv", "inc", "submit"}
         /\ tx[q] = NoFrame <=> tx[q].pc = "idle"
  BY DEF TypeOK, NoFrame, Frame

\* So is one that was handed to r92su_usb_tx.
LEMMA AirOf ==
  ASSUME TypeOK, NEW i \in DOMAIN air
  PROVE  air[i] \in Sent
  BY DEF TypeOK

\* A queue exchanges its frame, and the others keep theirs.
LEMMA GoesIs ==
  ASSUME TypeOK, NEW q \in Queues, NEW g \in Frame \cup {NoFrame}, Goes(q, g)
  PROVE  /\ tx'[q] = g /\ \A r \in Queues \ {q} : tx'[r] = tx[r]
         /\ tx' \in [Queues -> Frame \cup {NoFrame}]
  BY DEF TypeOK, Goes

\* Counting queues.
LEMMA CountQueues ==
  ASSUME NEW S \in SUBSET Queues
  PROVE  /\ Cardinality(S) \in Nat /\ IsFiniteSet(S)
         /\ \A q \in Queues \ S : Cardinality(S \cup {q}) = Cardinality(S) + 1
         /\ \A q \in S : Cardinality(S \ {q}) = Cardinality(S) - 1
<1>1. IsFiniteSet(S)
  BY TxPathAssumption, FS_Subset
<1>2. QED
  BY <1>1, FS_CardinalityType, FS_AddElement, FS_RemoveElement

\* The limits of the run count frames that are under way.
LEMMA CountSubsets ==
  /\ Submitting \in SUBSET Queues /\ Busy \in SUBSET Queues
  /\ Cardinality(Submitting) \in Nat /\ Cardinality(Busy) \in Nat
  BY CountQueues DEF Submitting, Busy

(***************************************************************************)
(* Keys come and go                                                        *)
(***************************************************************************)

\* Where the counter of a new key may start.
LEMMA FirstSeqIs ==
  ASSUME cipher \in {"wep", "tkip", "ccmp"}, NEW first \in FirstSeq
  PROVE  /\ first \in 0..(Wrap - 1)
         /\ cipher # "wep" => first <= 1
<1>1. WepStarts \subseteq 0..(Wrap3 - 1)
  BY WrapAssumption
<1>2. QED
  BY <1>1, Bounds DEF FirstSeq, Wrap

\* The firmware gets a key, or none, for a slot: a frame that loses its key by
\* it is noted.
LEMMA FirmwareIs ==
  ASSUME TypeOK, LeftPinned, NEW i \in Slots, NEW key \in 0..MaxKey,
         Firmware(i, key), UNCHANGED tx
  PROVE  /\ fw' \in [Slots -> 0..MaxKey] /\ fw'[i] = key
         /\ \A j \in Slots \ {i} : fw'[j] = fw[j]
         /\ late' \subseteq Keys /\ late \subseteq late'
         /\ LeftPinned'
<1>1. /\ fw' \in [Slots -> 0..MaxKey] /\ fw'[i] = key
      /\ \A j \in Slots \ {i} : fw'[j] = fw[j]
  BY DEF Firmware, TypeOK
<1>2. late \subseteq late' /\ (LeftToFirmware(fw[i]) # {} => fw[i] \in late')
  BY DEF Firmware
<1>3. LeftToFirmware(fw[i]) # {} => fw[i] \in Keys
  <2>1. fw[i] \in 0..MaxKey
    BY DEF TypeOK
  <2>2. LeftToFirmware(fw[i]) # {} => fw[i] # 0
    BY DEF LeftToFirmware, NoKey
  <2>3. QED
    BY <2>1, <2>2, Bounds DEF Keys
<1>4. late' \subseteq Keys
  BY <1>3 DEF Firmware, TypeOK
<1>5. LeftPinned'
  <2>1. ASSUME NEW q \in Queues, tx[q].pc \in {"iv", "inc", "submit"},
               tx[q].key # NoKey, ~tx[q].needs_encrypt
        PROVE  InFirmware(tx[q].key)' \/ tx[q].key \in late'
    <3>1. CASE tx[q].key \in late
      BY <1>2, <3>1
    <3>2. CASE tx[q].key = fw[i]
      BY <1>2, <2>1, <3>2 DEF LeftToFirmware
    <3>3. CASE tx[q].key # fw[i] /\ tx[q].key \notin late
      <4>1. PICK j \in Slots : fw[j] = tx[q].key
        BY <2>1, <3>3 DEF LeftPinned, InFirmware
      <4>2. fw'[j] = tx[q].key
        BY <1>1, <3>3, <4>1
      <4>3. QED
        BY <4>1, <4>2 DEF InFirmware
    <3>4. QED
      BY <3>1, <3>2, <3>3
  <2>2. QED
    BY <2>1 DEF LeftPinned, InFirmware
<1>6. QED
  BY <1>1, <1>2, <1>4, <1>5

\* A new key has a number that no frame uses, and its own counter.
LEMMA AddStep ==
  ASSUME IInv, NEW i \in Slots, r92su_add_key(i)
  PROVE  IInv'
<1> USE DEF IInv, NoKey
<1> DEFINE new == installed + 1
<1>1. PICK up \in BOOLEAN, first \in FirstSeq :
        /\ tx_seq' = [tx_seq EXCEPT ![installed'] = first]
        /\ IF up THEN Firmware(i, installed') ELSE UNCHANGED <<fw, late>>
        /\ op' = [call |-> "add", slot |-> i, up |-> up]
  <2>1. hwcrypt \in BOOLEAN
    BY DEF TypeOK
  <2>2. QED
    BY <2>1 DEF r92su_add_key
<1>2. /\ installed' = new /\ installed \in Nat /\ new \in Keys
      /\ op = NoOp
      /\ UNCHANGED <<cipher, enc_sta, hwcrypt, slot, def, uploaded, tx, air,
                     raced>>
  BY Bounds DEF r92su_add_key, TypeOK, Keys, mode
<1>3. cipher \in {"wep", "tkip", "ccmp"}
  BY TxPathAssumption DEF TypeOK
<1>4. first \in 0..(Wrap - 1) /\ (cipher # "wep" => first <= 1)
  BY <1>3, FirstSeqIs
<1>5. /\ tx_seq' \in [Keys -> 0..(Wrap - 1)] /\ tx_seq'[new] = first
      /\ \A k \in Keys : k # new => tx_seq'[k] = tx_seq[k]
  BY <1>1, <1>2, <1>4 DEF TypeOK
<1>6. /\ fw' \in [Slots -> 0..MaxKey] /\ (up => fw'[i] = new)
      /\ \A j \in Slots \ {i} : fw'[j] = fw[j]
      /\ late' \subseteq Keys /\ late \subseteq late'
      /\ LeftPinned'
  <2>1. CASE up
    <3>1. installed' \in 0..MaxKey
      BY <1>2, Bounds DEF Keys
    <3>2. Firmware(i, installed')
      BY <1>1, <2>1
    <3> HIDE DEF new
    <3>3. QED
      BY <1>2, <3>1, <3>2, FirmwareIs
  <2>2. CASE ~up
    <3>1. UNCHANGED <<fw, late>>
      BY <1>1, <2>2
    <3>2. LeftPinned'
      BY <1>2, <3>1 DEF LeftPinned, InFirmware
    <3>3. QED
      BY <2>2, <3>1, <3>2 DEF TypeOK
  <2>3. QED
    BY <2>1, <2>2
<1> HIDE DEF new
<1>7. new = installed + 1 /\ new \in 0..MaxKey /\ slot' \in [Slots -> 0..new]
  BY <1>2, Bounds DEF new, TypeOK, Keys
<1>8. TypeOK'
  <2>1. op' \in Op
    BY <1>1 DEF Op
  <2>2. QED
    BY <1>2, <1>5, <1>6, <1>7, <2>1 DEF TypeOK, Wrap
<1>9. /\ \A q \in Queues : tx[q].pc # "idle" => tx[q].key # new
      /\ \A j \in DOMAIN air : air[j].key # new
  BY <1>2, <1>7 DEF KeysKnown
<1>10. KeysKnown'
  <2>1. \A q \in Queues : tx[q].pc # "idle" => tx[q].key \in Int
    BY FrameOf, Bounds DEF Frame, Keys
  <2>2. \A j \in DOMAIN air : air[j].key \in Int
    BY AirOf, Bounds DEF Sent, Keys
  <2>3. QED
    BY <1>2, <1>7, <2>1, <2>2 DEF KeysKnown
<1>11. Covered' /\ NoPlaintext'
  BY <1>2, <1>6 DEF Covered, NoPlaintext
<1>17. Keyring'
  <2>1. \A k \in uploaded : k \in Int /\ k <= installed
    BY Bounds DEF Keyring, TypeOK, Keys
  <2>2. \A j \in Slots : slot[j] \in 0..installed
    BY DEF TypeOK
  <2>3. op'.call = "add" /\ op'.slot = i /\ op'.up = up /\ op' # NoOp
    BY <1>1 DEF NoOp
  <2>4. \A j \in Slots : slot[j] \in uploaded => fw[j] = slot[j]
    BY <1>2 DEF Keyring
  <2>5. /\ \A k \in uploaded : k <= new /\ k # new
        /\ \A j \in Slots : slot[j] # new
    BY <1>2, <1>7, <2>1, <2>2
  <2>6. /\ \A k \in uploaded' : k <= installed'
        /\ \A j \in Slots : slot'[j] \in uploaded' =>
             fw'[j] = slot'[j] \/ op'.slot = j
        /\ installed' \in Keys /\ installed' \notin uploaded'
        /\ \A j \in Slots : slot'[j] # installed'
        /\ up => fw'[i] = installed'
    BY <1>2, <1>6, <2>3, <2>4, <2>5
  <2>7. QED
    BY <2>3, <2>6 DEF Keyring
<1>12. AloneWithKey'
  <2>1. \A q \in Queues :
          tx[q].pc = "inc" => tx[q].key \in Keys /\ tx[q].key # new
    BY <1>9, FrameOf DEF KeysKnown, Frame
  <2>2. QED
    BY <1>2, <1>5, <2>1 DEF AloneWithKey
<1>13. VectorsMatch'
  BY <1>2 DEF VectorsMatch, VectorOf, Wrap, iv_bytes
<1>14. CountersFresh'
  <2>1. ASSUME cipher # "wep", NEW k \in Keys \ raced
        PROVE  FreshFor(k)'
    <3>1. Ready(k)' = Ready(k) /\ Gone(k)' = Gone(k)
      BY <1>2 DEF Ready, Gone
    <3>2. CASE k = new
      <4>1. Ready(k) = {} /\ Gone(k) = {}
        BY <1>9, <3>2 DEF Ready, Gone
      <4>2. QED
        BY <3>1, <4>1 DEF FreshFor
    <3>3. CASE k # new
      <4>1. tx_seq'[k] = tx_seq[k] /\ FreshFor(k)
        BY <1>5, <2>1, <3>3 DEF CountersFresh
      <4>2. QED
        BY <1>2, <3>1, <4>1 DEF FreshFor
    <3>4. QED
      BY <3>2, <3>3
  <2>2. QED
    BY <1>2, <2>1 DEF CountersFresh
<1>15. NoWrap'
  <2>1. Submitting' = Submitting /\ Busy' = Busy
    BY <1>2 DEF Submitting, Busy
  <2>2. Len(air) \in Nat
    BY DEF TypeOK
  <2>3. QED
    BY <1>2, <1>4, <1>5, <2>1, <2>2, CountSubsets DEF NoWrap
<1>16. QED
  BY <1>6, <1>8, <1>10, <1>11, <1>12, <1>13, <1>14, <1>15, <1>17

\* The other steps of the cfg80211 calls change nothing for the frames.
LEMMA QuietStep ==
  ASSUME IInv, UNCHANGED <<mode, installed, tx_seq, tx, air, raced>>,
         slot' \in [Slots -> 0..installed],
         def' \in [{"uni", "multi"} -> GroupIdx], uploaded' \subseteq Keys,
         fw' \in [Slots -> 0..MaxKey], op' \in Op \cup {NoOp},
         late' \subseteq Keys, late \subseteq late', Keyring', LeftPinned'
  PROVE  IInv'
<1> USE DEF IInv, NoKey, mode
<1>1. TypeOK'
  BY DEF TypeOK, Wrap
<1>2. KeysKnown' /\ Covered' /\ NoPlaintext' /\ AloneWithKey'
  BY DEF KeysKnown, Covered, NoPlaintext, AloneWithKey
<1>3. VectorsMatch'
  BY DEF VectorsMatch, VectorOf, Wrap, iv_bytes
<1>4. CountersFresh' /\ NoWrap'
  BY DEF CountersFresh, FreshFor, Ready, Gone, NoWrap, Submitting, Busy
<1>5. QED
  BY <1>1, <1>2, <1>3, <1>4

\* The new key is published: it is the one that was uploaded, if it was.
LEMMA PublishStep ==
  ASSUME IInv, add_key_publish
  PROVE  IInv'
<1> USE DEF IInv, NoKey
<1>1. op \in Op /\ op.call = "add" /\ op.slot \in Slots /\ op.up \in BOOLEAN
  BY DEF add_key_publish, TypeOK, Op, NoOp
<1>2. /\ installed \in Keys /\ installed \notin uploaded
      /\ op.up => fw[op.slot] = installed
  BY <1>1 DEF Keyring
<1>3. /\ UNCHANGED <<mode, installed, def, fw, tx_seq, tx, air, raced, late>>
      /\ slot' = [slot EXCEPT ![op.slot] = installed] /\ op' = NoOp
      /\ uploaded' = (uploaded \ {slot[op.slot]})
                        \cup (IF op.up THEN {installed} ELSE {})
  BY DEF add_key_publish
<1>4. slot' \in [Slots -> 0..installed]
  BY <1>1, <1>2, <1>3, Bounds DEF TypeOK, Keys
<1>5. uploaded' \subseteq Keys
  BY <1>2, <1>3 DEF TypeOK
<1>6. Keyring'
  <2>1. \A k \in uploaded' : k <= installed
    BY <1>2, <1>3, Bounds DEF Keyring, Keys
  <2>2. ASSUME NEW j \in Slots, slot'[j] \in uploaded'
        PROVE  fw[j] = slot'[j]
    <3>1. CASE j = op.slot
      <4>1. slot'[j] = installed
        BY <1>1, <1>3, <3>1 DEF TypeOK
      <4>2. op.up
        BY <1>2, <1>3, <2>2, <4>1
      <4>3. QED
        BY <1>2, <3>1, <4>1, <4>2
    <3>2. CASE j # op.slot
      <4>1. slot'[j] = slot[j] /\ slot[j] # installed
        BY <1>1, <1>3, <3>2 DEF TypeOK, Keyring
      <4>2. slot[j] \in uploaded
        BY <1>3, <2>2, <4>1
      <4>3. QED
        BY <3>2, <4>1, <4>2 DEF Keyring
    <3>3. QED
      BY <3>1, <3>2
  <2>3. op'.call # "add"
    BY <1>3 DEF NoOp
  <2>4. \A j \in Slots : slot'[j] \in uploaded' => fw'[j] = slot'[j]
    BY <1>3, <2>2
  <2>5. \A k \in uploaded' : k <= installed'
    BY <1>3, <2>1
  <2>6. QED
    BY <2>3, <2>4, <2>5 DEF Keyring
<1>7. LeftPinned'
  BY <1>3 DEF LeftPinned, InFirmware
<1>8. /\ def' \in [{"uni", "multi"} -> GroupIdx] /\ fw' \in [Slots -> 0..MaxKey]
      /\ op' \in Op \cup {NoOp} /\ late' \subseteq Keys /\ late \subseteq late'
  BY <1>3 DEF TypeOK
<1>9. QED
  BY <1>3, <1>4, <1>5, <1>6, <1>7, <1>8, QuietStep

\* A key is taken from the firmware: frames on their way may lose it.
LEMMA DelStep ==
  ASSUME IInv, NEW i \in Slots, r92su_del_key(i)
  PROVE  IInv'
<1> USE DEF IInv, NoKey
<1>1. /\ UNCHANGED <<mode, installed, slot, def, uploaded, tx_seq, tx, air,
                     raced>>
      /\ op = NoOp /\ op' = [call |-> "del", slot |-> i, up |-> FALSE]
      /\ Firmware(i, 0)
  BY DEF r92su_del_key
<1>2. 0 \in 0..MaxKey
  BY Bounds
<1>3. /\ fw' \in [Slots -> 0..MaxKey]
      /\ \A j \in Slots \ {i} : fw'[j] = fw[j]
      /\ late' \subseteq Keys /\ late \subseteq late' /\ LeftPinned'
  BY <1>1, <1>2, FirmwareIs
<1>4. op' \in Op /\ op'.slot = i /\ op'.call = "del" /\ op' # NoOp
  BY <1>1 DEF Op, NoOp
<1>5. Keyring'
  <2>1. \A k \in uploaded' : k <= installed'
    BY <1>1 DEF Keyring
  <2>2. \A j \in Slots : slot[j] \in uploaded => fw[j] = slot[j]
    BY <1>1 DEF Keyring
  <2>3. \A j \in Slots : slot'[j] \in uploaded' =>
          fw'[j] = slot'[j] \/ op'.slot = j
    BY <1>1, <1>3, <1>4, <2>2
  <2>4. QED
    BY <1>4, <2>1, <2>3 DEF Keyring
<1>6. /\ slot' \in [Slots -> 0..installed] /\ uploaded' \subseteq Keys
      /\ def' \in [{"uni", "multi"} -> GroupIdx]
  BY <1>1 DEF TypeOK
<1>7. QED
  BY <1>1, <1>3, <1>4, <1>5, <1>6, QuietStep

\* ... and leaves its slot.
LEMMA UnpublishStep ==
  ASSUME IInv, del_key_unpublish
  PROVE  IInv'
<1> USE DEF IInv, NoKey
<1>1. op \in Op /\ op.slot \in Slots
  BY DEF del_key_unpublish, TypeOK, Op, NoOp
<1>2. /\ UNCHANGED <<mode, installed, def, fw, tx_seq, tx, air, raced, late>>
      /\ slot' = [slot EXCEPT ![op.slot] = 0] /\ op' = NoOp
      /\ uploaded' = uploaded \ {slot[op.slot]}
  BY DEF del_key_unpublish
<1>3. slot' \in [Slots -> 0..installed] /\ uploaded' \subseteq Keys
  <2>1. 0 \in 0..installed
    BY Bounds DEF TypeOK
  <2>2. QED
    BY <1>1, <1>2, <2>1 DEF TypeOK
<1>4. Keyring'
  <2>1. ASSUME NEW j \in Slots, slot'[j] \in uploaded'
        PROVE  fw[j] = slot'[j]
    <3>1. j # op.slot
      <4>1. 0 \notin uploaded
        BY Bounds DEF TypeOK, Keys
      <4>2. j = op.slot => slot'[j] = 0
        BY <1>1, <1>2 DEF TypeOK
      <4>3. QED
        BY <1>2, <2>1, <4>1, <4>2
    <3>2. slot'[j] = slot[j] /\ slot[j] \in uploaded
      BY <1>2, <2>1, <3>1 DEF TypeOK
    <3>3. QED
      BY <3>1, <3>2 DEF Keyring
  <2>2. op'.call # "add"
    BY <1>2 DEF NoOp
  <2>3. \A j \in Slots : slot'[j] \in uploaded' => fw'[j] = slot'[j]
    BY <1>2, <2>1
  <2>4. \A k \in uploaded' : k <= installed'
    BY <1>2 DEF Keyring
  <2>5. QED
    BY <2>2, <2>3, <2>4 DEF Keyring
<1>5. LeftPinned'
  BY <1>2 DEF LeftPinned, InFirmware
<1>6. /\ def' \in [{"uni", "multi"} -> GroupIdx] /\ fw' \in [Slots -> 0..MaxKey]
      /\ op' \in Op \cup {NoOp} /\ late' \subseteq Keys /\ late \subseteq late'
  BY <1>2 DEF TypeOK
<1>7. QED
  BY <1>2, <1>3, <1>4, <1>5, <1>6, QuietStep

\* Another group key becomes a default one.
LEMMA DefaultStep ==
  ASSUME IInv, NEW i \in GroupIdx, r92su_set_default_key(i)
  PROVE  IInv'
<1> USE DEF IInv
<1>1. UNCHANGED <<mode, installed, slot, uploaded, fw, op, tx_seq, tx, air,
                  raced, late>>
  BY DEF r92su_set_default_key
<1>2. def' \in [{"uni", "multi"} -> GroupIdx]
  BY DEF r92su_set_default_key, TypeOK
<1>3. Keyring' /\ LeftPinned'
  BY <1>1 DEF Keyring, LeftPinned, InFirmware
<1>4. /\ slot' \in [Slots -> 0..installed] /\ uploaded' \subseteq Keys
      /\ fw' \in [Slots -> 0..MaxKey] /\ op' \in Op \cup {NoOp}
      /\ late' \subseteq Keys /\ late \subseteq late'
  BY <1>1 DEF TypeOK
<1>5. QED
  BY <1>1, <1>2, <1>3, <1>4, QuietStep

(***************************************************************************)
(* A frame on its way through r92su_tx                                     *)
(***************************************************************************)

\* The steps before the vector is written: q exchanges its frame for g, and
\* nothing else changes.
LEMMA EarlyStep ==
  ASSUME IInv, NEW q \in Queues, NEW g \in Frame \cup {NoFrame}, Goes(q, g),
         UNCHANGED <<mode, keyring, tx_seq, air, raced>>,
         late' \subseteq Keys, late \subseteq late',
         tx[q].pc \in {"idle", "key"},
         g.pc \in {"idle", "key", "iv", "submit"},
         g.pc \in {"key", "submit"} => g.key = NoKey,
         g.pc = "iv" => g.key \in 1..installed,
         g.pc = "iv" /\ ~g.needs_encrypt =>
           InFirmware(g.key) \/ g.key \in late',
         enc_sta /\ g.pc \in {"iv", "submit"} /\ g.proto = "data" =>
           g.key # NoKey,
         tx[q].pc = "idle" => Len(air) + Cardinality(Busy) < MaxFrames
  PROVE  IInv'
<1> USE DEF IInv, NoKey, mode, keyring
<1>1. /\ tx'[q] = g /\ \A r \in Queues \ {q} : tx'[r] = tx[r]
      /\ tx' \in [Queues -> Frame \cup {NoFrame}]
  BY GoesIs
<1>2. TypeOK'
  BY <1>1 DEF TypeOK, Wrap
<1>3. KeysKnown'
  <2>1. g.pc # "idle" => g.key <= installed
    BY Bounds DEF TypeOK
  <2>2. QED
    BY <1>1, <2>1 DEF KeysKnown
<1>4. Covered' /\ NoPlaintext'
  BY <1>1 DEF Covered, NoPlaintext
<1>10. Keyring'
  BY DEF Keyring
<1>11. LeftPinned'
  BY <1>1 DEF LeftPinned, InFirmware
<1>5. AloneWithKey'
  BY <1>1 DEF AloneWithKey
<1>6. VectorsMatch'
  <2>1. /\ \A p \in Queues :
             tx'[p].pc = "inc" => VectorOf(tx'[p].iv, tx'[p].seq)
        /\ \A p \in Queues :
             tx'[p].pc = "submit" /\ tx'[p].key \notin raced \cup {NoKey} =>
               VectorOf(tx'[p].iv, tx'[p].pn)
    BY <1>1 DEF VectorsMatch
  <2>2. QED
    BY <2>1 DEF VectorsMatch, VectorOf, Wrap, iv_bytes
<1>7. CountersFresh'
  <2>1. ASSUME NEW k \in Keys
        PROVE  Ready(k)' = Ready(k) /\ Gone(k)' = Gone(k) /\ q \notin Ready(k)
    BY <1>1, <2>1 DEF Ready, Gone, Keys
  <2>2. ASSUME cipher # "wep", NEW k \in Keys \ raced
        PROVE  FreshFor(k)'
    <3>1. FreshFor(k) /\ \A r \in Ready(k) : tx'[r] = tx[r]
      BY <1>1, <2>1, <2>2 DEF CountersFresh, Ready
    <3>2. QED
      BY <2>1, <3>1 DEF FreshFor
  <2>3. QED
    BY <2>2 DEF CountersFresh
<1>8. NoWrap'
  <2>1. Len(air) \in Nat
    BY DEF TypeOK
  <2>2. Cardinality(Submitting) <= Cardinality(Submitting')
    <3>1. Submitting' = Submitting \/ Submitting' = Submitting \cup {q}
      BY <1>1 DEF Submitting
    <3>2. q \notin Submitting
      BY DEF Submitting
    <3>3. QED
      BY <3>1, <3>2, CountQueues, CountSubsets
  <2>3. Len(air) + Cardinality(Busy') <= MaxFrames
    <3>1. CASE tx[q].pc = "idle"
      <4>1. q \notin Busy
        BY <3>1, FrameOf DEF Busy
      <4>2. Busy' = Busy \/ Busy' = Busy \cup {q}
        BY <1>1, <4>1 DEF Busy
      <4>3. QED
        BY <2>1, <3>1, <4>1, <4>2, CountQueues, CountSubsets, Bounds
    <3>2. CASE tx[q].pc # "idle"
      <4>1. Busy' = Busy \/ Busy' = Busy \ {q}
        BY <1>1, <3>2 DEF Busy, NoFrame
      <4>2. q \in Busy
        BY <3>2, FrameOf DEF Busy
      <4>3. QED
        BY <2>1, <4>1, <4>2, CountQueues, CountSubsets, Bounds DEF NoWrap
    <3>3. QED
      BY <3>1, <3>2
  <2>4. Cardinality(Submitting) \in Nat /\ Cardinality(Submitting') \in Nat
    <3>1. Submitting' \in SUBSET Queues
      BY DEF Submitting
    <3>2. QED
      BY <3>1, CountSubsets, CountQueues
  <2>5. \A k \in Keys : tx_seq[k] \in Int
    BY Bounds DEF TypeOK, Wrap
  <2>6. QED
    BY <2>1, <2>2, <2>3, <2>4, <2>5 DEF NoWrap
<1>9. QED
  BY <1>2, <1>3, <1>4, <1>5, <1>6, <1>7, <1>8, <1>10, <1>11

\* A frame enters r92su_tx.
LEMMA EnterStep ==
  ASSUME IInv, NEW q \in Queues, NEW dest \in {"unicast", "multicast"},
         NEW proto \in {"data", "control_port"}, r92su_tx(q, dest, proto)
  PROVE  IInv'
<1> DEFINE g == [pc |-> "key", dest |-> dest, proto |-> proto, key |-> NoKey,
                 needs_encrypt |-> FALSE, iv |-> << >>, seq |-> 0, pn |-> 0]
<1>1. g \in Frame /\ g.pc = "key" /\ g.key = NoKey
  BY DEF Frame
<1>2. /\ Goes(q, g) /\ tx[q].pc = "idle"
      /\ UNCHANGED <<mode, keyring, tx_seq, air, raced, late>>
      /\ late' \subseteq Keys
      /\ Len(air) + Cardinality(Busy) < MaxFrames
  BY DEF r92su_tx, NoFrame, Busy, IInv, TypeOK
<1> HIDE DEF g
<1>3. QED
  BY <1>1, <1>2, EarlyStep

\* r92su_tx_select_key gives it a key, lets it go without, or drops it.
LEMMA SelectStep ==
  ASSUME IInv, NEW q \in Queues, r92su_tx_select_key(q)
  PROVE  IInv'
<1> DEFINE key == KeyFor(tx[q].dest)
           open == [tx[q] EXCEPT !.pc = "submit"]
           keyed == [tx[q] EXCEPT !.pc = "iv", !.key = key,
                                  !.needs_encrypt = key \notin uploaded]
<1>1. /\ tx[q].pc = "key" /\ tx[q] \in Frame
      /\ UNCHANGED <<mode, keyring, tx_seq, air, raced>>
      /\ tx[q].key = NoKey
  BY FrameOf DEF r92su_tx_select_key, IInv, KeysKnown
<1>2. /\ key \in 0..installed /\ installed \in 0..MaxKey
      /\ \E i \in Slots : key = slot[i]
  <2>1. /\ "sta" \in Slots /\ def["multi"] \in Slots /\ def["uni"] \in Slots
    BY DEF IInv, TypeOK, Slots
  <2>2. key \in {slot["sta"], slot[def["multi"]], slot[def["uni"]]}
    BY DEF KeyFor
  <2>3. \A i \in Slots : slot[i] \in 0..installed
    BY DEF IInv, TypeOK
  <2> HIDE DEF key
  <2>4. QED
    BY <2>1, <2>2, <2>3 DEF IInv, TypeOK
<1>3. /\ open \in Frame /\ open.pc = "submit" /\ open.key = NoKey
      /\ open.proto = tx[q].proto
  BY <1>1 DEF Frame
<1>4. key # NoKey => /\ keyed \in Frame /\ keyed.pc = "iv"
                     /\ keyed.key = key /\ key \in 1..installed
                     /\ keyed.needs_encrypt = (key \notin uploaded)
  <2>1. ASSUME key # NoKey
        PROVE  key \in 1..installed /\ key \in Keys
    BY <1>2, <2>1, Bounds DEF Keys, NoKey
  <2> HIDE DEF key
  <2>2. QED
    BY <1>1, <2>1 DEF Frame
<1>5. \/ WithKey(q, key) /\ key # NoKey
      \/ /\ Goes(q, open) /\ UNCHANGED late
         /\ ~enc_sta \/ tx[q].proto = "control_port"
      \/ Goes(q, NoFrame) /\ UNCHANGED late
  BY DEF r92su_tx_select_key
<1>6. /\ NoFrame.pc = "idle" /\ NoFrame \in Frame \cup {NoFrame}
      /\ late \subseteq Keys
  BY DEF NoFrame, IInv, TypeOK
<1> HIDE DEF open
<1>7. CASE /\ Goes(q, open) /\ UNCHANGED late
           /\ ~enc_sta \/ tx[q].proto = "control_port"
  BY <1>1, <1>3, <1>6, <1>7, EarlyStep
<1>8. CASE WithKey(q, key) /\ key # NoKey
  <2>1. /\ Goes(q, keyed) /\ key \in Keys
        /\ late' = IF /\ op # NoOp /\ slot[op.slot] = key
                      /\ key \in uploaded /\ ~InFirmware(key)
                   THEN late \cup {key} ELSE late
    BY <1>2, <1>4, <1>8, Bounds DEF WithKey, Keys
  <2> HIDE DEF key, keyed
  <2>2. late' \subseteq Keys /\ late \subseteq late'
    BY <1>6, <2>1
  <2>3. key \in uploaded => InFirmware(key) \/ key \in late'
    BY <1>2, <2>1 DEF IInv, Keyring, InFirmware
  <2>4. ~keyed.needs_encrypt => InFirmware(keyed.key) \/ keyed.key \in late'
    BY <1>4, <1>8, <2>3
  <2>5. keyed.key # NoKey /\ keyed \in Frame /\ keyed.pc = "iv"
        /\ keyed.key \in 1..installed
    BY <1>4, <1>8
  <2>6. QED
    BY <1>1, <2>1, <2>2, <2>4, <2>5, EarlyStep
<1>9. CASE Goes(q, NoFrame) /\ UNCHANGED late
  BY <1>1, <1>6, <1>9, EarlyStep
<1>10. QED
  BY <1>5, <1>7, <1>8, <1>9

\* A counter stays one, with the weak vectors filtered out and incremented.
LEMMA CounterTypes ==
  ASSUME TypeOK, NEW n \in Nat
  PROVE  /\ Wrap \in Nat \ {0} /\ n % Wrap \in 0..(Wrap - 1)
         /\ n + 1 < Wrap => n % Wrap = n /\ (n + 1) % Wrap = n + 1
         /\ n < Wrap => filter_weak_iv(n) \in 0..(Wrap - 1)
         /\ cipher # "wep" => filter_weak_iv(n) = n
<1>1. Wrap \in Nat \ {0}
  BY Bounds DEF Wrap
<1> HIDE DEF Wrap
<1>2. \A m \in Nat : m % Wrap \in 0..(Wrap - 1)
  BY <1>1
<1>3. n + Byte \in Nat
  BY Bounds
<1>4. n < Wrap => filter_weak_iv(n) \in 0..(Wrap - 1)
  BY <1>1, <1>2, <1>3 DEF filter_weak_iv
<1>5. cipher # "wep" => filter_weak_iv(n) = n
  BY DEF filter_weak_iv
<1>6. n + 1 < Wrap => n % Wrap = n /\ (n + 1) % Wrap = n + 1
  BY <1>1
<1>7. QED
  BY <1>1, <1>2, <1>4, <1>5, <1>6

\* r92su_tx_add_iv writes the vector; a queue that finds another one between
\* its two halves with the same key marks the key.
LEMMA WriteStep ==
  ASSUME IInv, NEW q \in Queues, TxWriteIv(q)
  PROVE  IInv'
<1> USE DEF IInv, NoKey, mode, keyring
<1> DEFINE k == tx[q].key
           n == filter_weak_iv(tx_seq[k])
           g == [tx[q] EXCEPT !.pc = "inc", !.seq = n, !.iv = iv_bytes(n)]
<1>1. /\ tx[q].pc = "iv" /\ tx[q] \in Frame /\ k \in Keys
      /\ UNCHANGED <<mode, keyring, air, late>>
  BY FrameOf DEF TxWriteIv, KeysKnown, Frame
<1>2. /\ tx_seq' = [tx_seq EXCEPT ![k] = n] /\ Goes(q, g)
      /\ raced' \in {raced, raced \cup {k}}
      /\ (\E r \in Queues : tx[r].pc = "inc" /\ tx[r].key = k) => k \in raced'
  BY DEF TxWriteIv
<1>3. /\ cipher \in {"wep", "tkip", "ccmp"}
      /\ tx_seq[k] \in Nat /\ tx_seq[k] < Wrap
  <2>1. Wrap \in Nat
    BY Bounds DEF Wrap
  <2>2. cipher \in {"wep", "tkip", "ccmp"} /\ tx_seq[k] \in 0..(Wrap - 1)
    BY <1>1, TxPathAssumption DEF TypeOK
  <2> HIDE DEF k
  <2>3. QED
    BY <2>1, <2>2
<1>4. n \in 0..(Wrap - 1) /\ n \in Nat /\ (cipher # "wep" => n = tx_seq[k])
  BY <1>3, CounterTypes
<1>5. iv_bytes(n) \in Seq(Digit)
  BY <1>3, <1>4, IvType
<1> HIDE DEF k, n
<1>6. /\ g \in Frame /\ g.pc = "inc" /\ g.seq = n /\ g.iv = iv_bytes(n)
      /\ g.key = k /\ g.proto = tx[q].proto
      /\ g.needs_encrypt = tx[q].needs_encrypt
  BY <1>1, <1>4, <1>5 DEF Frame, k
<1> HIDE DEF g
<1>7. /\ tx'[q] = g /\ \A r \in Queues \ {q} : tx'[r] = tx[r]
      /\ tx' \in [Queues -> Frame \cup {NoFrame}]
  BY <1>2, <1>6, GoesIs
<1>8. /\ tx_seq' \in [Keys -> 0..(Wrap - 1)] /\ tx_seq'[k] = n
      /\ \A j \in Keys : j # k => tx_seq'[j] = tx_seq[j]
      /\ cipher # "wep" => \A j \in Keys : tx_seq'[j] = tx_seq[j]
  BY <1>1, <1>2, <1>4 DEF TypeOK
<1>9. raced \subseteq raced' /\ raced' \subseteq Keys
  BY <1>1, <1>2 DEF TypeOK
<1>10. TypeOK'
  BY <1>1, <1>7, <1>8, <1>9 DEF TypeOK, Wrap
<1>11. KeysKnown'
  BY <1>1, <1>6, <1>7 DEF KeysKnown, k
<1>12. Covered' /\ NoPlaintext'
  BY <1>1, <1>6, <1>7 DEF Covered, NoPlaintext, k
<1>18. Keyring' /\ LeftPinned'
  <2>1. Keyring'
    BY <1>1 DEF Keyring
  <2>2. LeftPinned'
    BY <1>1, <1>6, <1>7 DEF LeftPinned, InFirmware, k
  <2>3. QED
    BY <2>1, <2>2
<1>13. AloneWithKey'
  <2>1. ASSUME NEW p \in Queues, tx'[p].pc = "inc", tx'[p].key \notin raced'
        PROVE  /\ tx_seq'[tx'[p].key] = tx'[p].seq
               /\ \A r \in Queues \ {p} :
                    ~(tx'[r].pc = "inc" /\ tx'[r].key = tx'[p].key)
    <3>1. CASE p = q
      <4>1. tx'[p] = g /\ k \notin raced'
        BY <1>6, <1>7, <2>1, <3>1
      <4>2. \A r \in Queues : ~(tx[r].pc = "inc" /\ tx[r].key = k)
        BY <1>2, <4>1
      <4>3. QED
        BY <1>6, <1>7, <1>8, <3>1, <4>1, <4>2
    <3>2. CASE p # q
      <4>1. tx'[p] = tx[p]
        BY <1>7, <3>2
      <4>2. tx[p].key # k /\ tx[p].key \in Keys
        <5>1. tx[p].key # k
          BY <1>2, <2>1, <4>1
        <5>2. tx[p] \in Frame /\ tx[p].key # NoKey
          BY <2>1, <4>1, FrameOf DEF KeysKnown
        <5>3. QED
          BY <5>1, <5>2 DEF Frame
      <4>3. tx[p].key \notin raced
        BY <1>9, <2>1, <4>1
      <4>4. /\ tx_seq[tx[p].key] = tx[p].seq
            /\ \A r \in Queues \ {p} :
                 ~(tx[r].pc = "inc" /\ tx[r].key = tx[p].key)
        BY <2>1, <4>1, <4>3 DEF AloneWithKey
      <4>5. QED
        BY <1>6, <1>7, <1>8, <4>1, <4>2, <4>4
    <3>3. QED
      BY <3>1, <3>2
  <2>2. QED
    BY <2>1 DEF AloneWithKey
<1>14. VectorsMatch'
  <2>1. VectorOf(g.iv, g.seq)
    BY <1>4, <1>6 DEF VectorOf
  <2>2. /\ \A p \in Queues :
             tx'[p].pc = "inc" => VectorOf(tx'[p].iv, tx'[p].seq)
        /\ \A p \in Queues :
             tx'[p].pc = "submit" /\ tx'[p].key \notin raced' \cup {NoKey} =>
               VectorOf(tx'[p].iv, tx'[p].pn)
        /\ \A i \in DOMAIN air :
             air[i].key \notin raced' \cup {NoKey} =>
               VectorOf(air[i].iv, air[i].pn)
    BY <1>6, <1>7, <1>9, <2>1 DEF VectorsMatch
  <2>3. QED
    BY <1>1, <2>2 DEF VectorsMatch, VectorOf, Wrap, iv_bytes
<1>15. CountersFresh'
  <2>1. ASSUME cipher # "wep", NEW j \in Keys \ raced'
        PROVE  FreshFor(j)'
    <3>1. Ready(j)' = Ready(j) /\ Gone(j)' = Gone(j) /\ q \notin Ready(j)
      BY <1>1, <1>6, <1>7 DEF Ready, Gone
    <3>2. /\ FreshFor(j) /\ tx_seq'[j] = tx_seq[j]
          /\ \A r \in Ready(j) : tx'[r] = tx[r]
      BY <1>7, <1>8, <1>9, <2>1, <3>1 DEF CountersFresh, Ready
    <3>3. QED
      BY <1>1, <3>1, <3>2 DEF FreshFor
  <2>2. QED
    BY <1>1, <2>1 DEF CountersFresh
<1>16. NoWrap'
  <2>1. Submitting' = Submitting
    BY <1>1, <1>6, <1>7 DEF Submitting
  <2>2. Busy' = Busy
    BY <1>1, <1>6, <1>7 DEF Busy, NoFrame
  <2>3. QED
    BY <1>1, <1>8, <1>9, <2>1, <2>2 DEF NoWrap
<1>17. QED
  BY <1>10, <1>11, <1>12, <1>13, <1>14, <1>15, <1>16, <1>18

\* The counter is stored incremented.  Of a key that is not marked it is the
\* one the vector was written from, it exceeds all that were used before, and
\* it does not wrap.
LEMMA StoreStep ==
  ASSUME IInv, NEW q \in Queues, TxIncSeq(q)
  PROVE  IInv'
<1> USE DEF IInv, NoKey, mode, keyring
<1> DEFINE k == tx[q].key
           fly == Len(air) + Cardinality(Submitting)
<1>1. /\ tx[q].pc = "inc" /\ tx[q] \in Frame /\ k \in Keys
      /\ UNCHANGED <<mode, keyring, air, raced, late>>
  BY FrameOf DEF TxIncSeq, KeysKnown, Frame
<1>2. PICK n \in {tx[q].seq, tx_seq[k]} :
        /\ tx_seq' = [tx_seq EXCEPT ![k] = (n + 1) % Wrap]
        /\ Goes(q, [tx[q] EXCEPT !.pc = "submit", !.pn = n])
  BY DEF TxIncSeq
<1> DEFINE g == [tx[q] EXCEPT !.pc = "submit", !.pn = n]
<1>3. Wrap \in Nat \ {0}
  BY Bounds DEF Wrap
<1>4. n \in Nat /\ (k \notin raced => n = tx[q].seq /\ n = tx_seq[k])
  <2>1. tx[q].seq \in Nat
    BY <1>1 DEF Frame
  <2>2. tx_seq[k] \in Nat
    BY <1>1, <1>3 DEF TypeOK
  <2>3. k \notin raced => tx_seq[k] = tx[q].seq
    BY <1>1 DEF AloneWithKey
  <2>4. QED
    BY <1>2, <2>1, <2>2, <2>3
<1>5. (n + 1) % Wrap \in 0..(Wrap - 1)
  BY <1>4, CounterTypes
<1> HIDE DEF k
<1>6. /\ g \in Frame /\ g.pc = "submit" /\ g.pn = n /\ g.iv = tx[q].iv
      /\ g.key = k /\ g.proto = tx[q].proto
      /\ g.needs_encrypt = tx[q].needs_encrypt
  BY <1>1, <1>4 DEF Frame, k
<1>7. /\ tx'[q] = g /\ \A r \in Queues \ {q} : tx'[r] = tx[r]
      /\ tx' \in [Queues -> Frame \cup {NoFrame}]
  BY <1>2, <1>6, GoesIs
<1> HIDE DEF g
<1>8. /\ tx_seq' \in [Keys -> 0..(Wrap - 1)] /\ tx_seq'[k] = (n + 1) % Wrap
      /\ \A j \in Keys : j # k => tx_seq'[j] = tx_seq[j]
  BY <1>1, <1>2, <1>5 DEF TypeOK
<1>9. TypeOK'
  BY <1>1, <1>7, <1>8 DEF TypeOK, Wrap
<1>10. KeysKnown'
  BY <1>1, <1>6, <1>7 DEF KeysKnown, k
<1>11. Covered' /\ NoPlaintext'
  BY <1>1, <1>6, <1>7 DEF Covered, NoPlaintext, k
<1>22. Keyring' /\ LeftPinned'
  <2>1. Keyring'
    BY <1>1 DEF Keyring
  <2>2. LeftPinned'
    BY <1>1, <1>6, <1>7 DEF LeftPinned, InFirmware, k
  <2>3. QED
    BY <2>1, <2>2
<1>12. AloneWithKey'
  <2>1. ASSUME NEW p \in Queues, tx'[p].pc = "inc", tx'[p].key \notin raced
        PROVE  /\ tx_seq'[tx'[p].key] = tx'[p].seq
               /\ \A r \in Queues \ {p} :
                    ~(tx'[r].pc = "inc" /\ tx'[r].key = tx'[p].key)
    <3>1. p # q /\ tx'[p] = tx[p]
      BY <1>6, <1>7, <2>1
    <3>2. /\ tx_seq[tx[p].key] = tx[p].seq
          /\ \A r \in Queues \ {p} :
               ~(tx[r].pc = "inc" /\ tx[r].key = tx[p].key)
      BY <2>1, <3>1 DEF AloneWithKey
    <3>3. tx[p].key # k /\ tx[p].key \in Keys
      <4>1. tx[p].key # k
        BY <1>1, <3>1, <3>2 DEF k
      <4>2. tx[p] \in Frame /\ tx[p].key # NoKey
        BY <2>1, <3>1, FrameOf DEF KeysKnown
      <4>3. QED
        BY <4>1, <4>2 DEF Frame
    <3>4. QED
      BY <1>6, <1>7, <1>8, <3>1, <3>2, <3>3
  <2>2. QED
    BY <1>1, <2>1 DEF AloneWithKey
<1>13. VectorsMatch'
  <2>1. k \notin raced => VectorOf(g.iv, g.pn)
    BY <1>1, <1>4, <1>6 DEF VectorsMatch
  <2>2. /\ \A p \in Queues :
             tx'[p].pc = "inc" => VectorOf(tx'[p].iv, tx'[p].seq)
        /\ \A p \in Queues :
             tx'[p].pc = "submit" /\ tx'[p].key \notin raced \cup {NoKey} =>
               VectorOf(tx'[p].iv, tx'[p].pn)
        /\ \A i \in DOMAIN air :
             air[i].key \notin raced \cup {NoKey} =>
               VectorOf(air[i].iv, air[i].pn)
    BY <1>6, <1>7, <2>1 DEF VectorsMatch
  <2>3. QED
    BY <1>1, <2>2 DEF VectorsMatch, VectorOf, Wrap, iv_bytes
<1>14. /\ Submitting' = Submitting \cup {q} /\ q \notin Submitting
       /\ Busy' = Busy /\ q \in Busy /\ Submitting \subseteq Busy \ {q}
  BY <1>1, <1>6, <1>7, FrameOf DEF Submitting, Busy, NoFrame
<1>15. Len(air) \in Nat /\ fly \in Nat
  BY CountSubsets DEF TypeOK
<1>16. Cardinality(Submitting') = Cardinality(Submitting) + 1
  BY <1>14, CountSubsets, CountQueues
<1>17. fly + 1 <= MaxFrames
  <2>1. Cardinality(Submitting) <= Cardinality(Busy \ {q})
    <3>1. IsFiniteSet(Busy \ {q})
      BY CountQueues, CountSubsets
    <3>2. QED
      BY <1>14, <3>1, FS_Subset
  <2>2. Cardinality(Busy \ {q}) = Cardinality(Busy) - 1
    BY <1>14, CountQueues, CountSubsets
  <2>3. QED
    BY <1>15, <2>1, <2>2, CountSubsets, Bounds DEF NoWrap
<1>18. ASSUME cipher # "wep", k \notin raced
       PROVE  n = tx_seq[k] /\ tx_seq'[k] = n + 1 /\ n <= fly + 1
  <2>1. n = tx_seq[k] /\ n <= fly + 1
    BY <1>1, <1>4, <1>18 DEF NoWrap
  <2>2. n + 1 < Wrap
    BY <1>4, <1>15, <1>17, <1>18, <2>1, Bounds DEF Wrap
  <2>3. QED
    BY <1>4, <1>8, <2>1, <2>2, CounterTypes
<1>19. CountersFresh'
  <2>1. ASSUME cipher # "wep", NEW j \in Keys \ raced
        PROVE  FreshFor(j)'
    <3>1. FreshFor(j) /\ Gone(j)' = Gone(j) /\ q \notin Ready(j)
      BY <1>1, <2>1 DEF CountersFresh, Gone, Ready
    <3>2. \A r \in Ready(j) : tx'[r] = tx[r] /\ r # q
      BY <1>7, <3>1 DEF Ready
    <3>3. CASE j # k
      <4>1. Ready(j)' = Ready(j) /\ tx_seq'[j] = tx_seq[j]
        BY <1>1, <1>6, <1>7, <1>8, <3>1, <3>3 DEF Ready
      <4>2. QED
        BY <1>1, <3>1, <3>2, <4>1 DEF FreshFor
    <3>4. CASE j = k
      <4>1. Ready(j)' = Ready(j) \cup {q}
        BY <1>1, <1>6, <1>7, <3>4 DEF Ready
      <4>2. n = tx_seq[j] /\ tx_seq'[j] = n + 1 /\ tx'[q].pn = n
        BY <1>6, <1>7, <1>18, <2>1, <3>4
      <4>3. /\ \A i \in Gone(j) : air[i].pn < n /\ air[i].pn \in Nat
            /\ \A r \in Ready(j) : tx[r].pn < n /\ tx[r].pn \in Nat
        <5>1. /\ \A i \in Gone(j) : air[i].pn < n
              /\ \A r \in Ready(j) : tx[r].pn < n
          BY <3>1, <3>4, <4>2 DEF FreshFor
        <5>2. \A i \in Gone(j) : air[i].pn \in Nat
          BY AirOf DEF Gone, Sent
        <5>3. \A r \in Ready(j) : tx[r].pn \in Nat
          BY FrameOf DEF Ready, Frame
        <5>4. QED
          BY <5>1, <5>2, <5>3
      <4>4. /\ \A i \in Gone(j) : air'[i].pn < tx_seq'[j]
            /\ \A r \in Ready(j)' : tx'[r].pn < tx_seq'[j]
        BY <1>1, <1>4, <3>2, <3>4, <4>1, <4>2, <4>3
      <4>5. \A r \in Ready(j)', i \in Gone(j) :
              /\ air'[i].pn # tx'[r].pn
              /\ air'[i].queue = r => air'[i].pn < tx'[r].pn
        BY <1>1, <1>4, <3>1, <3>2, <3>4, <4>1, <4>2, <4>3 DEF FreshFor
      <4>6. \A p, r \in Ready(j)' : p # r => tx'[p].pn # tx'[r].pn
        BY <1>4, <3>1, <3>2, <3>4, <4>1, <4>2, <4>3 DEF FreshFor
      <4>7. QED
        BY <1>1, <3>1, <3>4, <4>4, <4>5, <4>6 DEF FreshFor
    <3>5. QED
      BY <3>3, <3>4
  <2>2. QED
    BY <1>1, <2>1 DEF CountersFresh
<1>20. NoWrap'
  <2>1. ASSUME cipher # "wep", NEW j \in Keys \ raced
        PROVE  tx_seq'[j] <= Len(air) + Cardinality(Submitting') + 1
    <3>1. CASE j = k
      BY <1>4, <1>15, <1>16, <1>18, <2>1, <3>1, CountSubsets
    <3>2. CASE j # k
      <4>1. tx_seq'[j] = tx_seq[j] /\ tx_seq[j] <= fly + 1
        BY <1>8, <2>1, <3>2 DEF NoWrap
      <4>2. tx_seq[j] \in Int
        BY <1>3, <2>1 DEF TypeOK
      <4>3. QED
        BY <1>15, <1>16, <4>1, <4>2, CountSubsets
    <3>3. QED
      BY <3>1, <3>2
  <2>2. QED
    BY <1>1, <1>14, <2>1 DEF NoWrap
<1>21. QED
  BY <1>9, <1>10, <1>11, <1>12, <1>13, <1>19, <1>20, <1>22

\* The frame goes to r92su_usb_tx with what it got.
LEMMA SubmitStep ==
  ASSUME IInv, NEW q \in Queues, TxSubmit(q)
  PROVE  IInv'
<1> USE DEF IInv, NoKey, mode, keyring
<1> DEFINE h == [queue |-> q, proto |-> tx[q].proto, key |-> tx[q].key,
                 iv |-> tx[q].iv, pn |-> tx[q].pn, by |-> EncryptedBy(tx[q])]
           last == Len(air) + 1
<1>1. /\ tx[q].pc = "submit" /\ tx[q] \in Frame
      /\ UNCHANGED <<mode, keyring, tx_seq, raced, late>>
      /\ air' = Append(air, h) /\ Goes(q, NoFrame)
  BY FrameOf DEF TxSubmit
<1>2. /\ h \in Sent /\ h.proto = tx[q].proto /\ h.key = tx[q].key
      /\ h.iv = tx[q].iv /\ h.pn = tx[q].pn /\ h.queue = q
      /\ h.by = EncryptedBy(tx[q])
  BY <1>1 DEF Frame, Sent, EncryptedBy
<1> HIDE DEF h
<1>3. air \in Seq(Sent) /\ Len(air) \in Nat /\ DOMAIN air = 1..Len(air)
  BY DEF TypeOK
<1>4. /\ air' \in Seq(Sent) /\ Len(air') = Len(air) + 1 /\ air'[last] = h
      /\ DOMAIN air' = DOMAIN air \cup {last} /\ last \notin DOMAIN air
      /\ \A i \in DOMAIN air : air'[i] = air[i] /\ i < last
  <2>1. air' \in Seq(Sent) /\ Len(air') = Len(air) + 1
    BY <1>1, <1>2, <1>3
  <2>2. DOMAIN air' = 1..(Len(air) + 1)
    BY <2>1
  <2>3. air'[last] = h /\ \A i \in 1..Len(air) : air'[i] = air[i]
    BY <1>1, <1>2, <1>3
  <2>4. QED
    BY <1>3, <2>1, <2>2, <2>3
<1>5. /\ tx'[q].pc = "idle" /\ tx'[q] = NoFrame
      /\ \A r \in Queues \ {q} : tx'[r] = tx[r]
      /\ tx' \in [Queues -> Frame \cup {NoFrame}]
  BY <1>1, GoesIs DEF NoFrame
<1> HIDE DEF last
<1>6. TypeOK'
  BY <1>1, <1>4, <1>5 DEF TypeOK, Wrap
<1>7. KeysKnown'
  BY <1>1, <1>2, <1>4, <1>5 DEF KeysKnown
<1>8. Covered'
  BY <1>1, <1>5 DEF Covered
<1>9. NoPlaintext'
  <2>1. enc_sta /\ h.proto = "data" =>
          h.by \in {"driver", "firmware"} \/ h.key \in late
    BY <1>1, <1>2 DEF Covered, LeftPinned, EncryptedBy
  <2>2. QED
    BY <1>1, <1>4, <2>1 DEF NoPlaintext
<1>15. Keyring' /\ LeftPinned'
  <2>1. Keyring'
    BY <1>1 DEF Keyring
  <2>2. LeftPinned'
    BY <1>1, <1>5 DEF LeftPinned, InFirmware
  <2>3. QED
    BY <2>1, <2>2
<1>10. AloneWithKey'
  BY <1>1, <1>5 DEF AloneWithKey
<1>11. VectorsMatch'
  <2>1. h.key \notin raced \cup {NoKey} => VectorOf(h.iv, h.pn)
    BY <1>1, <1>2 DEF VectorsMatch
  <2>2. /\ \A p \in Queues :
             tx'[p].pc = "inc" => VectorOf(tx'[p].iv, tx'[p].seq)
        /\ \A p \in Queues :
             tx'[p].pc = "submit" /\ tx'[p].key \notin raced \cup {NoKey} =>
               VectorOf(tx'[p].iv, tx'[p].pn)
        /\ \A i \in DOMAIN air' :
             air'[i].key \notin raced \cup {NoKey} =>
               VectorOf(air'[i].iv, air'[i].pn)
    BY <1>4, <1>5, <2>1 DEF VectorsMatch
  <2>3. QED
    BY <1>1, <2>2 DEF VectorsMatch, VectorOf, Wrap, iv_bytes
<1>12. CountersFresh'
  <2>1. ASSUME cipher # "wep", NEW j \in Keys \ raced
        PROVE  FreshFor(j)'
    <3>1. FreshFor(j) /\ tx_seq'[j] = tx_seq[j]
      BY <1>1, <2>1 DEF CountersFresh
    <3>2. /\ Ready(j)' = Ready(j) \ {q}
          /\ \A r \in Ready(j)' : tx'[r] = tx[r] /\ r # q
      BY <1>5 DEF Ready
    <3>3. CASE tx[q].key # j
      <4>1. Gone(j)' = Gone(j) /\ \A i \in Gone(j) : air'[i] = air[i]
        BY <1>2, <1>4, <3>3 DEF Gone
      <4>2. QED
        BY <3>1, <3>2, <4>1 DEF FreshFor
    <3>4. CASE tx[q].key = j
      <4>1. /\ Gone(j)' = Gone(j) \cup {last} /\ last \notin Gone(j)
            /\ \A i \in Gone(j) : air'[i] = air[i] /\ i < last /\ i \in Nat
        BY <1>2, <1>3, <1>4, <3>4 DEF Gone
      <4>2. /\ air'[last].pn = tx[q].pn /\ air'[last].queue = q
            /\ q \in Ready(j) /\ last \in Nat
        BY <1>1, <1>2, <1>3, <1>4, <3>4 DEF Ready, last
      <4>3. \A i \in Gone(j)' : air'[i].pn < tx_seq'[j]
        BY <3>1, <4>1, <4>2 DEF FreshFor
      <4>4. \A r \in Ready(j)' : tx'[r].pn < tx_seq'[j]
        BY <3>1, <3>2 DEF FreshFor
      <4>5. ASSUME NEW i \in Gone(j)', NEW l \in Gone(j)', i < l
            PROVE  /\ air'[i].pn # air'[l].pn
                   /\ air'[i].queue = air'[l].queue => air'[i].pn < air'[l].pn
        <5>1. i \in Gone(j)
          BY <4>1, <4>2, <4>5
        <5>2. CASE l = last
          <6>1. /\ air[i].pn # tx[q].pn
                /\ air[i].queue = q => air[i].pn < tx[q].pn
            BY <3>1, <4>2, <5>1 DEF FreshFor
          <6>2. air'[i] = air[i]
            BY <4>1, <5>1
          <6>3. QED
            BY <4>2, <5>2, <6>1, <6>2
        <5>3. CASE l \in Gone(j)
          BY <3>1, <4>1, <4>5, <5>1, <5>3 DEF FreshFor
        <5>4. QED
          BY <4>1, <5>2, <5>3
      <4>6. ASSUME NEW r \in Ready(j)', NEW i \in Gone(j)'
            PROVE  /\ air'[i].pn # tx'[r].pn
                   /\ air'[i].queue = r => air'[i].pn < tx'[r].pn
        <5>1. CASE i = last
          BY <3>1, <3>2, <4>2, <5>1 DEF FreshFor
        <5>2. CASE i \in Gone(j)
          BY <3>1, <3>2, <4>1, <5>2 DEF FreshFor
        <5>3. QED
          BY <4>1, <5>1, <5>2
      <4>7. \A p, r \in Ready(j)' : p # r => tx'[p].pn # tx'[r].pn
        BY <3>1, <3>2 DEF FreshFor
      <4>8. QED
        BY <4>3, <4>4, <4>5, <4>6, <4>7 DEF FreshFor
    <3>5. QED
      BY <3>3, <3>4
  <2>2. QED
    BY <1>1, <2>1 DEF CountersFresh
<1>13. NoWrap'
  <2>1. /\ Submitting' = Submitting \ {q} /\ q \in Submitting
        /\ Busy' = Busy \ {q} /\ q \in Busy
    BY <1>1, <1>5, FrameOf DEF Submitting, Busy, NoFrame
  <2>2. /\ Cardinality(Submitting') = Cardinality(Submitting) - 1
        /\ Cardinality(Busy') = Cardinality(Busy) - 1
    BY <2>1, CountQueues, CountSubsets
  <2>3. /\ Len(air') + Cardinality(Busy') = Len(air) + Cardinality(Busy)
        /\ Len(air') + Cardinality(Submitting')
             = Len(air) + Cardinality(Submitting)
    <3>1. Cardinality(Submitting) \in Int /\ Cardinality(Busy) \in Int
      BY CountSubsets
    <3>2. Len(air') = Len(air) + 1 /\ Len(air) \in Int
      BY <1>3, <1>4
    <3>3. QED
      BY <2>2, <3>1, <3>2
  <2>4. QED
    BY <1>1, <2>3 DEF NoWrap
<1>14. QED
  BY <1>6, <1>7, <1>8, <1>9, <1>10, <1>11, <1>12, <1>13, <1>15

(***************************************************************************)
(* The theorems                                                            *)
(***************************************************************************)

\* A network was joined and nothing was sent.
LEMMA InitInv == Init => IInv
<1> SUFFICES ASSUME Init PROVE IInv
  OBVIOUS
<1>1. /\ air = << >> /\ DOMAIN air = {} /\ Len(air) = 0 /\ raced = {}
      /\ \A q \in Queues : tx[q] = NoFrame /\ tx[q].pc = "idle"
      /\ op.call = "none" /\ uploaded = {}
  BY DEF Init, NoFrame, NoOp
<1>2. Wrap \in Nat \ {0}
  BY Bounds DEF Wrap
<1>3. TypeOK
  BY <1>2, Bounds DEF Init, TypeOK, NoKey
<1>4. /\ KeysKnown /\ Keyring /\ Covered /\ LeftPinned /\ NoPlaintext
      /\ AloneWithKey /\ VectorsMatch
  BY <1>1 DEF KeysKnown, Keyring, Covered, LeftPinned, NoPlaintext, AloneWithKey,
     VectorsMatch
<1>5. CountersFresh
  BY <1>1 DEF CountersFresh, FreshFor, Ready, Gone
<1>6. NoWrap
  <2>1. Busy = {} /\ Submitting = {} /\ Cardinality({}) = 0
    BY <1>1, FS_EmptySet DEF Busy, Submitting
  <2>2. \A k \in Keys : tx_seq[k] = 0
    BY DEF Init
  <2>3. QED
    BY <1>1, <2>1, <2>2, Bounds DEF NoWrap
<1>7. QED
  BY <1>3, <1>4, <1>5, <1>6 DEF IInv

\* Every step keeps the inductive invariant.
LEMMA NextInv == IInv /\ [Next]_vars => IInv'
<1> SUFFICES ASSUME IInv, [Next]_vars PROVE IInv'
  OBVIOUS
<1>1. ASSUME NEW i \in Slots, r92su_add_key(i) \/ r92su_del_key(i)
      PROVE  IInv'
  BY <1>1, AddStep, DelStep
<1>5. CASE add_key_publish \/ del_key_unpublish
  BY <1>5, PublishStep, UnpublishStep
<1>6. ASSUME NEW i \in GroupIdx, r92su_set_default_key(i)
      PROVE  IInv'
  BY <1>6, DefaultStep
<1>2. ASSUME NEW q \in Queues, TxNext(q)
      PROVE  IInv'
  BY <1>2, EnterStep, SelectStep, WriteStep, StoreStep, SubmitStep DEF TxNext
<1>3. CASE UNCHANGED vars
  <2>1. UNCHANGED <<mode, installed, slot, def, uploaded, fw, op, tx_seq, tx,
                    air, raced, late>>
    BY <1>3 DEF vars, keyring
  <2>2. Keyring' /\ LeftPinned'
    BY <2>1 DEF IInv, Keyring, LeftPinned, InFirmware
  <2>3. QED
    BY <2>1, <2>2, QuietStep DEF IInv, TypeOK
<1>4. QED
  BY <1>1, <1>2, <1>3, <1>5, <1>6 DEF Next

\* The vector of a frame whose key was not raced decodes to its counter.
LEMMA DecodesInv == IInv => DecodesToPn
<1> SUFFICES ASSUME IInv, NEW i \in DOMAIN air,
                    air[i].key \notin raced \cup {NoKey}
             PROVE  rx_seq(air[i].iv) = air[i].pn
  BY DEF DecodesToPn
<1>1. cipher \in {"wep", "tkip", "ccmp"}
  BY TxPathAssumption DEF IInv, TypeOK
<1>2. air[i].pn \in 0..(Wrap - 1) /\ air[i].iv = iv_bytes(air[i].pn)
  BY DEF IInv, VectorsMatch, VectorOf
<1>3. QED
  BY <1>1, <1>2, IvDecodes

\* Counters that differ have vectors that differ, because they decode.
LEMMA FreshInv == IInv => PnFresh
<1> SUFFICES ASSUME IInv, cipher \in {"tkip", "ccmp"},
                    NEW i \in DOMAIN air, NEW j \in DOMAIN air, i < j,
                    air[i].key = air[j].key,
                    air[i].key \notin raced \cup {NoKey}
             PROVE  /\ air[i].iv # air[j].iv
                    /\ air[i].queue = air[j].queue => air[i].pn < air[j].pn
  BY DEF PnFresh
<1> DEFINE k == air[i].key
<1>1. k \in Keys \ raced
  BY AirOf DEF IInv, Sent
<1>2. i \in Gone(k) /\ j \in Gone(k)
  BY DEF Gone
<1>3. FreshFor(k)
  BY <1>1 DEF IInv, CountersFresh
<1>4. /\ air[i].pn # air[j].pn
      /\ air[i].queue = air[j].queue => air[i].pn < air[j].pn
  BY <1>2, <1>3 DEF FreshFor
<1>5. rx_seq(air[i].iv) = air[i].pn /\ rx_seq(air[j].iv) = air[j].pn
  BY DecodesInv DEF DecodesToPn
<1>6. QED
  BY <1>4, <1>5

\* The inductive invariant holds in every reachable state.
THEOREM Invariance == Spec => []IInv
  BY InitInv, NextInv, PTL DEF Spec

\* Every variable of the transmit path keeps its type.
THEOREM TypeCorrect == Spec => []TypeOK
<1>1. IInv => TypeOK
  BY DEF IInv
<1>2. QED
  BY <1>1, Invariance, PTL

\* On an encrypted network every data frame that r92su_tx hands on was
\* encrypted by the driver, or the firmware it is left to has its key, however
\* keys are added, deleted and made the default ones while r92su_tx works on
\* it, unless the key left the firmware under the frame (tx.c:578).
THEOREM NothingInTheClear == Spec => []NoPlaintext
<1>1. IInv => NoPlaintext
  BY DEF IInv
<1>2. QED
  BY <1>1, Invariance, PTL

\* Two frames that r92su_tx_add_iv gave the same TKIP or CCMP key have
\* different vectors, and those of a queue increasing counters, unless two
\* queues were between reading and storing the counter of that key.
THEOREM CountersAreFresh == Spec => []PnFresh
  BY FreshInv, Invariance, PTL

\* What r92su_rx_iv_handle reads is the counter r92su_tx_add_iv kept, for
\* every base of the bytes and each of the three ciphers.
THEOREM VectorsDecode == Spec => []DecodesToPn
  BY DecodesInv, Invariance, PTL

=============================================================================
