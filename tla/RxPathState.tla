----------------------------- MODULE RxPathState ----------------------------
(***************************************************************************)
(* The state of module RxPath and the safety properties it has to keep, for*)
(* RxPath, which adds the steps, and for the theorems in StaTableProofs.   *)
(***************************************************************************)
EXTENDS Integers

CONSTANTS
  MaxFrag,   \* bound: fragments in an MSDU
  MaxMsdu,   \* bound: MSDUs sent
  NoFrame    \* no frame is in the air

VARIABLES
  cipher,    \* the link's cipher
  medium,    \* "good", or "bad": frames can be lost or late, memory short
  peer,      \* the peer: its first sequence number, the fragment it sends
             \* next, its key and its counter
  sent,      \* the frames the peer has sent
  air,       \* the frame that arrives next, or NoFrame
  rx_seq,    \* sta->rx_seq
  key,       \* the installed key: its number and its rx_seq
  queue,     \* sta->defrag[].queue
  size,      \* sta->defrag[].size
  out,       \* the fragments of the MSDU delivered last
  delivered, \* history: how often each fragment was delivered, at most 2
  stray      \* history: a frame passed the replay check of another key than
             \* its own and was accepted

Parts == (1..MaxMsdu) \X (0..(MaxFrag - 1))

\* No part of an MSDU is delivered twice: not when its acknowledgement was
\* lost, not when a frame reappears later on a link with a replay check, and
\* not across a change of the key.  The exception is CCMP with a change of
\* the key: r92su_rx_crypto_handle looks at no key when the hardware has
\* decrypted the frame already, and the new key's counter starts again.
AtMostOnce == stray \/ \A p \in Parts : delivered[p] <= 1

\* First copies that the code takes for something else: a first frame with
\* the sequence control 0 for a duplicate, since sta->rx_seq starts at 0,
\* and a packet number that a new key starts with for a replay.
Swallowed(f) ==
  \/ f.part = <<1, 0>> /\ f.seq = 0
  \/ cipher = "tkip" /\ f.iv <= 1
  \/ cipher = "ccmp" /\ f.iv = 0

Spoiled(m) == \E i \in DOMAIN sent : sent[i].part[1] = m /\ Swallowed(sent[i])

\* When neither a frame nor memory is lost and the key stays, every MSDU
\* whose last fragment was received has been delivered with all its
\* fragments, whatever was repeated and whatever came before it, unless one
\* of its frames was swallowed.  With CCMP the code does not reassemble at
\* all: r92su_defrag_add clears the packet number that r92su_check_if_match
\* compares with.
NothingDropped ==
  medium = "good" /\ air = NoFrame /\ key.id = 1 =>
    \A i \in DOMAIN sent :
      /\ sent[i].kind = "data" /\ sent[i].more = "last"
      /\ cipher = "ccmp" => sent[i].part[2] = 0
      /\ ~Spoiled(sent[i].part[1])
      => \A k \in 0..sent[i].part[2] : delivered[<<sent[i].part[1], k>>] = 1
=============================================================================
