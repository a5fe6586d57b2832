------------------------------- MODULE RxPath -------------------------------
(***************************************************************************)
(* The receive path of one station's frames that are not aggregated        *)
(* (r92su/rx.c): header check, deduplication, key lookup, replay check,    *)
(* decryption, defragmentation and delivery.  r92su_rx_data runs it for    *)
(* one frame at a time, under rx_path, so a frame is one step.             *)
(*                                                                         *)
(* The environment is the peer, which sends MSDUs in fragments and repeats *)
(* a frame whose acknowledgement was lost, and the host, which can be      *)
(* unable to allocate memory for a frame.  A protected frame can also be   *)
(* repeated much later; the replay check is there for that.  User space    *)
(* replaces the key.                                                       *)
(*                                                                         *)
(* A frame's payload is its MSDU's number and its fragment number, and has *)
(* length one.  Keys are numbered in the order they are installed.         *)
(***************************************************************************)
EXTENDS RxPathState, Integers, Sequences, FiniteSets, SequencesExt

CONSTANTS
  Ciphers,   \* the ciphers to consider, of "open", "wep", "tkip", "ccmp"
  Mod,       \* number of sequence numbers
  FirstIv,   \* the peer's first packet number under a key
  MaxKey     \* bound: keys installed

ConstantsOK ==
  /\ Ciphers \subseteq {"open", "wep", "tkip", "ccmp"}
  /\ Mod \in Nat \ {0, 1} /\ FirstIv \in Nat
  /\ MaxFrag \in Nat \ {0} /\ MaxMsdu \in Nat /\ MaxKey \in Nat \ {0}

ASSUME RxPathAssumption == ConstantsOK

vars == <<cipher, medium, peer, sent, air, rx_seq, key, queue, size, out,
          delivered, stray>>
rxvars == <<rx_seq, key, queue, size, out, delivered, stray>>

Frame ==
  [kind : {"data", "mgmt"}, part : Parts, seq : 0..(Mod - 1),
   more : {"more", "last"}, key : 1..MaxKey, iv : Nat]

ASSUME NoFrameAssumption == NoFrame \notin Frame

TypeOK ==
  /\ cipher \in Ciphers /\ medium \in {"good", "bad"}
  /\ peer \in [start : 0..(Mod - 1), msdu : 1..(MaxMsdu + 1),
               frag : 0..(MaxFrag - 1), nfrag : 1..MaxFrag, key : 1..MaxKey,
               iv : Nat]
  /\ sent \in Seq(Frame)
  /\ air \in Frame \cup {NoFrame}
  /\ rx_seq \in (0..(Mod - 1)) \X (0..(MaxFrag - 1))
  /\ key \in [id : 1..MaxKey, rx_seq : Nat]
  /\ queue \in Seq(Frame)
  /\ size \in 0..(MaxMsdu * MaxFrag)
  /\ out \in Seq(Parts)
  /\ delivered \in [Parts -> 0..2]
  /\ stray \in BOOLEAN

(***************************************************************************)
(* r92su_key_alloc: the counter a new key starts with                      *)
(***************************************************************************)
r92su_key_alloc(id) ==
  [id |-> id, rx_seq |-> IF cipher = "tkip" THEN 1 ELSE 0]

Init ==
  /\ cipher \in Ciphers /\ medium \in {"good", "bad"}
  /\ peer \in [start : 0..(Mod - 1), msdu : {1}, frag : {0},
               nfrag : 1..MaxFrag, key : {1}, iv : {FirstIv}]
  /\ sent = << >>
  /\ air = NoFrame
  /\ rx_seq = <<0, 0>>
  /\ key = r92su_key_alloc(1)
  /\ queue = << >>
  /\ size = 0
  /\ out = << >>
  /\ delivered = [p \in Parts |-> 0]
  /\ stray = FALSE

(***************************************************************************)
(* The peer and the medium                                                 *)
(***************************************************************************)
protects == cipher # "open"
replays_checked == cipher \in {"tkip", "ccmp"}

\* The peer sends its next frame: a fragment, or a management frame, which
\* takes a sequence number of its own.
Send(kind, nfrag) ==
  /\ air = NoFrame
  /\ peer.msdu <= MaxMsdu
  /\ kind = "mgmt" => peer.nfrag = 1
  /\ LET lastfrag == peer.frag + 1 = peer.nfrag
         f == [kind |-> kind,
               part |-> <<peer.msdu, peer.frag>>,
               seq |-> (peer.start + peer.msdu) % Mod,
               more |-> IF lastfrag THEN "last" ELSE "more",
               key |-> peer.key,
               iv |-> peer.iv]
     IN /\ air' = f
        /\ sent' = Append(sent, f)
        /\ peer' = [peer EXCEPT !.msdu = IF lastfrag THEN @ + 1 ELSE @,
                                !.frag = IF lastfrag THEN 0 ELSE @ + 1,
                                !.nfrag = IF lastfrag THEN nfrag ELSE @,
                                !.iv = @ + 1]
  /\ UNCHANGED <<cipher, medium, rxvars>>

\* A frame comes again: the last one, or, on a bad link, any if replays are
\* checked for.
Again(i) ==
  /\ air = NoFrame
  /\ i \in 1..Len(sent)
  /\ i = Len(sent) \/ (medium = "bad" /\ replays_checked)
  /\ air' = sent[i]
  /\ UNCHANGED <<cipher, medium, peer, sent, rxvars>>

\* rx92su_rx_copy_data finds no memory, or the frame is damaged.
Lost ==
  /\ medium = "bad"
  /\ air # NoFrame
  /\ air' = NoFrame
  /\ UNCHANGED <<cipher, medium, peer, sent, rxvars>>

\* User space replaces the key, and the peer uses the new one.
Rekey ==
  /\ protects
  /\ key.id < MaxKey /\ peer.frag = 0
  /\ key' = r92su_key_alloc(key.id + 1)
  /\ peer' = [peer EXCEPT !.key = key.id + 1, !.iv = FirstIv]
  /\ UNCHANGED <<cipher, medium, sent, air, rx_seq, queue, size, out,
                 delivered, stray>>

(***************************************************************************)
(* The stages.  Each tells what it accepts; the rest is RX_DROP.           *)
(***************************************************************************)
seq_ctrl(f) == <<f.seq, f.part[2]>>

\* Mutant: only the sequence number is compared, not the fragment number.
r92su_rx_deduplicate_SeqOnly(f) == rx_seq[1] # f.seq

\* r92su_rx_deduplicate
r92su_rx_deduplicate(f) == rx_seq # seq_ctrl(f)

\* Mutant: the packet number accepted last is accepted again.
r92su_rx_iv_handle_Equal(f) == replays_checked => f.iv >= key.rx_seq

\* r92su_rx_iv_handle: the replay check.  WEP has none.
r92su_rx_iv_handle(f) == replays_checked => f.iv > key.rx_seq

\* r92su_rx_crypto_handle: a frame protected with another key does not
\* decrypt (or its MIC is wrong), if the host is to decrypt it.  What the
\* hardware decrypted is accepted as it is, only TKIP's Michael MIC is
\* checked with the installed key.
r92su_rx_crypto_handle(f, needs_decrypt) ==
  protects => f.key = key.id \/ (~needs_decrypt /\ cipher # "tkip")

\* r92su_check_if_match.  r92su_defrag_add has cleared the iv of the frames
\* in the queue.
r92su_check_if_match(f) ==
  /\ queue # << >>
  /\ \/ Last(queue).seq = f.seq
     \/ f.part[2] = Last(queue).part[2] + 1
  /\ cipher = "ccmp" => Last(queue).iv + 1 = f.iv

(***************************************************************************)
(* r92su_rx_defrag                                                         *)
(***************************************************************************)
r92su_defrag_drop ==
  /\ queue' = << >>
  /\ size' = 0

r92su_defrag_add(q, s, f) ==
  /\ queue' = Append(q, [f EXCEPT !.iv = 0])
  /\ size' = s + 1

\* The frames of s leave as one MSDU.
Deliver(s) ==
  LET parts == [i \in DOMAIN s |-> s[i].part]
  IN /\ out' = parts
     /\ delivered' =
          [p \in Parts |->
             IF p \in ToSet(parts) /\ delivered[p] < 2
             THEN delivered[p] + 1 ELSE delivered[p]]

r92su_rx_defrag(f) ==
  LET frag == f.part[2]
      first == frag = 0
  IN
  \/ \* new_queued
     /\ f.more = "more" /\ first
     /\ r92su_defrag_add(<< >>, 0, f)
     /\ UNCHANGED <<out, delivered>>
  \/ \* queued
     /\ f.more = "more" /\ ~first
     /\ r92su_check_if_match(f)
     /\ r92su_defrag_add(queue, size, f)
     /\ UNCHANGED <<out, delivered>>
  \/ \* not a fragment
     /\ f.more = "last" /\ first
     /\ r92su_defrag_drop
     /\ Deliver(<<f>>)
  \/ \* the last fragment
     /\ f.more = "last" /\ ~first
     /\ r92su_check_if_match(f)
     /\ queue' = << >>
     /\ size' = size + 1
     /\ Deliver(Append(queue, f))
  \/ \* dropped: no match, or no memory for the whole MSDU
     /\ ~first
     /\ \/ ~r92su_check_if_match(f)
        \/ f.more = "last" /\ medium = "bad"
     /\ r92su_defrag_drop
     /\ UNCHANGED <<out, delivered>>

(***************************************************************************)
(* r92su_rx_data and r92su_rx_handler                                      *)
(***************************************************************************)
RxData(needs_decrypt) ==
  LET passes ==
        /\ r92su_rx_deduplicate(air)
        /\ air.kind = "data"
        /\ r92su_rx_iv_handle(air)
        /\ r92su_rx_crypto_handle(air, needs_decrypt)
  IN
  /\ air # NoFrame
  /\ air' = NoFrame
  /\ rx_seq' = seq_ctrl(air)
  /\ \/ \* dropped, or a management frame
        /\ ~passes
        /\ UNCHANGED <<key, queue, size, out, delivered, stray>>
     \/ /\ passes
        /\ key' = IF protects THEN [key EXCEPT !.rx_seq = air.iv] ELSE key
        /\ stray' = (stray \/ (replays_checked /\ air.key # key.id))
        /\ r92su_rx_defrag(air)
  /\ UNCHANGED <<cipher, medium, peer, sent>>

Next ==
  \/ \E kind \in {"data", "mgmt"}, n \in 1..MaxFrag : Send(kind, n)
  \/ \E i \in 1..Len(sent) : Again(i)
  \/ Lost
  \/ Rekey
  \/ \E needs_decrypt \in BOOLEAN : RxData(needs_decrypt)

Spec == Init /\ [][Next]_vars

-----------------------------------------------------------------------------
(***************************************************************************)
(* Properties                                                              *)
(***************************************************************************)

\* "all fragments have to have the same sequence couter" (main.c): what is
\* delivered as one MSDU is one MSDU, whole.
WholeMsdu ==
  \A i \in DOMAIN out : out[i] = <<out[1][1], i - 1>>
=============================================================================
