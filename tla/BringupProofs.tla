---------------------------- MODULE BringupProofs ----------------------------
(***************************************************************************)
(* Proofs about Bringup for every number of polls, of blocks and of calls  *)
(* of ndo_open: an interface that is open runs on a chip which the same call  *)
(* has reset, loaded with an unmixed image, booted and configured.         *)
(***************************************************************************)
EXTENDS Bringup, TLAPS

(***************************************************************************)
(* The stages of r92su_open                                                *)
(***************************************************************************)
AfterBoot == {"late", "mac", "recheck", "set"}
AfterDmem == AfterBoot \cup {"boot_wait"}
AfterCpu == AfterDmem \cup {"dmem", "dmem_wait"}
AfterSram == AfterCpu \cup {"cpu", "cpu_wait"}
AfterImem == AfterSram \cup {"sram", "sram_wait"}
AfterReset == AfterImem \cup {"imem", "imem_wait"}

\* r92su_open has come as far as stages, or has returned with success.
Reached(stages) == user \in stages \/ state = "open"

\* The blocks of part p were queued by the call of r92su_open in progress.
Sent(p) == CASE p = "imem" -> Reached(AfterReset \ {"imem"})
             [] p = "sram" -> Reached(AfterSram \cup {"sram_wait"})
             [] p = "dmem" -> Reached(AfterDmem \cup {"dmem_wait"})

\* Everything r92su_open was told so far came from the device: it did not
\* die before the second look at the state, and it is not being unbound.
Trusted ==
  /\ ~unbinding
  /\ \/ state = "stop" /\ user \in AfterReset
     \/ user = "set"
     \/ state = "open"

\* What the bulk queue consists of.
Block == Parts \X (1..MaxOpen) \X BOOLEAN

(***************************************************************************)
(* The inductive invariant                                                 *)
(***************************************************************************)

\* An open interface is up, and ndo_open is not called for one that is.
UpIsIdle ==
  /\ state = "open" => link = "up"
  /\ link = "up" => user = "idle"
  /\ user \in Opening => opens >= 1

\* The bulk queue keeps the blocks in the order of the calls that queued
\* them; a call that has queued nothing yet finds only those of earlier ones.
InOrder ==
  /\ \A i \in DOMAIN tx_wait : tx_wait[i][2] <= opens
  /\ \A i, j \in DOMAIN tx_wait : i < j => tx_wait[i][2] <= tx_wait[j][2]
  /\ user \in {"locked", "early"} =>
       \A i \in DOMAIN tx_wait : tx_wait[i][2] < opens

\* The block is one of part p, and queued by the call in progress.
BlockOf(b, p) == b[1] = p /\ b[2] = opens

\* A block of the call in progress is queued after its stage, and the marked
\* block of a part behind all others of that part.
SentOnce ==
  Trusted =>
    \A p \in Parts :
      /\ \A i \in DOMAIN tx_wait : BlockOf(tx_wait[i], p) => Sent(p)
      /\ \A i, j \in DOMAIN tx_wait :
           BlockOf(tx_wait[i], p) /\ BlockOf(tx_wait[j], p) /\ tx_wait[j][3] => i <= j

\* Once the chip holds a part of an unmixed image, the blocks of earlier
\* calls have left the queue, and so has that part.
Unmixed ==
  Trusted =>
    \A p \in Parts :
      /\ ~stale /\ Received(p) =>
           /\ Sent(p)
           /\ \A i \in DOMAIN tx_wait :
                tx_wait[i][2] = opens /\ tx_wait[i][1] # p
      /\ Checked(p) => ~stale

\* What the waits of r92su_upload_firmware have established stays true.
Established ==
  Trusted =>
    /\ Reached(AfterImem) => Checked("imem")
    /\ Reached(AfterSram) => Checked("sram")
    /\ Reached(AfterCpu) => boot \in {"cpu", "ready"}
    /\ Reached(AfterDmem) => Received("dmem")
    /\ Reached(AfterBoot) => boot = "ready"
    /\ Reached({"recheck", "set"}) => configured = opens

IInv == TypeOK /\ UpIsIdle /\ InOrder /\ SentOnce /\ Unmixed /\ Established

(***************************************************************************)
(* Lemmas on the bulk queue and the waits                                  *)
(***************************************************************************)

\* What a queue holds after n blocks were appended.
LEMMA ConcatIs ==
  ASSUME NEW T, NEW q \in Seq(T), NEW n \in Nat, NEW b \in [1..n -> T]
  PROVE  /\ q \o b \in Seq(T)
         /\ DOMAIN q = 1..Len(q) /\ Len(q) \in Nat
         /\ DOMAIN (q \o b) = 1..(Len(q) + n)
         /\ \A i \in 1..Len(q) : (q \o b)[i] = q[i]
         /\ \A i \in 1..n : (q \o b)[Len(q) + i] = b[i]
<1>1. b \in Seq(T) /\ Len(b) = n
  OBVIOUS
<1>2. QED
  BY <1>1

\* What is left of it once its head was sent.
LEMMA TailIs ==
  ASSUME NEW T, NEW q \in Seq(T), q # << >>
  PROVE  /\ Tail(q) \in Seq(T) /\ Head(q) = q[1]
         /\ DOMAIN q = 1..Len(q) /\ Len(q) \in Nat \ {0}
         /\ DOMAIN Tail(q) = 1..(Len(q) - 1)
         /\ \A i \in 1..(Len(q) - 1) : Tail(q)[i] = q[i + 1]
  OBVIOUS

\* A part has blocks.
LEMMA CountIs == \A p \in Parts : BlocksOf(p) \in Nat \ {0}
  BY BringupAssumption DEF BlocksOf

\* What a call of r92su_open queues for a part are blocks.
LEMMA BlocksAre ==
  ASSUME NEW p \in Parts, opens \in 1..MaxOpen, NEW n \in Nat
  PROVE  [i \in 1..n |-> <<p, opens, i = BlocksOf(p)>>] \in [1..n -> Block]
<1>1. ASSUME NEW i \in 1..n
      PROVE  <<p, opens, i = BlocksOf(p)>> \in Block
  <2>1. (i = BlocksOf(p)) \in BOOLEAN
    OBVIOUS
  <2>2. QED
    BY <2>1, Zenon DEF Block
<1>2. QED
  BY <1>1

\* A transfer leaves the state alone or ends in a dead device, which it
\* always does when it fails on an interface that is not being unbound.
LEMMA TransferIs ==
  ASSUME NEW ok \in Transfers
  PROVE  /\ AfterTransfer(ok) \in {state, "dead"}
         /\ ~unbinding /\ AfterTransfer(ok) # "dead" => ok
         /\ ok \in BOOLEAN
         /\ ok => state # "dead" /\ bus = "up"
         /\ ok => AfterTransfer(ok) = state
  BY DEF Transfers, AfterTransfer

\* A wait of r92su_upload_firmware goes on to the next stage only with the
\* two flags read from the chip.
LEMMA WaitIs ==
  ASSUME TypeOK,
         NEW at, NEW done \in BOOLEAN, NEW done2 \in BOOLEAN, NEW next,
         r92su_upload_mem_wait(at, done, done2, next)
  PROVE  /\ user = at /\ user' \in {at, next, "idle"}
         /\ state' \in {state, "dead"} /\ tries' \in 1..Tries
         /\ ~unbinding /\ state' # "dead" =>
              /\ state' = state
              /\ user' \in {at, "idle"} \/ (user' = next /\ done /\ done2)
         /\ UNCHANGED <<link, unbinding, bus, opens, filevars, tx_wait,
                        chipvars, pwrvars>>
<1>1. PICK ok \in Transfers, d \in BOOLEAN, e \in BOOLEAN :
        /\ d \in ReadBit(ok, done) /\ e \in ReadBit(ok, done2)
        /\ state' = AfterTransfer(ok)
        /\ tries' = IF d \/ tries = 1 THEN Tries ELSE tries - 1
        /\ user' = IF d /\ e THEN next
                   ELSE IF d \/ tries = 1 THEN "idle" ELSE at
  <2>1. PICK ok \in Transfers :
          \E d \in ReadBit(ok, done), e \in ReadBit(ok, done2) :
            /\ state' = AfterTransfer(ok)
            /\ tries' = IF d \/ tries = 1 THEN Tries ELSE tries - 1
            /\ user' = IF d /\ e THEN next
                       ELSE IF d \/ tries = 1 THEN "idle" ELSE at
    BY DEF r92su_upload_mem_wait
  <2>2. /\ ReadBit(ok, done) \subseteq BOOLEAN
        /\ ReadBit(ok, done2) \subseteq BOOLEAN
    BY DEF ReadBit
  <2>3. QED
    BY <2>1, <2>2
<1>2. tries' \in 1..Tries
  BY <1>1, BringupAssumption DEF TypeOK
<1>3. ok => (d <=> done) /\ (e <=> done2)
  BY <1>1 DEF ReadBit
<1>4. QED
  BY <1>1, <1>2, <1>3, TransferIs DEF r92su_upload_mem_wait

(***************************************************************************)
(* Typing and the states of the interface                                  *)
(***************************************************************************)

\* Each poll of a wait.
Wait ==
  \/ ImemWait \/ SramWait \/ CpuWait \/ DmemWait \/ BootWait

\* What the five waits have in common.
LEMMA WaitTypes ==
  ASSUME TypeOK, Wait
  PROVE  /\ user \in Uploading /\ user' \in (Opening \ {"set"}) \cup {"idle"}
         /\ state' \in {state, "dead"} /\ tries' \in 1..Tries
         /\ UNCHANGED <<link, unbinding, bus, opens, filevars, tx_wait,
                        chipvars, pwrvars>>
<1>1. /\ Received("imem") \in BOOLEAN /\ Checked("imem") \in BOOLEAN
      /\ Received("sram") \in BOOLEAN /\ Checked("sram") \in BOOLEAN
      /\ Received("dmem") \in BOOLEAN
      /\ (boot = "cpu") \in BOOLEAN /\ (boot = "ready") \in BOOLEAN
  BY DEF Received, Checked
<1>2. CASE ImemWait
  BY <1>1, <1>2, WaitIs DEF ImemWait, Opening, Uploading
<1>3. CASE SramWait
  BY <1>1, <1>3, WaitIs DEF SramWait, Opening, Uploading
<1>4. CASE CpuWait
  <2>1. /\ user = "cpu_wait" /\ user' \in {"cpu_wait", "dmem", "idle"}
        /\ state' \in {state, "dead"} /\ tries' \in 1..Tries
        /\ UNCHANGED <<link, unbinding, bus, opens, filevars, tx_wait,
                       chipvars, pwrvars>>
    BY <1>1, <1>4, WaitIs DEF CpuWait
  <2>2. QED
    BY <2>1 DEF Opening, Uploading
<1>5. CASE DmemWait
  BY <1>1, <1>5, WaitIs DEF DmemWait, Opening, Uploading
<1>6. CASE BootWait
  <2>1. /\ user = "boot_wait" /\ user' \in {"boot_wait", "late", "idle"}
        /\ state' \in {state, "dead"} /\ tries' \in 1..Tries
        /\ UNCHANGED <<link, unbinding, bus, opens, filevars, tx_wait,
                       chipvars, pwrvars>>
    BY <1>1, <1>6, WaitIs DEF BootWait
  <2>2. QED
    BY <2>1 DEF Opening, Uploading
<1>7. QED
  BY <1>2, <1>3, <1>4, <1>5, <1>6 DEF Wait

\* Every step keeps the types.
LEMMA TypeStep ==
  ASSUME TypeOK, user \in Opening => opens >= 1, [Next]_vars
  PROVE  TypeOK'
<1> USE BringupAssumption DEF vars, filevars, chipvars, pwrvars
<1>1. ASSUME NEW file \in {"null", "bad", "good"}, OpenLoad(file)
      PROVE  TypeOK'
  <2>1. opens' \in 0..MaxOpen
    BY <1>1 DEF OpenLoad, TypeOK
  <2>2. user' \in {"locked", "idle"} /\ fw' \in {"null", "bad", "good"}
        /\ fw_dmem' \in {"zero", "prepared"}
    BY <1>1 DEF OpenLoad, r92su_load_firmware, r92su_prepare_firmware, TypeOK
  <2>3. QED
    BY <1>1, <2>1, <2>2 DEF OpenLoad, TypeOK, Opening
<1>2. CASE OpenStopped
  BY <1>2 DEF OpenStopped, TypeOK, Opening
<1>3. CASE r92su_hw_early_mac_setup
  <2>1. /\ state' \in {state, "dead"} /\ hrpwm_tog' \in {0, hrpwm_tog}
        /\ \/ /\ mem' = [p \in Parts |-> "empty"] /\ boot' = "reset"
              /\ stale' = FALSE
           \/ UNCHANGED <<mem, boot, stale>>
    BY <1>3, TransferIs DEF r92su_hw_early_mac_setup
  <2>2. /\ mem' \in [Parts -> {"empty", "done", "checked"}]
        /\ stale' \in BOOLEAN
    BY <2>1 DEF TypeOK
  <2>3. /\ UNCHANGED <<link, unbinding, bus, tries, opens, filevars, tx_wait,
                       configured, rpwm_tog>>
        /\ user' \in {"imem", "idle"}
    BY <1>3 DEF r92su_hw_early_mac_setup
  <2>4. QED
    BY <2>1, <2>2, <2>3 DEF TypeOK, Opening, Uploading
<1>4. ASSUME NEW p \in Parts, r92su_upload_firmware_part(p)
      PROVE  TypeOK'
  <2>1. WaitFor[p] \in Uploading /\ p \in Uploading
    BY DEF Parts, WaitFor, Uploading
  <2>2. user' \in Uploading \cup {"idle"}
    BY <1>4, <2>1 DEF r92su_upload_firmware_part
  <2>3. PICK n \in 0..BlocksOf(p) :
          tx_wait' = tx_wait \o [i \in 1..n |-> <<p, opens, i = BlocksOf(p)>>]
    BY <1>4 DEF r92su_upload_firmware_part
  <2>4. [i \in 1..n |-> <<p, opens, i = BlocksOf(p)>>] \in [1..n -> Block]
    <3>1. opens \in 1..MaxOpen /\ n \in Nat
      BY <1>4, <2>1, CountIs DEF r92su_upload_firmware_part, TypeOK, Opening
    <3>2. QED
      BY <3>1, BlocksAre
  <2>5. tx_wait' \in Seq(Block)
    BY <2>3, <2>4, ConcatIs, CountIs DEF TypeOK, Block
  <2>6. QED
    BY <1>4, <2>2, <2>5 DEF r92su_upload_firmware_part, TypeOK, Opening, Block
<1>5. CASE Wait
  BY <1>5, WaitTypes DEF TypeOK, Opening
<1>6. CASE EnableCpu
  <2>1. state' \in {state, "dead"} /\ boot' \in {boot, "enabled"}
    BY <1>6, TransferIs DEF EnableCpu
  <2>2. QED
    BY <1>6, <2>1 DEF EnableCpu, TypeOK, Opening, Uploading
<1>7. CASE r92su_hw_late_mac_setup
  BY <1>7, TransferIs DEF r92su_hw_late_mac_setup, TypeOK, Opening
<1>8. CASE r92su_init_mac
  <2>1. /\ state' \in {state, "dead"} /\ user' \in {"idle", "recheck"}
        /\ configured' \in {configured, opens}
    BY <1>8, TransferIs DEF r92su_init_mac
  <2>2. QED
    BY <1>8, <2>1 DEF r92su_init_mac, TypeOK, Opening
<1>9. CASE OpenRecheck
  BY <1>9 DEF OpenRecheck, TypeOK, Opening
<1>10. CASE OpenSet
  BY <1>10 DEF OpenSet, TypeOK
<1>11. CASE ConnectPower
  <2>1. /\ state' \in {state, "dead"}
        /\ rpwm_tog' \in {0, 1} /\ hrpwm_tog' \in {0, 1}
    BY <1>11, TransferIs DEF ConnectPower, r92su_set_power, TypeOK
  <2>2. QED
    BY <1>11, <2>1 DEF ConnectPower, TypeOK
<1>12. CASE r92su_stop
  <2>1. /\ state' \in {state, "dead", "stop"} /\ boot' \in {boot, "off"}
        /\ rpwm_tog' \in {0, 1} /\ hrpwm_tog' \in {0, 1}
    BY <1>12, TransferIs DEF r92su_stop, r92su_set_power, TypeOK
  <2>2. QED
    BY <1>12, <2>1 DEF r92su_stop, TypeOK
<1>13. CASE r92su_unregister
  BY <1>13 DEF r92su_unregister, TypeOK
<1>14. CASE r92su_mark_dead \/ Unplug \/ Unbind
  <2>1. CASE r92su_mark_dead
    BY <2>1 DEF r92su_mark_dead, TypeOK
  <2>2. CASE Unplug
    BY <2>2 DEF Unplug, TypeOK
  <2>3. CASE Unbind
    <3>1. unbinding' \in BOOLEAN
      BY <2>3 DEF Unbind
    <3>2. QED
      BY <2>3, <3>1 DEF Unbind, TypeOK
  <2>4. QED
    BY <1>14, <2>1, <2>2, <2>3
<1>15. CASE ChipReceives
  <2>1. /\ tx_wait' \in Seq(Block)
        /\ Head(tx_wait) \in Block
    BY <1>15, TailIs DEF ChipReceives, TypeOK, Block
  <2>2. mem' \in [Parts -> {"empty", "done", "checked"}]
    BY <1>15, <2>1 DEF ChipReceives, TypeOK, Block
  <2>3. stale' \in BOOLEAN
    BY <1>15 DEF ChipReceives, TypeOK
  <2>4. QED
    BY <1>15, <2>1, <2>2, <2>3 DEF ChipReceives, TypeOK, Block
<1>16. CASE BlockLost
  <2>1. /\ tx_wait' \in Seq(Block)
        /\ state' \in {state, "dead"}
    BY <1>16, TailIs DEF BlockLost, AfterTransfer, TypeOK, Block
  <2>2. UNCHANGED <<link, unbinding, bus, user, tries, opens, filevars,
                    chipvars, pwrvars>>
    BY <1>16 DEF BlockLost
  <2>3. QED
    BY <2>1, <2>2 DEF TypeOK, Block
<1>17. CASE ChipBoots
  BY <1>17 DEF ChipBoots, TypeOK
<1>18. ASSUME NEW p \in Parts, ChipChecks(p)
       PROVE  TypeOK'
  BY <1>18 DEF ChipChecks, TypeOK
<1>19. CASE UNCHANGED vars
  BY <1>19 DEF TypeOK
<1>20. QED
  BY <1>1, <1>2, <1>3, <1>4, <1>5, <1>6, <1>7, <1>8, <1>9, <1>10, <1>11,
     <1>12, <1>13, <1>14, <1>15, <1>16, <1>17, <1>18, <1>19
     DEF Next, OpenStep, Wait

\* ... and an interface that is open stays up and idle.
LEMMA UpStep ==
  ASSUME TypeOK, UpIsIdle, [Next]_vars
  PROVE  UpIsIdle'
<1> USE DEF vars, filevars, chipvars, pwrvars
<1>1. ASSUME NEW file \in {"null", "bad", "good"}, OpenLoad(file)
      PROVE  UpIsIdle'
  BY <1>1 DEF OpenLoad, UpIsIdle, TypeOK
<1>2. CASE OpenStopped
  BY <1>2 DEF OpenStopped, UpIsIdle, Opening
<1>3. CASE r92su_hw_early_mac_setup
  BY <1>3, TransferIs DEF r92su_hw_early_mac_setup, UpIsIdle, Opening
<1>4. ASSUME NEW p \in Parts, r92su_upload_firmware_part(p)
      PROVE  UpIsIdle'
  <2>1. p \in Uploading /\ p # "idle"
    BY DEF Parts, Uploading
  <2>2. QED
    BY <1>4, <2>1 DEF r92su_upload_firmware_part, UpIsIdle, Opening
<1>5. CASE Wait
  BY <1>5, WaitTypes DEF UpIsIdle, Opening, Uploading
<1>6. CASE EnableCpu
  BY <1>6, TransferIs DEF EnableCpu, UpIsIdle, Opening, Uploading
<1>7. CASE r92su_hw_late_mac_setup
  BY <1>7, TransferIs DEF r92su_hw_late_mac_setup, UpIsIdle, Opening
<1>8. CASE r92su_init_mac
  BY <1>8, TransferIs DEF r92su_init_mac, UpIsIdle, Opening
<1>9. CASE OpenRecheck
  BY <1>9 DEF OpenRecheck, UpIsIdle, Opening
<1>10. CASE OpenSet
  BY <1>10 DEF OpenSet, UpIsIdle, Opening, Uploading
<1>11. CASE ConnectPower
  BY <1>11, TransferIs DEF ConnectPower, UpIsIdle
<1>12. CASE r92su_stop
  <2>1. state' # "open"
    BY <1>12 DEF r92su_stop
  <2>2. QED
    BY <1>12, <2>1 DEF r92su_stop, UpIsIdle, Opening, Uploading
<1>13. CASE r92su_unregister
  BY <1>13 DEF r92su_unregister, UpIsIdle, Opening, Uploading
<1>14. CASE r92su_mark_dead \/ Unplug \/ Unbind
  BY <1>14 DEF r92su_mark_dead, Unplug, Unbind, UpIsIdle
<1>15. CASE ChipReceives
  BY <1>15 DEF ChipReceives, UpIsIdle
<1>16. CASE BlockLost
  BY <1>16 DEF BlockLost, AfterTransfer, UpIsIdle
<1>17. CASE ChipBoots
  BY <1>17 DEF ChipBoots, UpIsIdle
<1>18. ASSUME NEW p \in Parts, ChipChecks(p)
       PROVE  UpIsIdle'
  BY <1>18 DEF ChipChecks, UpIsIdle
<1>19. CASE UNCHANGED vars
  BY <1>19 DEF UpIsIdle
<1>20. QED
  BY <1>1, <1>2, <1>3, <1>4, <1>5, <1>6, <1>7, <1>8, <1>9, <1>10, <1>11,
     <1>12, <1>13, <1>14, <1>15, <1>16, <1>17, <1>18, <1>19
     DEF Next, OpenStep, Wait

(***************************************************************************)
(* The queue, the image and the stages                                     *)
(***************************************************************************)

\* A step that moves neither blocks nor the image only has to keep what the
\* stage says of the blocks that were sent.
LEMMA QueueKept ==
  ASSUME InOrder, SentOnce, Unmixed,
         UNCHANGED <<opens, tx_wait, mem, stale>>,
         user' \in {"locked", "early"} => user \in {"locked", "early"},
         Trusted' => Trusted /\ \A p \in Parts : Sent(p) => Sent(p)'
  PROVE  InOrder' /\ SentOnce' /\ Unmixed'
<1>1. InOrder'
  BY DEF InOrder
<1>2. SentOnce'
  BY DEF SentOnce, BlockOf
<1>3. Unmixed'
  BY DEF Unmixed, Received, Checked
<1>4. QED
  BY <1>1, <1>2, <1>3

\* The blocks in the queue are parts of the image.
LEMMA BlockTypes ==
  ASSUME TypeOK, NEW i \in DOMAIN tx_wait
  PROVE  tx_wait[i] \in Block
  BY DEF TypeOK, Block

\* The five waits keep the invariant: each goes on only with what the next
\* stage needs, or marks the device dead.
LEMMA WaitStep ==
  ASSUME IInv, Wait
  PROVE  InOrder' /\ SentOnce' /\ Unmixed' /\ Established'
<1> USE DEF IInv, filevars, chipvars, pwrvars
<1>1. /\ UNCHANGED <<opens, tx_wait, mem, stale, boot, configured, unbinding>>
      /\ state # "open" /\ state' # "open"
      /\ user \in Uploading /\ state' \in {state, "dead"}
  BY WaitTypes DEF UpIsIdle, Uploading
<1>2. /\ Received("imem") \in BOOLEAN /\ Checked("imem") \in BOOLEAN
      /\ Received("sram") \in BOOLEAN /\ Checked("sram") \in BOOLEAN
      /\ Received("dmem") \in BOOLEAN
      /\ (boot = "cpu") \in BOOLEAN /\ (boot = "ready") \in BOOLEAN
  BY DEF Received, Checked
<1>3. /\ user' \notin {"locked", "early", "set"}
      /\ Trusted' => /\ Trusted
                     /\ \A p \in Parts : Sent(p) => Sent(p)'
                     /\ Established'
  <2>1. CASE ImemWait
    <3>1. /\ user = "imem_wait" /\ user' \in {"imem_wait", "sram", "idle"}
          /\ ~unbinding /\ state' # "dead" =>
               \/ user' \in {"imem_wait", "idle"}
               \/ user' = "sram" /\ Checked("imem")
      BY <1>2, <2>1, WaitIs DEF ImemWait
    <3>2. QED
      BY <1>1, <3>1 DEF Trusted, Sent, Reached, Parts, Established, Received,
         Checked, AfterReset, AfterImem, AfterSram, AfterCpu, AfterDmem,
         AfterBoot
  <2>2. CASE SramWait
    <3>1. /\ user = "sram_wait" /\ user' \in {"sram_wait", "cpu", "idle"}
          /\ ~unbinding /\ state' # "dead" =>
               \/ user' \in {"sram_wait", "idle"}
               \/ user' = "cpu" /\ Checked("sram")
      BY <1>2, <2>2, WaitIs DEF SramWait
    <3>2. QED
      BY <1>1, <3>1 DEF Trusted, Sent, Reached, Parts, Established, Received,
         Checked, AfterReset, AfterImem, AfterSram, AfterCpu, AfterDmem,
         AfterBoot
  <2>3. CASE CpuWait
    <3>1. /\ user = "cpu_wait" /\ user' \in {"cpu_wait", "dmem", "idle"}
          /\ ~unbinding /\ state' # "dead" =>
               \/ user' \in {"cpu_wait", "idle"}
               \/ user' = "dmem" /\ boot = "cpu"
      BY <1>2, <2>3, WaitIs DEF CpuWait
    <3>2. QED
      BY <1>1, <3>1 DEF Trusted, Sent, Reached, Parts, Established, Received,
         Checked, AfterReset, AfterImem, AfterSram, AfterCpu, AfterDmem,
         AfterBoot
  <2>4. CASE DmemWait
    <3>1. /\ user = "dmem_wait" /\ user' \in {"dmem_wait", "boot_wait", "idle"}
          /\ ~unbinding /\ state' # "dead" =>
               \/ user' \in {"dmem_wait", "idle"}
               \/ user' = "boot_wait" /\ Received("dmem")
      BY <1>2, <2>4, WaitIs DEF DmemWait
    <3>2. QED
      BY <1>1, <3>1 DEF Trusted, Sent, Reached, Parts, Established, Received,
         Checked, AfterReset, AfterImem, AfterSram, AfterCpu, AfterDmem,
         AfterBoot
  <2>5. CASE BootWait
    <3>1. /\ user = "boot_wait" /\ user' \in {"boot_wait", "late", "idle"}
          /\ ~unbinding /\ state' # "dead" =>
               \/ user' \in {"boot_wait", "idle"}
               \/ user' = "late" /\ boot = "ready"
      BY <1>2, <2>5, WaitIs DEF BootWait
    <3>2. QED
      BY <1>1, <3>1 DEF Trusted, Sent, Reached, Parts, Established, Received,
         Checked, AfterReset, AfterImem, AfterSram, AfterCpu, AfterDmem,
         AfterBoot
  <2>6. QED
    BY <2>1, <2>2, <2>3, <2>4, <2>5 DEF Wait
<1>4. InOrder' /\ SentOnce' /\ Unmixed'
  BY <1>1, <1>3, QueueKept
<1>5. QED
  BY <1>3, <1>4 DEF Established

\* The other steps of r92su_open that leave the queue and the image alone.
LEMMA StageStep ==
  ASSUME IInv,
         OpenStopped \/ EnableCpu \/ r92su_hw_late_mac_setup \/ r92su_init_mac
           \/ OpenRecheck \/ OpenSet
  PROVE  InOrder' /\ SentOnce' /\ Unmixed' /\ Established'
<1> USE DEF IInv, filevars, chipvars, pwrvars
<1>1. /\ UNCHANGED <<opens, tx_wait, mem, stale>>
      /\ user' \in {"locked", "early"} => user \in {"locked", "early"}
      /\ Trusted' => /\ Trusted
                     /\ \A p \in Parts : Sent(p) => Sent(p)'
                     /\ Established'
  <2>1. CASE OpenStopped
    BY <2>1 DEF OpenStopped, UpIsIdle, Trusted, AfterReset, AfterImem,
       AfterSram, AfterCpu, AfterDmem, AfterBoot
  <2>2. CASE EnableCpu
    <3>1. /\ user = "cpu" /\ user' = "cpu_wait" /\ state' \in {state, "dead"}
          /\ UNCHANGED <<unbinding, opens, tx_wait, mem, stale>>
          /\ state # "open"
      BY <2>2, TransferIs DEF EnableCpu, UpIsIdle
    <3>2. QED
      BY <3>1 DEF Trusted, Sent, Reached, Parts, Established, Received,
         Checked, AfterReset, AfterImem, AfterSram, AfterCpu, AfterDmem,
         AfterBoot
  <2>3. CASE r92su_hw_late_mac_setup
    <3>1. /\ user = "late" /\ user' = "mac" /\ state' \in {state, "dead"}
          /\ UNCHANGED <<unbinding, opens, tx_wait, mem, stale, boot>>
          /\ state # "open"
      BY <2>3, TransferIs DEF r92su_hw_late_mac_setup, UpIsIdle
    <3>2. QED
      BY <3>1 DEF Trusted, Sent, Reached, Parts, Established, Received,
         Checked, AfterReset, AfterImem, AfterSram, AfterCpu, AfterDmem,
         AfterBoot
  <2>4. CASE r92su_init_mac
    <3>1. /\ user = "mac" /\ user' \in {"recheck", "idle"}
          /\ state' \in {state, "dead"} /\ state # "open"
          /\ UNCHANGED <<unbinding, opens, tx_wait, mem, stale, boot>>
          /\ ~unbinding /\ state' # "dead" /\ user' = "recheck" =>
               configured' = opens
      BY <2>4, TransferIs DEF r92su_init_mac, UpIsIdle
    <3>2. QED
      BY <3>1 DEF Trusted, Sent, Reached, Parts, Established, Received,
         Checked, AfterReset, AfterImem, AfterSram, AfterCpu, AfterDmem,
         AfterBoot
  <2>5. CASE OpenRecheck
    <3>1. /\ user = "recheck" /\ state # "open"
          /\ user' = "idle" \/ (user' = "set" /\ state = "stop")
          /\ UNCHANGED <<state, unbinding, opens, tx_wait, mem, stale, boot,
                         configured>>
      BY <2>5 DEF OpenRecheck, UpIsIdle
    <3>2. QED
      BY <3>1 DEF Trusted, Sent, Reached, Parts, Established, Received,
         Checked, AfterReset, AfterImem, AfterSram, AfterCpu, AfterDmem,
         AfterBoot
  <2>6. CASE OpenSet
    <3>1. /\ user = "set" /\ user' = "idle" /\ state' = "open"
          /\ UNCHANGED <<unbinding, opens, tx_wait, mem, stale, boot,
                         configured>>
      BY <2>6 DEF OpenSet
    <3>2. QED
      BY <3>1 DEF Trusted, Sent, Reached, Parts, Established, Received,
         Checked, AfterReset, AfterImem, AfterSram, AfterCpu, AfterDmem,
         AfterBoot
  <2>7. QED
    BY <2>1, <2>2, <2>3, <2>4, <2>5, <2>6
<1>2. InOrder' /\ SentOnce' /\ Unmixed'
  BY <1>1, QueueKept
<1>3. QED
  BY <1>1, <1>2 DEF Established

\* The steps that power and stop the interface, the ways in which it dies,
\* and the boot of the chip.
LEMMA PowerStep ==
  ASSUME IInv,
         ConnectPower \/ r92su_stop \/ r92su_mark_dead \/ Unplug \/ Unbind
           \/ ChipBoots \/ UNCHANGED vars
  PROVE  InOrder' /\ SentOnce' /\ Unmixed' /\ Established'
<1> USE DEF IInv, vars, filevars, chipvars, pwrvars
<1>1. /\ UNCHANGED <<opens, tx_wait, mem, stale, user, configured>>
      /\ Trusted' => /\ Trusted
                     /\ state # "open" \/ state' = "open" \/ user = "set"
                     /\ state' = "open" => state = "open"
                     /\ boot' = boot \/ (boot = "cpu" /\ boot' = "ready")
                          \/ boot \notin {"cpu", "ready"}
  <2>1. CASE ConnectPower
    BY <2>1, TransferIs DEF ConnectPower, Trusted, AfterReset, AfterImem,
       AfterSram, AfterCpu, AfterDmem, AfterBoot
  <2>2. CASE r92su_stop
    <3>1. state' # "open" /\ user = "idle"
      BY <2>2 DEF r92su_stop
    <3>2. QED
      BY <2>2, <3>1 DEF r92su_stop, Trusted, AfterReset, AfterImem,
         AfterSram, AfterCpu, AfterDmem, AfterBoot
  <2>3. CASE r92su_mark_dead
    BY <2>3 DEF r92su_mark_dead, Trusted
  <2>4. CASE Unplug \/ UNCHANGED vars
    BY <2>4 DEF Unplug, Trusted
  <2>5. CASE Unbind
    BY <2>5 DEF Unbind, Trusted
  <2>6. CASE ChipBoots
    BY <2>6 DEF ChipBoots, Trusted
  <2>7. QED
    BY <2>1, <2>2, <2>3, <2>4, <2>5, <2>6
<1>2. Trusted' => /\ \A p \in Parts : Sent(p) => Sent(p)'
                  /\ Established'
  BY <1>1 DEF Sent, Reached, Parts, Established, Received, Checked, UpIsIdle,
     AfterReset, AfterImem, AfterSram, AfterCpu, AfterDmem, AfterBoot
<1>3. InOrder' /\ SentOnce' /\ Unmixed'
  BY <1>1, <1>2, QueueKept
<1>4. QED
  BY <1>2, <1>3 DEF Established

\* A call of ndo_open begins with blocks of earlier calls only; unbinding
\* throws the queue away.
LEMMA LoadStep ==
  ASSUME IInv,
         \/ \E file \in {"null", "bad", "good"} : OpenLoad(file)
         \/ r92su_unregister
  PROVE  InOrder' /\ SentOnce' /\ Unmixed' /\ Established'
<1> USE DEF IInv
<1>1. CASE \E file \in {"null", "bad", "good"} : OpenLoad(file)
  <2>1. /\ user' \in {"locked", "idle"} /\ state' = state /\ state # "open"
        /\ opens' = opens + 1 /\ tx_wait' = tx_wait
    BY <1>1 DEF OpenLoad, r92su_load_firmware, UpIsIdle
  <2>2. ~Trusted'
    BY <2>1 DEF Trusted, AfterReset, AfterImem, AfterSram, AfterCpu,
       AfterDmem, AfterBoot
  <2>3. \A i \in DOMAIN tx_wait : tx_wait[i][2] \in Int
    BY BlockTypes, BringupAssumption DEF Block
  <2>4. InOrder'
    BY <2>1, <2>3 DEF InOrder, TypeOK
  <2>5. QED
    BY <2>2, <2>4 DEF SentOnce, Unmixed, Established
<1>2. CASE r92su_unregister
  <2>1. unbinding' /\ tx_wait' = << >> /\ DOMAIN tx_wait' = {}
    BY <1>2 DEF r92su_unregister
  <2>2. ~Trusted'
    BY <2>1 DEF Trusted
  <2>3. InOrder'
    BY <2>1 DEF InOrder
  <2>4. QED
    BY <2>2, <2>3 DEF SentOnce, Unmixed, Established
<1>3. QED
  BY <1>1, <1>2

\* The reset empties the chip; no block of the call is on its way yet.
LEMMA ResetStep ==
  ASSUME IInv, r92su_hw_early_mac_setup
  PROVE  InOrder' /\ SentOnce' /\ Unmixed' /\ Established'
<1> USE DEF IInv
<1>1. /\ user = "early" /\ user' \in {"imem", "idle"} /\ state # "open"
      /\ UNCHANGED <<unbinding, opens, tx_wait>>
      /\ state' \in {state, "dead"}
      /\ ~unbinding /\ state' # "dead" => mem' = [p \in Parts |-> "empty"]
  BY TransferIs DEF r92su_hw_early_mac_setup, UpIsIdle, filevars
<1>2. \A i \in DOMAIN tx_wait : tx_wait[i][2] \in Int /\ opens \in Int
  BY BlockTypes, BringupAssumption DEF TypeOK
<1>3. InOrder' /\ \A i \in DOMAIN tx_wait : tx_wait[i][2] # opens
  BY <1>1, <1>2 DEF InOrder
<1>4. Trusted' => user' = "imem" /\ mem' = [p \in Parts |-> "empty"]
  BY <1>1 DEF Trusted, AfterReset, AfterImem, AfterSram, AfterCpu,
     AfterDmem, AfterBoot
<1>5. SentOnce'
  BY <1>1, <1>3 DEF SentOnce, BlockOf
<1>6. Unmixed'
  BY <1>4 DEF Unmixed, Received, Checked
<1>7. Established'
  BY <1>1, <1>4 DEF Established, Reached, Trusted, AfterReset, AfterImem,
     AfterSram, AfterCpu, AfterDmem, AfterBoot
<1>8. QED
  BY <1>3, <1>5, <1>6, <1>7

\* The blocks of a part are queued once, behind everything that was queued
\* before them; the call that stops half way is over.
LEMMA UploadStep ==
  ASSUME IInv, NEW p \in Parts, r92su_upload_firmware_part(p)
  PROVE  InOrder' /\ SentOnce' /\ Unmixed' /\ Established'
<1> USE DEF IInv
<1>1. /\ UNCHANGED <<state, unbinding, opens, mem, boot, configured, stale>>
      /\ user = p /\ p \in Opening /\ state # "open"
  BY DEF r92su_upload_firmware_part, chipvars, UpIsIdle, Parts, Opening,
     Uploading
<1>2. PICK m \in 0..BlocksOf(p) :
        /\ tx_wait' = tx_wait \o [i \in 1..m |-> <<p, opens, i = BlocksOf(p)>>]
        /\ user' = IF m = BlocksOf(p) THEN WaitFor[p] ELSE "idle"
  BY DEF r92su_upload_firmware_part
<1> DEFINE n == Len(tx_wait)
<1>3. m \in Nat
  BY CountIs
<1>4. [i \in 1..m |-> <<p, opens, i = BlocksOf(p)>>] \in [1..m -> Block]
  <2>1. opens \in 1..MaxOpen
    BY <1>1 DEF TypeOK, UpIsIdle
  <2>2. QED
    BY <1>3, <2>1, BlocksAre
<1>5. /\ DOMAIN tx_wait = 1..n /\ n \in Nat /\ DOMAIN tx_wait' = 1..(n + m)
      /\ \A i \in 1..n : tx_wait'[i] = tx_wait[i]
      /\ \A i \in 1..m : tx_wait'[n + i] = <<p, opens, i = BlocksOf(p)>>
  <2>1. tx_wait \in Seq(Block)
    BY DEF TypeOK, Block
  <2>2. QED
    BY <1>2, <1>3, <1>4, <2>1, ConcatIs
<1> HIDE DEF n
<1>6. /\ \A i \in 1..n : tx_wait[i] \in Block /\ tx_wait[i][2] \in Int
      /\ opens \in Int
  BY <1>5, BlockTypes, BringupAssumption DEF Block, TypeOK
<1>7. \A i \in 1..(n + m) :
        \/ i \in 1..n /\ tx_wait'[i] = tx_wait[i]
        \/ /\ i > n /\ BlockOf(tx_wait'[i], p)
           /\ tx_wait'[i][3] = (i - n = BlocksOf(p))
  <2>1. SUFFICES ASSUME NEW i \in 1..(n + m), i \notin 1..n
                 PROVE  /\ i > n /\ BlockOf(tx_wait'[i], p)
                        /\ tx_wait'[i][3] = (i - n = BlocksOf(p))
    BY <1>5
  <2>2. i - n \in 1..m /\ i = n + (i - n) /\ i > n
    BY <1>3, <1>5, <2>1
  <2>3. tx_wait'[i] = <<p, opens, i - n = BlocksOf(p)>>
    BY <1>5, <2>2
  <2>4. QED
    BY <2>2, <2>3 DEF BlockOf
<1>8. InOrder'
  <2>1. \A i \in 1..n : tx_wait[i][2] <= opens
    BY <1>5 DEF InOrder
  <2>2. \A i \in 1..(n + m) : tx_wait'[i][2] <= opens
    BY <1>6, <1>7, <2>1 DEF BlockOf
  <2>3. \A i, j \in 1..(n + m) : i < j => tx_wait'[i][2] <= tx_wait'[j][2]
    <3>1. SUFFICES ASSUME NEW i \in 1..(n + m), NEW j \in 1..(n + m), i < j
                   PROVE  tx_wait'[i][2] <= tx_wait'[j][2]
      OBVIOUS
    <3>2. CASE j > n
      BY <1>3, <1>5, <1>6, <1>7, <2>2, <3>2 DEF BlockOf
    <3>3. CASE ~(j > n)
      <4>1. i \in 1..n /\ j \in 1..n
        BY <1>3, <1>5, <3>1, <3>3
      <4>2. tx_wait[i][2] <= tx_wait[j][2]
        BY <1>5, <3>1, <4>1 DEF InOrder
      <4>3. QED
        BY <1>5, <4>1, <4>2
    <3>4. QED
      BY <3>2, <3>3
  <2>4. user' \notin {"locked", "early"}
    BY <1>2 DEF WaitFor, Parts
  <2>5. QED
    BY <1>1, <1>5, <2>2, <2>3, <2>4 DEF InOrder
<1>9. CASE user' = "idle"
  <2>1. ~Trusted'
    BY <1>1, <1>9 DEF Trusted, AfterReset, AfterImem, AfterSram, AfterCpu,
       AfterDmem, AfterBoot
  <2>2. QED
    BY <1>8, <2>1 DEF SentOnce, Unmixed, Established
<1>10. CASE m = BlocksOf(p) /\ user' = WaitFor[p]
  <2>5. Trusted' => /\ Trusted /\ ~Sent(p) /\ Sent(p)'
                    /\ \A r \in Parts : Sent(r) => Sent(r)'
    <3> USE <1>1, <1>10 DEF Trusted, Sent, Reached, Parts, WaitFor, AfterReset,
            AfterImem, AfterSram, AfterCpu, AfterDmem, AfterBoot
    <3>1. CASE p = "imem"
      BY <3>1
    <3>2. CASE p = "sram"
      BY <3>2
    <3>3. CASE p = "dmem"
      BY <3>3
    <3>4. QED
      BY <3>1, <3>2, <3>3
  <2>6. SentOnce'
    <3>1. SUFFICES ASSUME Trusted', NEW r \in Parts
                   PROVE  /\ \A i \in 1..(n + m) :
                               BlockOf(tx_wait'[i], r) => Sent(r)'
                          /\ \A i, j \in 1..(n + m) :
                               /\ BlockOf(tx_wait'[i], r) /\ BlockOf(tx_wait'[j], r)
                               /\ tx_wait'[j][3]
                               => i <= j
      BY <1>1, <1>5 DEF SentOnce, BlockOf
    <3>2. /\ \A i \in 1..n : BlockOf(tx_wait[i], r) => Sent(r)
          /\ \A i, j \in 1..n :
               BlockOf(tx_wait[i], r) /\ BlockOf(tx_wait[j], r) /\ tx_wait[j][3] => i <= j
      BY <1>5, <2>5, <3>1 DEF SentOnce
    <3>3. \A i \in 1..n : ~BlockOf(tx_wait[i], p)
      BY <1>5, <2>5, <3>1 DEF SentOnce
    <3>4. \A i \in 1..(n + m) : BlockOf(tx_wait'[i], r) =>
            \/ i \in 1..n /\ r # p /\ tx_wait'[i] = tx_wait[i]
            \/ i > n /\ r = p /\ tx_wait'[i][3] = (i - n = BlocksOf(p))
      BY <1>7, <3>3 DEF BlockOf
    <3>5. \A i \in 1..(n + m) : BlockOf(tx_wait'[i], r) => Sent(r)'
      BY <2>5, <3>1, <3>2, <3>4
    <3>6. ASSUME NEW i \in 1..(n + m), NEW j \in 1..(n + m),
                 BlockOf(tx_wait'[i], r), BlockOf(tx_wait'[j], r), tx_wait'[j][3]
          PROVE  i <= j
      <4>1. CASE r = p
        <5>1. j - n = BlocksOf(p)
          BY <3>4, <3>6, <4>1
        <5>2. QED
          BY <1>3, <1>5, <1>10, <5>1
      <4>2. CASE r # p
        BY <3>2, <3>4, <3>6, <4>2
      <4>3. QED
        BY <4>1, <4>2
    <3>7. QED
      BY <3>5, <3>6
  <2>7. Unmixed'
    <3>1. SUFFICES ASSUME Trusted', NEW r \in Parts
                   PROVE  /\ ~stale /\ Received(r) =>
                               /\ Sent(r)'
                               /\ \A i \in 1..(n + m) :
                                    tx_wait'[i][2] = opens /\ tx_wait'[i][1] # r
                          /\ Checked(r) => ~stale
      BY <1>1, <1>5 DEF Unmixed, Received, Checked
    <3>2. ~stale /\ Received(r) =>
            /\ Sent(r) /\ r # p
            /\ \A i \in 1..n : tx_wait[i][2] = opens /\ tx_wait[i][1] # r
      BY <1>5, <2>5, <3>1 DEF Unmixed
    <3>3. QED
      BY <1>7, <2>5, <3>1, <3>2 DEF Unmixed, BlockOf
  <2>8. Established'
    BY <1>1, <1>10, <2>5 DEF Established, Reached, Received, Checked, Parts,
       WaitFor, AfterReset, AfterImem, AfterSram, AfterCpu, AfterDmem, AfterBoot
  <2>9. QED
    BY <1>8, <2>6, <2>7, <2>8
<1>11. QED
  BY <1>2, <1>9, <1>10

\* Whatever leaves the head of the queue leaves the rest in order.
LEMMA TailStep ==
  ASSUME IInv, tx_wait # << >>, tx_wait' = Tail(tx_wait),
         UNCHANGED <<opens, user, unbinding>>,
         state' = "open" => state = "open",
         Trusted' => Trusted /\ \A p \in Parts : Sent(p) => Sent(p)'
  PROVE  InOrder' /\ SentOnce'
<1> USE DEF IInv
<1> DEFINE n == Len(tx_wait)
<1>1. /\ DOMAIN tx_wait = 1..n /\ n \in Nat \ {0}
      /\ DOMAIN tx_wait' = 1..(n - 1)
      /\ \A i \in 1..(n - 1) : tx_wait'[i] = tx_wait[i + 1]
  BY TailIs DEF TypeOK
<1> HIDE DEF n
<1>2. \A i \in 1..(n - 1) : i + 1 \in 1..n
  BY <1>1
<1>3. InOrder'
  BY <1>1, <1>2 DEF InOrder
<1>4. SentOnce'
  <2>1. SUFFICES ASSUME Trusted', NEW r \in Parts
                 PROVE  /\ \A i \in 1..(n - 1) :
                             BlockOf(tx_wait'[i], r) => Sent(r)'
                        /\ \A i, j \in 1..(n - 1) :
                             /\ BlockOf(tx_wait'[i], r) /\ BlockOf(tx_wait'[j], r)
                             /\ tx_wait'[j][3]
                             => i <= j
    BY <1>1 DEF SentOnce, BlockOf
  <2>2. /\ \A i \in 1..n : BlockOf(tx_wait[i], r) => Sent(r)
        /\ \A i, j \in 1..n :
             BlockOf(tx_wait[i], r) /\ BlockOf(tx_wait[j], r) /\ tx_wait[j][3] => i <= j
    BY <1>1, <2>1 DEF SentOnce
  <2>3. \A i, j \in 1..(n - 1) : i + 1 <= j + 1 => i <= j
    BY <1>1
  <2>4. QED
    BY <1>1, <1>2, <2>1, <2>2, <2>3
<1>5. QED
  BY <1>3, <1>4

\* A block that reaches the chip: a part of this call is the first of its
\* kind, and one of an earlier call finds the chip without a checked part.
LEMMA ReceiveStep ==
  ASSUME IInv, ChipReceives
  PROVE  InOrder' /\ SentOnce' /\ Unmixed' /\ Established'
<1> USE DEF IInv
<1> DEFINE n == Len(tx_wait)
           hp == tx_wait[1][1]
           ho == tx_wait[1][2]
           last == tx_wait[1][3]
<1>1. /\ DOMAIN tx_wait = 1..n /\ n \in Nat \ {0}
      /\ DOMAIN tx_wait' = 1..(n - 1)
      /\ \A i \in 1..(n - 1) : tx_wait'[i] = tx_wait[i + 1] /\ i + 1 \in 1..n
      /\ Head(tx_wait) = tx_wait[1] /\ 1 \in 1..n
  BY TailIs DEF TypeOK, ChipReceives
<1>2. /\ tx_wait # << >> /\ tx_wait' = Tail(tx_wait)
      /\ mem' = IF last THEN [mem EXCEPT ![hp] = "done"] ELSE mem
      /\ stale' = (stale \/ ho # opens)
      /\ UNCHANGED <<state, unbinding, user, opens, boot, configured>>
  BY <1>1 DEF ChipReceives
<1>3. /\ \A i \in 1..n : tx_wait[i] \in Block
      /\ hp \in Parts
  BY <1>1, BlockTypes DEF Block
<1>4. /\ Trusted' => Trusted
      /\ \A p \in Parts : Sent(p)' <=> Sent(p)
  BY <1>2 DEF Trusted, Sent, Reached
<1>5. InOrder' /\ SentOnce'
  BY <1>2, <1>4, TailStep
<1> HIDE DEF n, hp, ho, last
<1>6. \A p \in Parts : Received(p)' <=> Received(p) \/ (last /\ p = hp)
  BY <1>2, <1>3 DEF Received, TypeOK
<1>7. \A p \in Parts : Checked(p)' <=> Checked(p) /\ ~(last /\ p = hp)
  BY <1>2, <1>3 DEF Checked, TypeOK
<1>8. \A p \in Parts : Checked(p) => Received(p)
  BY DEF Checked, Received
<1>9. ASSUME Trusted, ho = opens, last
      PROVE  /\ Sent(hp)
             /\ \A i \in 1..(n - 1) :
                  tx_wait'[i][2] = opens /\ tx_wait'[i][1] # hp
  <2>1. /\ BlockOf(tx_wait[1], hp) /\ tx_wait[1][3]
        /\ \A i \in 1..n : BlockOf(tx_wait[i], hp) => Sent(hp) /\ i <= 1
    <3>1. BlockOf(tx_wait[1], hp) /\ tx_wait[1][3]
      BY <1>9 DEF BlockOf, hp, ho, last
    <3>2. \A i \in 1..n : BlockOf(tx_wait[i], hp) => Sent(hp) /\ i <= 1
      BY <1>1, <1>3, <1>9, <3>1 DEF SentOnce
    <3>3. QED
      BY <3>1, <3>2
  <2>2. \A i \in 1..n : tx_wait[i][2] \in Int /\ opens \in Int
    BY <1>3, BringupAssumption DEF TypeOK, Block
  <2>3. \A i \in 1..(n - 1) :
          ho <= tx_wait[i + 1][2] /\ tx_wait[i + 1][2] <= opens
    <3>1. \A i \in 1..(n - 1) : i + 1 \in 1..n /\ 1 < i + 1
      BY <1>1
    <3>2. QED
      BY <1>1, <3>1 DEF InOrder, ho
  <2>4. \A i \in 1..(n - 1) : tx_wait[i + 1][2] = opens
    BY <1>1, <1>9, <2>2, <2>3
  <2>5. ASSUME NEW i \in 1..(n - 1), tx_wait[i + 1][1] = hp
        PROVE  FALSE
    <3>1. BlockOf(tx_wait[i + 1], hp)
      BY <2>4, <2>5 DEF BlockOf
    <3>2. i + 1 \in 1..n /\ ~(i + 1 <= 1)
      BY <1>1
    <3>3. QED
      BY <2>1, <3>1, <3>2
  <2>6. QED
    BY <1>1, <2>1, <2>4, <2>5
<1>10. ASSUME Trusted, NEW p \in Parts, ~stale, Received(p)
       PROVE  /\ ho = opens /\ hp # p
              /\ \A i \in 1..(n - 1) :
                   tx_wait'[i][2] = opens /\ tx_wait'[i][1] # p
  <2>1. \A i \in 1..n : tx_wait[i][2] = opens /\ tx_wait[i][1] # p
    BY <1>1, <1>10 DEF Unmixed
  <2>2. ho = opens /\ hp # p
    BY <1>1, <2>1 DEF ho, hp
  <2>3. QED
    BY <1>1, <2>1, <2>2
<1>11. Unmixed'
  <2>1. SUFFICES ASSUME Trusted', NEW p \in Parts
                 PROVE  /\ ~stale' /\ Received(p)' =>
                             /\ Sent(p)'
                             /\ \A i \in 1..(n - 1) :
                                  tx_wait'[i][2] = opens /\ tx_wait'[i][1] # p
                        /\ Checked(p)' => ~stale'
    BY <1>1, <1>2 DEF Unmixed
  <2>2. Checked(p)' => ~stale'
    BY <1>2, <1>4, <1>7, <1>8, <1>10, <2>1 DEF Unmixed
  <2>3. ASSUME ~stale', Received(p)'
        PROVE  /\ Sent(p)'
               /\ \A i \in 1..(n - 1) :
                    tx_wait'[i][2] = opens /\ tx_wait'[i][1] # p
    <3>1. ~stale /\ ho = opens
      BY <1>2, <2>3
    <3>2. CASE last /\ p = hp
      BY <1>4, <1>9, <2>1, <3>1, <3>2
    <3>3. CASE Received(p)
      BY <1>4, <1>10, <2>1, <3>1, <3>3 DEF Unmixed
    <3>4. QED
      BY <1>6, <2>3, <3>2, <3>3
  <2>4. QED
    BY <2>2, <2>3
<1>12. Established'
  <2>1. Trusted => \A p \in Parts : Checked(p) => Checked(p)'
    BY <1>7, <1>8, <1>10 DEF Unmixed
  <2>2. \A p \in Parts : Received(p) => Received(p)'
    BY <1>6
  <2>3. QED
    BY <1>2, <1>4, <2>1, <2>2 DEF Established, Reached, Parts
<1>13. QED
  BY <1>5, <1>11, <1>12

\* A block that is lost with the device is trusted only by a call that has
\* looked at the state for the last time.
LEMMA LostStep ==
  ASSUME IInv, BlockLost
  PROVE  InOrder' /\ SentOnce' /\ Unmixed' /\ Established'
<1> USE DEF IInv
<1>1. /\ tx_wait # << >> /\ tx_wait' = Tail(tx_wait)
      /\ UNCHANGED <<unbinding, user, opens, mem, boot, configured, stale>>
      /\ state' = "open" => state = "open"
      /\ ~unbinding => state' \in {"dead", "unload"}
  BY DEF BlockLost, AfterTransfer, chipvars
<1>2. Trusted' => /\ user = "set" /\ user' = "set" /\ Trusted
                  /\ \A p \in Parts : Sent(p) /\ Sent(p)'
  BY <1>1 DEF Trusted, Sent, Reached, Parts, AfterReset, AfterImem, AfterSram,
     AfterCpu, AfterDmem, AfterBoot
<1>3. InOrder' /\ SentOnce'
  BY <1>1, <1>2, TailStep
<1>4. /\ DOMAIN tx_wait = 1..Len(tx_wait)
      /\ DOMAIN tx_wait' = 1..(Len(tx_wait) - 1) /\ Len(tx_wait) \in Nat
      /\ \A i \in 1..(Len(tx_wait) - 1) : tx_wait'[i] = tx_wait[i + 1]
  BY <1>1, TailIs DEF TypeOK
<1>5. \A i \in DOMAIN tx_wait' :
        \E j \in DOMAIN tx_wait : tx_wait'[i] = tx_wait[j]
  <2>1. \A i \in 1..(Len(tx_wait) - 1) : i + 1 \in 1..Len(tx_wait)
    BY <1>4
  <2>2. QED
    BY <1>4, <2>1
<1>6. Unmixed'
  BY <1>1, <1>2, <1>5 DEF Unmixed, Received, Checked
<1>7. Established'
  BY <1>1, <1>2 DEF Established, Reached, Received, Checked, AfterImem,
     AfterSram, AfterCpu, AfterDmem, AfterBoot
<1>8. QED
  BY <1>3, <1>6, <1>7

\* The chip checks a part of an unmixed image.
LEMMA CheckStep ==
  ASSUME IInv, NEW p \in Parts, ChipChecks(p)
  PROVE  InOrder' /\ SentOnce' /\ Unmixed' /\ Established'
<1> USE DEF IInv
<1>1. /\ mem[p] = "done" /\ ~stale /\ mem' = [mem EXCEPT ![p] = "checked"]
      /\ UNCHANGED <<state, unbinding, user, opens, tx_wait, boot, configured,
                     stale>>
  BY DEF ChipChecks
<1>2. (Trusted' <=> Trusted) /\ \A r \in Parts : Sent(r)' <=> Sent(r)
  BY <1>1 DEF Trusted, Sent, Reached
<1>3. \A r \in Parts : /\ Received(r)' <=> Received(r)
                       /\ Checked(r) => Checked(r)'
  BY <1>1 DEF Received, Checked, TypeOK
<1>4. InOrder' /\ SentOnce'
  BY <1>1, <1>2 DEF InOrder, SentOnce, BlockOf
<1>5. Unmixed'
  BY <1>1, <1>2, <1>3 DEF Unmixed
<1>6. Established'
  BY <1>1, <1>2, <1>3 DEF Established, Reached, Parts
<1>7. QED
  BY <1>4, <1>5, <1>6

(***************************************************************************)
(* Theorems                                                                *)
(***************************************************************************)

\* The invariant holds when the interface was just registered.
LEMMA InitInv == Init => IInv
<1>1. SUFFICES ASSUME Init PROVE IInv
  OBVIOUS
<1>2. TypeOK
  <2>1. /\ mem \in [Parts -> {"empty", "done", "checked"}]
        /\ tx_wait \in Seq(Block)
    BY <1>1 DEF Init
  <2>2. unbinding \in BOOLEAN /\ stale \in BOOLEAN
    BY <1>1 DEF Init
  <2>3. tries \in 1..Tries /\ opens \in 0..MaxOpen /\ configured \in 0..MaxOpen
    BY <1>1, BringupAssumption DEF Init
  <2>4. QED
    BY <1>1, <2>1, <2>2, <2>3 DEF Init, TypeOK
<1>3. UpIsIdle /\ ~Trusted
  BY <1>1 DEF Init, UpIsIdle, Trusted, Opening, Uploading, AfterReset,
     AfterImem, AfterSram, AfterCpu, AfterDmem, AfterBoot
<1>4. InOrder
  BY <1>1 DEF Init, InOrder
<1>5. QED
  BY <1>2, <1>3, <1>4 DEF IInv, SentOnce, Unmixed, Established

\* Every step keeps it.
LEMMA NextInv == IInv /\ [Next]_vars => IInv'
<1>1. SUFFICES ASSUME IInv, [Next]_vars PROVE IInv'
  OBVIOUS
<1>2. TypeOK' /\ UpIsIdle'
  BY <1>1, TypeStep, UpStep DEF IInv, UpIsIdle
<1>3. InOrder' /\ SentOnce' /\ Unmixed' /\ Established'
  BY <1>1, WaitStep, StageStep, PowerStep, LoadStep, ResetStep, UploadStep,
     ReceiveStep, LostStep, CheckStep DEF Next, OpenStep, Wait
<1>4. QED
  BY <1>2, <1>3 DEF IInv

\* Every behaviour keeps the inductive invariant.
THEOREM Invariance == Spec => []IInv
  BY InitInv, NextInv, PTL DEF Spec

\* Every variable keeps its type, whatever the number of polls and opens.
THEOREM TypeCorrect == Spec => []TypeOK
<1>1. IInv => TypeOK
  BY DEF IInv
<1>2. QED
  BY <1>1, Invariance, PTL

\* An interface that r92su_open has opened runs on a chip that was reset,
\* loaded, started, booted and configured by that same call.
THEOREM OpenMeansBooted == Spec => []OpenIsBooted
<1>1. IInv => OpenIsBooted
  BY DEF IInv, OpenIsBooted, Established, Trusted, Reached
<1>2. QED
  BY <1>1, Invariance, PTL

\* No part of the firmware an open interface runs was mixed with a block
\* that an earlier, abandoned upload had left in the bulk queue.
THEOREM ImageNotMixed == Spec => []ImageIntact
<1>1. IInv => ImageIntact
  BY DEF IInv, ImageIntact, Established, Unmixed, Trusted, Reached, Parts
<1>2. QED
  BY <1>1, Invariance, PTL
=============================================================================
